---------------------------- MODULE NodePrograms ----------------------------
(* The programs of one directory (cli/, identity/, config/, db/): what     *)
(* they start from, and the commands that work on its database.            *)
EXTENDS Naturals, Integers, FiniteSets

CONSTANTS
  Interactive, NodeProgram, Standalone, Peers,  \* processes, by their command
  None, Empty,          \* no file; a file truncated and not written
  MaxProgramStarts,     \* bound on the starts
  NodeCommand,          \* processes
  NoCommand,
  CreditOfRuntime       \* Runtime::new: 1000 PCLAW

\* No file and an empty file are none of the keys and none of the
\* configurations, and no process is no process.
ASSUME ProgramsAssumption ==
  /\ MaxProgramStarts \in Nat
  /\ None \notin 1..MaxProgramStarts
  /\ Empty \notin {None, "default", "edited"} /\ Empty \notin 1..MaxProgramStarts
  /\ IsFiniteSet(NodeCommand) /\ NoCommand \notin NodeCommand
  /\ CreditOfRuntime \in Nat

VARIABLES
  identity,        \* identity.key: the key, by the start that generated it
  config,          \* config.toml: "default" or "edited"
  setupHolder,     \* of each database file: the process that has it open
  programAt,       \* of each process: the next step of its start
  programId,       \* of each process: its NodeIdentity
  programStarts,   \* starts so far
  tornFiles,       \* files that a process which died left empty
  raced,           \* a first start began while another was under way
  databaseThere,   \* whether the database file exists
  databaseHolder,  \* the process that has it open
  agentTable,      \* the agents: status, by the process that made the agent
  storedWallet,    \* the wallet in the database
  does, commandAt, \* what each process does, and where it is
  commandWallet,   \* the wallet each process works on
  report, about,   \* what each process printed, and the agents it is about
  node_jobs,       \* whether a node has active jobs
  credits,         \* history: runtimes that were credited
  looked,          \* history: the runs that found a database
  sendsReported    \* history: sends that were reported

-----------------------------------------------------------------------------
(* How the programs that share a base directory start: each reads            *)
(* identity.key and config.toml, or writes them first, without a lock, and    *)
(* then opens a database, which one process at a time may hold                *)
(* (bootstrap.rs, identity/mod.rs, config/mod.rs, db/mod.rs, cli/start.rs).   *)

setupVars == <<identity, config, setupHolder, programAt, programId, programStarts,
               tornFiles, raced>>

Process == Interactive \cup NodeProgram \cup Standalone \cup Peers
Key == 1..MaxProgramStarts
File == {"peerclaw.redb", "chat.redb"}

SetupTypeOK ==
  /\ identity \in Key \cup {None, Empty}
  /\ config \in {"default", "edited", None, Empty}
  /\ setupHolder \in [File -> Process \cup {None}]
  /\ programAt \in [Process -> {"stopped", "generate", "write", "save", "saving",
                         "load", "config", "open", "running"}]
  /\ programId \in [Process -> Key \cup {None}]
  /\ programStarts \in 0..MaxProgramStarts
  /\ tornFiles \in SUBSET {"identity", "config"}
  /\ raced \in BOOLEAN

SetupInit ==
  /\ identity = None /\ config \in {None, "edited"}
  /\ setupHolder = [f \in File |-> None]
  /\ programAt = [p \in Process |-> "stopped"]
  /\ programId = [p \in Process |-> None]
  /\ programStarts = 0 /\ tornFiles = {} /\ raced = FALSE

SetupGo(p, step) == programAt' = [programAt EXCEPT ![p] = step]

\* An error of a step ends the program.
SetupStop(p) ==
  /\ SetupGo(p, "stopped")
  /\ programId' = [programId EXCEPT ![p] = None]
  /\ setupHolder' = [f \in File |-> IF setupHolder[f] = p THEN None ELSE setupHolder[f]]

\* Every command decides by whether the file exists; peers does not create it.
SetupBegin(p) ==
  /\ programAt[p] = "stopped" /\ programStarts < MaxProgramStarts
  /\ programStarts' = programStarts + 1
  /\ \/ identity # None /\ SetupGo(p, "load") /\ UNCHANGED <<programId, raced>>
     \/ /\ identity = None /\ p \notin Peers
        /\ SetupGo(p, "generate") /\ programId' = [programId EXCEPT ![p] = programStarts']
        /\ raced' = (raced \/ \E q \in Process : programAt[q] \in {"generate", "write"})
  /\ UNCHANGED <<identity, config, setupHolder, tornFiles>>

\* fs::write opens the file with truncation and then writes it whole.
TruncateIdentity(p) ==
  /\ programAt[p] = "generate"
  /\ identity' = Empty /\ SetupGo(p, "write")
  /\ UNCHANGED <<config, setupHolder, programId, programStarts, tornFiles, raced>>

\* Mutant: the commands other than the interactive start keep their new key
\* in memory alone.
KeyNotSaved(p) ==
  /\ programAt[p] = "write"
  /\ identity' = (IF p \in Interactive THEN programId[p] ELSE None)
  /\ tornFiles' = tornFiles \ {"identity"}
  /\ SetupGo(p, IF p \in Interactive THEN "save" ELSE "config")
  /\ UNCHANGED <<config, setupHolder, programId, programStarts, raced>>

\* The wizard of the interactive start goes on to the configuration; the other
\* commands keep the key they generated.
WriteIdentity(p) ==
  /\ programAt[p] = "write"
  /\ identity' = programId[p] /\ tornFiles' = tornFiles \ {"identity"}
  /\ SetupGo(p, IF p \in Interactive THEN "save" ELSE "config")
  /\ UNCHANGED <<config, setupHolder, programId, programStarts, raced>>

\* The wizard saves the defaults, over a file that was there before.
TruncateConfig(p) ==
  /\ programAt[p] = "save"
  /\ config' = Empty /\ SetupGo(p, "saving")
  /\ UNCHANGED <<identity, setupHolder, programId, programStarts, tornFiles, raced>>

WriteConfig(p) ==
  /\ programAt[p] = "saving"
  /\ config' = "default" /\ tornFiles' = tornFiles \ {"config"}
  /\ SetupGo(p, "load")
  /\ UNCHANGED <<identity, setupHolder, programId, programStarts, raced>>

\* A key that is not 32 bytes long is refused.
LoadIdentity(p) ==
  /\ programAt[p] = "load"
  /\ \/ identity = Empty /\ SetupStop(p)
     \/ /\ identity # Empty
        /\ programId' = [programId EXCEPT ![p] = identity]
        /\ SetupGo(p, "config") /\ UNCHANGED setupHolder
  /\ UNCHANGED <<identity, config, programStarts, tornFiles, raced>>

\* No file means the defaults, an empty one lacks the fields of every section.
LoadConfig(p) ==
  /\ programAt[p] = "config"
  /\ \/ config = Empty /\ SetupStop(p)
     \/ config # Empty /\ SetupGo(p, "open") /\ UNCHANGED <<programId, setupHolder>>
  /\ UNCHANGED <<identity, config, programStarts, tornFiles, raced>>

\* A standalone chat keeps a database beside that of the node.
database(p) == IF p \in Standalone THEN "chat.redb" ELSE "peerclaw.redb"

SetupOpen(p) ==
  /\ programAt[p] = "open"
  /\ \/ setupHolder[database(p)] # None /\ SetupStop(p)
     \/ /\ setupHolder[database(p)] = None
        /\ setupHolder' = [setupHolder EXCEPT ![database(p)] = p]
        /\ SetupGo(p, "running") /\ UNCHANGED programId
  /\ UNCHANGED <<identity, config, programStarts, tornFiles, raced>>

\* The program ends, or dies wherever it is; its lock goes with it.
Die(p) ==
  /\ programAt[p] # "stopped" /\ SetupStop(p)
  /\ tornFiles' = tornFiles \cup (IF programAt[p] = "write" THEN {"identity"} ELSE {})
                  \cup (IF programAt[p] = "saving" THEN {"config"} ELSE {})
  /\ UNCHANGED <<identity, config, programStarts, raced>>

\* The user edits config.toml.
Edit ==
  /\ config = "default" /\ config' = "edited"
  /\ UNCHANGED <<identity, setupHolder, programAt, programId, programStarts, tornFiles,
                 raced>>

SetupStep(p) ==
  \/ SetupBegin(p) \/ TruncateIdentity(p) \/ WriteIdentity(p)
  \/ TruncateConfig(p) \/ WriteConfig(p) \/ LoadIdentity(p) \/ LoadConfig(p)
  \/ SetupOpen(p) \/ Die(p)

SetupNext == Edit \/ \E p \in Process : SetupStep(p)

\* The programs that run at one time have one identity, and it is the one on
\* disk, for the next start to find, unless first starts overlapped, which
\* nothing excludes (cli/start.rs, serve.rs, chat.rs).
OneIdentity ==
  raced \/ \A p \in Process : programAt[p] = "running" => programId[p] = identity

\* A file is found empty only while a program is about to write it or after
\* one died just then; then every later start ends with an error
\* (identity/mod.rs:50, config/mod.rs:44).
FilesWhole ==
  /\ identity = Empty => "identity" \in tornFiles \/ \E p \in Process : programAt[p] = "write"
  /\ config = Empty => "config" \in tornFiles \/ \E p \in Process : programAt[p] = "saving"

-----------------------------------------------------------------------------
(***************************************************************************)
(* A node and the commands of the same user: `peerclaw agent`, `job`,      *)
(* `wallet`, `peers`, `network` (cli/*.rs) and `serve`.  Each is a process *)
(* that opens the database (db/mod.rs), which one process at a time may    *)
(* hold; the agents and the wallet are kept there, jobs and connections    *)
(* are not.  config.database.path is the default.                          *)
(***************************************************************************)

commandVars == <<databaseThere, databaseHolder, agentTable, storedWallet, does, commandAt,
                 commandWallet, report, about, node_jobs, credits, looked, sendsReported>>

OfAgents == {"agent run", "agent list", "agent logs", "agent info", "agent stop"}
OfNetwork == {"network status", "network peers"}
OfJobs == {"job inference", "job fetch", "job list", "job history", "job cancel"}
OfPeers == {"peers list", "peers join", "peers discover"}
OfWallet == {"balance", "info", "history", "escrows", "send", "stake", "unstake"}

\* What they need: the file to be there, or a runtime of their own.
OfFile == OfAgents \cup OfNetwork
OfRuntime == OfJobs \cup OfPeers \cup {"serve"}

Wallet == [available : Nat, in_escrow : Nat, staked : Nat]
NoTokens == [available |-> 0, in_escrow |-> 0, staked |-> 0]

CommandTypeOK ==
    /\ databaseThere \in BOOLEAN
    /\ databaseHolder \in NodeCommand \cup {NoCommand}
    /\ agentTable \in [NodeCommand -> {"none", "running", "stopped"}]
    /\ storedWallet \in Wallet
    /\ does \in [NodeCommand -> OfFile \cup OfRuntime \cup OfWallet \cup {"nothing"}]
    /\ commandAt \in [NodeCommand -> {"new", "open", "load", "credit", "work", "save", "ask",
                                      "print", "ended"}]
    /\ commandWallet \in [NodeCommand -> Wallet]
    /\ DOMAIN report = NodeCommand /\ about \in [NodeCommand -> SUBSET NodeCommand]
    /\ node_jobs \in BOOLEAN
    /\ credits \in Nat /\ looked \subseteq NodeCommand /\ sendsReported \subseteq NodeCommand

CommandInit ==
    /\ databaseThere = FALSE /\ databaseHolder = NoCommand
    /\ agentTable = [c \in NodeCommand |-> "none"]
    /\ storedWallet = NoTokens
    /\ does = [c \in NodeCommand |-> "nothing"] /\ commandAt = [c \in NodeCommand |-> "new"]
    /\ commandWallet = [c \in NodeCommand |-> NoTokens]
    /\ report = [c \in NodeCommand |-> "nothing"] /\ about = [c \in NodeCommand |-> {}]
    /\ node_jobs = FALSE
    /\ credits = 0 /\ looked = {} /\ sendsReported = {}

CommandGo(c, step) == commandAt' = [commandAt EXCEPT ![c] = step]
Tell(c, what, whose) ==
    report' = [report EXCEPT ![c] = what] /\ about' = [about EXCEPT ![c] = whose]

-----------------------------------------------------------------------------
(* The database: its tables of agents and peers and its settings.  Only what *)
(* is committed is there; no part of the program calls store_peer.           *)

get_agent(a) == agentTable[a]
list_agent_ids == {a \in NodeCommand : get_agent(a) # "none"}
store_agent(a, status) == agentTable' = [agentTable EXCEPT ![a] = status]
list_peer_ids == {}
get_setting == storedWallet
store_setting(state) == storedWallet' = state

\* The agent and network commands look for the file first.  Without it a run
\* says that it deployed, a list that there is nothing, and the others fail.
WithoutDatabase(c, command) ==
    IF command = "agent run" THEN Tell(c, "deployed", {c})
    ELSE Tell(c, IF command \in {"agent list", "network peers"} THEN "no database" ELSE "failed",
              {})

CommandBegin(c) ==
    /\ commandAt[c] = "new"
    /\ \E command \in OfFile \cup OfRuntime \cup OfWallet :
        /\ IF command \in OfFile /\ ~databaseThere
           THEN /\ IF command = "network status"
                   THEN /\ CommandGo(c, "ask") /\ does' = [does EXCEPT ![c] = command]
                        /\ UNCHANGED <<report, about>>
                   ELSE CommandGo(c, "print") /\ WithoutDatabase(c, command) /\ UNCHANGED does
                /\ UNCHANGED looked
           ELSE /\ CommandGo(c, "open") /\ does' = [does EXCEPT ![c] = command]
                /\ looked' = looked \cup ({c} \cap {d \in NodeCommand : command = "agent run"})
                /\ UNCHANGED <<report, about>>
    /\ UNCHANGED <<databaseThere, databaseHolder, agentTable, storedWallet, commandWallet,
                   node_jobs, credits, sendsReported>>

\* Mutant: several processes get the file.
OpenShared(c) ==
    /\ commandAt[c] = "open"
    /\ databaseThere' = TRUE /\ databaseHolder' = c
    /\ CommandGo(c, IF does[c] \in OfFile THEN "work" ELSE "load")
    /\ UNCHANGED <<agentTable, storedWallet, does, commandWallet, report, about,
                   node_jobs, credits, looked, sendsReported>>

\* Database::open creates the file, and fails while another process has it.
CommandOpen(c) ==
    /\ commandAt[c] = "open"
    /\ databaseThere' = TRUE
    /\ IF databaseHolder = NoCommand
       THEN /\ databaseHolder' = c /\ CommandGo(c, IF does[c] \in OfFile THEN "work" ELSE "load")
            /\ UNCHANGED <<does, report, about>>
       ELSE /\ does' = [does EXCEPT ![c] = "nothing"]
            /\ CommandGo(c, "print") /\ Tell(c, "failed", {}) /\ UNCHANGED databaseHolder
    /\ UNCHANGED <<agentTable, storedWallet, commandWallet, node_jobs, credits, looked,
                   sendsReported>>

\* The process prints and ends, or is stopped, or dies; the file is free.  What
\* it said of agents is remembered.
End(c) ==
    /\ commandAt[c] \notin {"new", "ended"}
    /\ CommandGo(c, "ended")
    /\ does' = [does EXCEPT ![c] = "nothing"]
    /\ commandWallet' = [commandWallet EXCEPT ![c] = NoTokens]
    /\ databaseHolder' = IF databaseHolder = c THEN NoCommand ELSE databaseHolder
    /\ node_jobs' = (node_jobs /\ ~(does[c] = "serve" /\ databaseHolder = c))
    /\ IF about[c] = {} THEN Tell(c, "nothing", {}) ELSE UNCHANGED <<report, about>>
    /\ UNCHANGED <<databaseThere, agentTable, storedWallet, credits, looked, sendsReported>>

-----------------------------------------------------------------------------
(* The wallet, which the wallet commands load alone and the others as part   *)
(* of a runtime; each change of it is saved before it is reported.           *)

LoadWallet(c) ==
    /\ commandAt[c] = "load"
    /\ commandWallet' = [commandWallet EXCEPT ![c] = get_setting]
    /\ CommandGo(c, IF does[c] \in OfRuntime THEN "credit" ELSE "work")
    /\ UNCHANGED <<databaseThere, databaseHolder, agentTable, storedWallet, does, report,
                   about, node_jobs, credits, looked, sendsReported>>

\* Runtime::new credits what it has just loaded, and saves it.
CreditRuntime(c) ==
    /\ commandAt[c] = "credit"
    /\ commandWallet' = [commandWallet EXCEPT ![c].available = @ + CreditOfRuntime]
    /\ store_setting(commandWallet'[c])
    /\ credits' = credits + 1
    /\ CommandGo(c, "work")
    /\ UNCHANGED <<databaseThere, databaseHolder, agentTable, does, report, about,
                   node_jobs, looked, sendsReported>>

Spending == {"send", "stake", "unstake"}

\* create_escrow for a send, stake, unstake.
Moved(w, command) ==
    IF command = "send" THEN [w EXCEPT !.available = @ - 1, !.in_escrow = @ + 1]
    ELSE IF command = "stake" THEN [w EXCEPT !.available = @ - 1, !.staked = @ + 1]
    ELSE [w EXCEPT !.available = @ + 1, !.staked = @ - 1]

\* An error if there are no tokens to take.
Spend(c) ==
    /\ commandAt[c] = "work" /\ does[c] \in Spending
    /\ IF (IF does[c] = "unstake" THEN commandWallet[c].staked ELSE commandWallet[c].available) = 0
       THEN CommandGo(c, "print") /\ Tell(c, "failed", {}) /\ UNCHANGED commandWallet
       ELSE /\ commandWallet' = [commandWallet EXCEPT ![c] = Moved(@, does[c])]
            /\ CommandGo(c, "save") /\ UNCHANGED <<report, about>>
    /\ UNCHANGED <<databaseThere, databaseHolder, agentTable, storedWallet, does,
                   node_jobs, credits, looked, sendsReported>>

\* Mutant: reported before it is saved.
ReportUnsaved(c) ==
    /\ commandAt[c] = "save" /\ does[c] \in Spending
    /\ sendsReported' = sendsReported \cup ({c} \cap {d \in NodeCommand : does[d] = "send"})
    /\ Tell(c, "done", {}) /\ CommandGo(c, "print")
    /\ UNCHANGED <<databaseThere, databaseHolder, agentTable, storedWallet, does,
                   commandWallet, node_jobs, credits, looked>>

SaveWallet(c) ==
    /\ commandAt[c] = "save" /\ does[c] \in Spending
    /\ store_setting(commandWallet[c])
    /\ sendsReported' = sendsReported \cup ({c} \cap {d \in NodeCommand : does[d] = "send"})
    /\ Tell(c, "done", {}) /\ CommandGo(c, "print")
    /\ UNCHANGED <<databaseThere, databaseHolder, agentTable, does, commandWallet,
                   node_jobs, credits, looked>>

-----------------------------------------------------------------------------
(* The agents. *)

\* Mutant: the transaction is not committed.
RunUncommitted(c) ==
    /\ commandAt[c] = "work" /\ does[c] = "agent run"
    /\ Tell(c, "deployed", {c}) /\ CommandGo(c, "print")
    /\ UNCHANGED <<databaseThere, databaseHolder, agentTable, storedWallet, does,
                   commandWallet, node_jobs, credits, looked, sendsReported>>

\* store_agent commits a transaction.
RunAgent(c) ==
    /\ commandAt[c] = "work" /\ does[c] = "agent run"
    /\ store_agent(c, "running")
    /\ Tell(c, "deployed", {c}) /\ CommandGo(c, "print")
    /\ UNCHANGED <<databaseThere, databaseHolder, storedWallet, does, commandWallet,
                   node_jobs, credits, looked, sendsReported>>

\* get_agent; the state is written back as stopped.  Nobody tells the node.
StopAgent(c) ==
    /\ \/ /\ commandAt[c] = "work" /\ does[c] = "agent stop"
          /\ \E a \in NodeCommand \ {c} :
              IF get_agent(a) = "none"
              THEN Tell(c, "failed", {}) /\ CommandGo(c, "print")
              ELSE Tell(c, "nothing", {a}) /\ CommandGo(c, "save")
          /\ UNCHANGED agentTable
       \/ /\ commandAt[c] = "save" /\ does[c] = "agent stop"
          /\ \E a \in about[c] : store_agent(a, "stopped")
          /\ Tell(c, "stopped", about[c]) /\ CommandGo(c, "print")
    /\ UNCHANGED <<databaseThere, databaseHolder, storedWallet, does, commandWallet,
                   node_jobs, credits, looked, sendsReported>>

-----------------------------------------------------------------------------
(* The commands that only ask, once they have the file. *)

list_agents(c) == does[c] = "agent list" /\ Tell(c, "listed", list_agent_ids)

\* The log itself is a file; --follow waits for Ctrl+C with the database open.
stream_logs(c) ==
    /\ does[c] = "agent logs"
    /\ \E a \in NodeCommand \ {c} :
        IF get_agent(a) = "none" THEN Tell(c, "failed", {}) ELSE Tell(c, "logged", {a})

show_agent_info(c) ==
    /\ does[c] = "agent info"
    /\ \E a \in NodeCommand \ {c} :
        IF get_agent(a) = "none" THEN Tell(c, "failed", {}) ELSE Tell(c, get_agent(a), {a})

network_peers(c) ==
    /\ does[c] = "network peers"
    /\ Tell(c, IF list_peer_ids = {} THEN "no peers" ELSE "listed", list_peer_ids)

\* The job commands ask a job manager they have just made.  Nobody polls their
\* network, so no peer connects and the publication of a request fails.
run_inference_job(c) == does[c] = "job inference" /\ Tell(c, "failed", {})
\* The fetch is made here, whatever it comes to.
run_fetch_job(c) == does[c] = "job fetch" /\ \E told \in {"result", "failed"} : Tell(c, told, {})
list_jobs(c) == does[c] = "job list" /\ Tell(c, "no active jobs", {})
show_history(c) == does[c] = "job history" /\ Tell(c, "no completed jobs", {})
cancel_job(c) == does[c] = "job cancel" /\ Tell(c, "not found", {})

list_peers(c) == does[c] = "peers list" /\ Tell(c, "no peers", {})
\* An address that cannot be dialled, or ten looks at no connection.
join_peer(c) == does[c] = "peers join" /\ \E told \in {"failed", "timeout"} : Tell(c, told, {})
discover_peers(c) == does[c] = "peers discover" /\ Tell(c, "no peers", {})

show_balance(c) == does[c] \in {"balance", "info"} /\ Tell(c, "balance", {})
show_transactions(c) == does[c] = "history" /\ Tell(c, "transactions", {})
show_escrows(c) ==
    /\ does[c] = "escrows"
    /\ Tell(c, IF commandWallet[c].in_escrow = 0 THEN "no active escrows" ELSE "escrows", {})

Ask(c) ==
    /\ commandAt[c] = "work"
    /\ \/ list_agents(c) \/ stream_logs(c) \/ show_agent_info(c) \/ network_peers(c)
       \/ run_inference_job(c) \/ run_fetch_job(c)
       \/ list_jobs(c) \/ show_history(c) \/ cancel_job(c)
       \/ list_peers(c) \/ join_peer(c) \/ discover_peers(c)
       \/ show_balance(c) \/ show_transactions(c) \/ show_escrows(c)
    /\ CommandGo(c, "print")
    /\ UNCHANGED <<databaseThere, databaseHolder, agentTable, storedWallet, does,
                   commandWallet, node_jobs, credits, looked, sendsReported>>

\* network status closes the database before it asks the node's web server: a
\* node that was there before has made it fail.
show_status(c) ==
    /\ does[c] = "network status"
    /\ \/ /\ commandAt[c] = "work" /\ databaseHolder' = NoCommand
          /\ CommandGo(c, "ask") /\ UNCHANGED <<report, about>>
       \/ /\ commandAt[c] = "ask" /\ UNCHANGED databaseHolder
          /\ CommandGo(c, "print")
          /\ IF \E d \in NodeCommand : does[d] = "serve" /\ commandAt[d] = "work"
             \* With or without the web server.
             THEN \E told \in {"live", "offline"} : Tell(c, told, {})
             ELSE Tell(c, "offline", {})
    /\ UNCHANGED <<databaseThere, agentTable, storedWallet, does, commandWallet,
                   node_jobs, credits, looked, sendsReported>>

\* The node's own jobs come and go in its memory (module Marketplace).
NodeWorks(c) ==
    /\ commandAt[c] = "work" /\ does[c] = "serve"
    /\ node_jobs' = ~node_jobs
    /\ UNCHANGED <<databaseThere, databaseHolder, agentTable, storedWallet, does,
                   commandAt, commandWallet, report, about, credits, looked, sendsReported>>

CommandNext ==
    \E c \in NodeCommand :
        \/ CommandBegin(c) \/ CommandOpen(c) \/ End(c)
        \/ LoadWallet(c) \/ CreditRuntime(c) \/ Spend(c) \/ SaveWallet(c)
        \/ RunAgent(c) \/ StopAgent(c)
        \/ Ask(c) \/ show_status(c) \/ NodeWorks(c)

-----------------------------------------------------------------------------
\* Properties.

\* No token is lost or made between the processes, however they came and died:
\* what is stored is what the runtimes were credited, every send that was
\* reported is in escrow there, and the balance or the escrows a command shows
\* are the stored ones.
TokensCarryOver ==
    /\ storedWallet.available + storedWallet.in_escrow + storedWallet.staked =
         CreditOfRuntime * credits
    /\ storedWallet.in_escrow >= Cardinality(sendsReported)
    /\ \A c \in NodeCommand :
        commandAt[c] = "print" /\ does[c] \in OfWallet /\ report[c] # "failed" =>
            commandWallet[c] = storedWallet

\* What the agent commands say is so: an agent reported as deployed is stored
\* if there was a database, one reported as stopped does not run again, and
\* what a list shows is there.
ReportsTrue ==
    \A c \in NodeCommand, a \in NodeCommand :
        a \in about[c] =>
            /\ report[c] \in {"deployed", "listed", "logged"} =>
                   agentTable[a] # "none" \/ a \notin looked
            /\ report[c] = "stopped" => agentTable[a] = "stopped"

\* A job command that gets as far as its own, empty, job manager does so while
\* no node runs: there is no active job that it fails to show or to cancel.
NoJobsMissed ==
    \A c \in NodeCommand :
        commandAt[c] = "print" /\ report[c] \in {"no active jobs", "no completed jobs", "not found"}
            => ~node_jobs

\* The programs that run over one directory have the identity that is on
\* disk, unless first starts overlapped, and a file is found empty only after
\* one died writing it (cli/start.rs, identity/mod.rs, config/mod.rs);
\* commands on one database carry the tokens over, report what was stored and
\* what there is, and miss no job (cli/wallet.rs, cli/agent.rs, cli/job.rs).
ProgramsApart ==
  /\ TokensCarryOver /\ ReportsTrue /\ NoJobsMissed
  /\ OneIdentity /\ FilesWhole

-----------------------------------------------------------------------------
\* The parts share no state and move one at a time.
programVars == <<setupVars, commandVars>>

ProgramsInit == SetupInit /\ CommandInit

ProgramsTypeOK == SetupTypeOK /\ CommandTypeOK

ProgramsNext ==
    \/ SetupNext /\ UNCHANGED commandVars
    \/ CommandNext /\ UNCHANGED setupVars

ProgramsSpec == ProgramsInit /\ [][ProgramsNext]_programVars
=============================================================================
