----------------------------- MODULE AgentTools -----------------------------
(* Where an agent finds its tools: those offered on the network            *)
(* (tools/registry.rs) and those in WASM (wasm/).                          *)
EXTENDS Integers, Sequences, FiniteSets, Naturals

CONSTANTS
  Name, Peer,
  Terms,      \* of an offer: [price |-> ..., reliability |-> ...]
  max_age, MaxTime,
  Call,        \* tasks in execute_local
  Tool, Registrar, WasmCall,   \* tools by their bytes, processes that register, calls
  NoTool,
  fuel_limit               \* SandboxConfig

VARIABLES
  network_tools, \* by name: the offers, the preferred one first
  named,         \* the names with an entry in the table
  now,
  swept,         \* when cleanup_stale_tools last ran, or -1
  said,          \* by name and peer: the last offer announced and when
  call,          \* of each task in execute_local: its step
  stats,          \* the counts of calls
  file,      \* under each path: the tool whose bytes are there
  part,      \* paths that are truncated and not yet written
  torn,      \* paths that a process which died left so
  registering, \* of each registrar: the tool it writes
  known,     \* tools that were registered
  compiled,  \* of each tool: the tool whose bytes the cached module was made of
  wasmAt, tool, module, \* of each call: step, hash, the module in hand
  fuel, steps,      \* fuel left in its store, steps its guest made
  output_json,      \* the step that set its last output, 0 for none
  value, fuel_consumed, \* ExecutionResult
  met        \* calls that found a file while it was not whole

-----------------------------------------------------------------------------
(* The registry of tools (tools/registry.rs): what other peers offer, by the  *)
(* name of the tool, kept in the order of preference, swept of old offers;    *)
(* and the counts of the calls of tools on this node.                         *)

registryVars == <<network_tools, named, now, swept, said, call, stats>>
Offer == [peer : Peer, terms : Terms, last_seen : 0..MaxTime]
Nothing == {}

RegistryTypeOK ==
  /\ \A n \in Name : network_tools[n] \in Seq(Offer) /\ Len(network_tools[n]) <= Cardinality(Peer)
  /\ named \subseteq Name
  /\ now \in 0..MaxTime /\ swept \in -1..MaxTime
  /\ \A n \in Name, p \in Peer :
       said[n][p] \subseteq [offer : Offer, at : 0..MaxTime] /\ Cardinality(said[n][p]) <= 1
  /\ call \in [Call -> {"idle", "running", "successful", "failed", "error"}]
  /\ stats \in [{"total", "successful", "failed"} -> 0..Cardinality(Call)]

RegistryInit ==
  /\ network_tools = [n \in Name |-> <<>>] /\ named = {}
  /\ now = 0 /\ swept = -1
  /\ said = [n \in Name |-> [p \in Peer |-> Nothing]]
  /\ call = [c \in Call |-> "idle"]
  /\ stats = [k \in {"total", "successful", "failed"} |-> 0]

\* The lower price per unit of reliability; quotients are compared by products.
Cheaper(a, b) ==
  a.terms.price * (b.terms.reliability + 1) < b.terms.price * (a.terms.reliability + 1)

\* sort_by, which keeps the order of equal elements.
SortedOffers(s) ==
  LET Before(j, k) == Cheaper(s[j], s[k]) \/ (~Cheaper(s[k], s[j]) /\ j < k)
      Place(k) == 1 + Cardinality({j \in DOMAIN s : Before(j, k)})
  IN [i \in DOMAIN s |-> s[CHOOSE k \in DOMAIN s : Place(k) = i]]

\* Mutant: every announcement is a new entry.
AlwaysPushed(s, o) == Append(s, o)

\* The entry of the peer is replaced in its place, a new one comes last.
Updated(s, o) ==
  IF \E i \in DOMAIN s : s[i].peer = o.peer
    THEN [s EXCEPT ![CHOOSE i \in DOMAIN s : s[i].peer = o.peer] = o]
    ELSE Append(s, o)

\* An announcement may be late: last_seen is in it.
RegisterNetworkTool ==
  \E n \in Name, o \in Offer :
    /\ o.last_seen <= now
    /\ network_tools' = [network_tools EXCEPT ![n] = SortedOffers(Updated(@, o))]
    /\ named' = named \cup {n}
    /\ said' = [said EXCEPT ![n][o.peer] = {[offer |-> o, at |-> now]}]
    /\ UNCHANGED <<now, swept, call, stats>>

\* Mutant: names without offers keep their entry.
SweptNames == named

NamesLeft == {n \in named : network_tools'[n] # <<>>}

CleanupStaleTools ==
  /\ network_tools' =
       [n \in Name |-> SelectSeq(network_tools[n], LAMBDA o : now - o.last_seen < max_age)]
  /\ named' = NamesLeft
  /\ swept' = now
  /\ UNCHANGED <<now, said, call, stats>>

Tick == now < MaxTime /\ now' = now + 1
        /\ UNCHANGED <<network_tools, named, swept, said, call, stats>>

RegistryStart(c) ==
  /\ call[c] = "idle" /\ call' = [call EXCEPT ![c] = "running"]
  /\ UNCHANGED <<network_tools, named, now, swept, said, stats>>


\* A call that ends in an error leaves before the counts.
Counted(outcome) ==
  IF outcome = "error" THEN stats
  ELSE [stats EXCEPT !["total"] = @ + 1, ![outcome] = @ + 1]

ExecuteLocal(c) ==
  /\ call[c] = "running"
  /\ \E outcome \in {"successful", "failed", "error"} :
       /\ call' = [call EXCEPT ![c] = outcome] /\ stats' = Counted(outcome)
  /\ UNCHANGED <<network_tools, named, now, swept, said>>

RegistryNext ==
  \/ RegisterNetworkTool \/ CleanupStaleTools \/ Tick
  \/ \E c \in Call : RegistryStart(c) \/ ExecuteLocal(c)

\* A peer has one entry under a name, with the offer it announced last, and no
\* other entry is better than the first, which best_provider gives.
BestOfferFirst ==
  \A n \in Name : LET offers == network_tools[n] IN
    \A i \in DOMAIN offers :
      /\ \E s \in said[n][offers[i].peer] : s.offer = offers[i]
      /\ \A j \in DOMAIN offers : offers[j].peer = offers[i].peer => i = j
      /\ ~Cheaper(offers[i], offers[1])

\* Offers younger than max_age are on the list, those that were older when the
\* list was last swept are not, and a name counted has an offer to be listed.
ListIsFresh ==
  /\ \A n \in Name, p \in Peer : \A s \in said[n][p] :
       LET listed == \E i \in DOMAIN network_tools[n] : network_tools[n][i].peer = p IN
         /\ now - s.offer.last_seen < max_age => listed
         /\ s.at < swept /\ swept - s.offer.last_seen >= max_age => ~listed
  /\ named = {n \in Name : network_tools[n] # <<>>}

\* The counts of a tool add up to the calls that gave an output.
StatsAddUp ==
  /\ stats["total"] = stats["successful"] + stats["failed"]
  /\ stats["total"] = Cardinality({c \in Call : call[c] \in {"successful", "failed"}})

-----------------------------------------------------------------------------
(* WASM tools in the directory that processes share (wasm/mod.rs): a tool is  *)
(* written under its hash, compiled by the calls that find no compiled module *)
(* in the cache of their process, and run in a sandbox of its own             *)
(* (wasm/sandbox.rs) with fuel and the functions of the host (wasm/host.rs).  *)

wasmVars == <<file, part, torn, registering, known, compiled, wasmAt, tool, module,
          fuel, steps, output_json, value, fuel_consumed, met>>
disk == <<file, part, torn, registering, known>>
store == <<fuel, steps, output_json>>
result == <<value, fuel_consumed>>

Failed == {"not found", "not compiled", "fuel exhausted", "failed"}

WasmTypeOK ==
  /\ file \in [Tool -> Tool \cup {NoTool}] /\ part \subseteq Tool /\ torn \subseteq Tool
  /\ registering \in [Registrar -> Tool \cup {NoTool}] /\ known \subseteq Tool
  /\ compiled \in [Tool -> Tool \cup {NoTool}]
  /\ wasmAt \in [WasmCall -> {"idle", "compile", "start", "running", "ok"} \cup Failed]
  /\ {tool, module} \subseteq [WasmCall -> Tool \cup {NoTool}]
  /\ {fuel, steps, fuel_consumed, output_json, value} \subseteq [WasmCall -> 0..fuel_limit]
  /\ met \subseteq WasmCall

WasmInit ==
  /\ file = [t \in Tool |-> NoTool] /\ part = {} /\ torn = {}
  /\ registering = [r \in Registrar |-> NoTool] /\ known = {}
  /\ compiled = [t \in Tool |-> NoTool]
  /\ wasmAt = [c \in WasmCall |-> "idle"] /\ tool = [c \in WasmCall |-> NoTool]
  /\ module = tool /\ met = {}
  /\ fuel = [c \in WasmCall |-> 0] /\ steps = fuel /\ fuel_consumed = fuel
  /\ output_json = fuel /\ value = fuel

\* Mutant: a path by something that two tools share.
tool_path_shared(t) == CHOOSE u \in Tool : TRUE
\* The first 16 digits of the hash, which no two tools share.
tool_path(t) == t

\* register: fs::write truncates the file of the path, then fills it.
RegisterTruncates(r, t) ==
  /\ registering[r] = NoTool
  /\ registering' = [registering EXCEPT ![r] = t]
  /\ file' = [file EXCEPT ![tool_path(t)] = t]
  /\ part' = part \cup {tool_path(t)}
  /\ UNCHANGED <<torn, known, compiled, wasmAt, tool, module, store, result, met>>

RegisterWrites(r) ==
  /\ registering[r] # NoTool
  /\ LET t == registering[r] IN
       /\ file' = [file EXCEPT ![tool_path(t)] = t]
       /\ part' = part \ {tool_path(t)} /\ torn' = torn \ {tool_path(t)}
       /\ known' = known \cup {t}
  /\ registering' = [registering EXCEPT ![r] = NoTool]
  /\ UNCHANGED <<compiled, wasmAt, tool, module, store, result, met>>

RegistrarDies(r) ==
  /\ registering[r] # NoTool
  /\ torn' = torn \cup ({tool_path(registering[r])} \cap part)
  /\ registering' = [registering EXCEPT ![r] = NoTool]
  /\ UNCHANGED <<file, part, known, compiled, wasmAt, tool, module, store, result, met>>

Goes(c, step) == wasmAt' = [wasmAt EXCEPT ![c] = step]

\* get_compiled under the read lock.
Begin(c, t) ==
  /\ wasmAt[c] = "idle"
  /\ tool' = [tool EXCEPT ![c] = t]
  /\ IF compiled[t] # NoTool
     THEN Goes(c, "start") /\ module' = [module EXCEPT ![c] = compiled[t]]
     ELSE Goes(c, "compile") /\ UNCHANGED module
  /\ UNCHANGED <<disk, compiled, store, result, met>>

\* A file that is not whole does not compile.
Compile(c) ==
  /\ wasmAt[c] = "compile"
  /\ LET path == tool_path(tool[c]) IN
       \/ /\ file[path] = NoTool /\ Goes(c, "not found")
          /\ UNCHANGED <<compiled, module, met>>
       \/ /\ file[path] # NoTool /\ path \in part
          /\ Goes(c, "not compiled") /\ met' = met \cup {c}
          /\ UNCHANGED <<compiled, module>>
       \/ /\ file[path] # NoTool /\ path \notin part
          /\ compiled' = [compiled EXCEPT ![tool[c]] = file[path]]
          /\ module' = [module EXCEPT ![c] = file[path]]
          /\ Goes(c, "start") /\ UNCHANGED met
  /\ UNCHANGED <<disk, tool, store, result>>

\* Mutant: the store is not new, and has the fuel other calls have left.
FuelLeft(c) == IF \E d \in WasmCall : steps[d] > 0 THEN fuel_limit - 1 ELSE fuel_limit
FuelSet(c) == fuel_limit

\* The registered tools require nothing, so that no caller is denied.
WasmStart(c) ==
  /\ wasmAt[c] = "start" /\ Goes(c, "running")
  /\ fuel' = [fuel EXCEPT ![c] = FuelSet(c)]
  /\ UNCHANGED <<disk, compiled, tool, module, steps, output_json, result, met>>

\* What the guest does costs it fuel, whatever the host makes of it.
Burns(c) ==
  /\ wasmAt[c] = "running" /\ fuel[c] > 0
  /\ fuel' = [fuel EXCEPT ![c] = @ - 1] /\ steps' = [steps EXCEPT ![c] = @ + 1]
  /\ UNCHANGED <<disk, compiled, wasmAt, tool, module, result, met>>

\* host_set_output keeps the last output that lies in the guest's memory.
SetOutput(c) ==
  /\ Burns(c)
  /\ \/ output_json' = [output_json EXCEPT ![c] = steps'[c]]
     \/ UNCHANGED output_json

\* host_get_input, host_log, host_time_now, host_random, the guest's own work.
Compute(c) == Burns(c) /\ UNCHANGED output_json

\* Without an output the value is the code the guest returned.
Return(c) ==
  /\ wasmAt[c] = "running" /\ Goes(c, "ok")
  /\ value' = [value EXCEPT ![c] = output_json[c]]
  /\ fuel_consumed' = [fuel_consumed EXCEPT ![c] = fuel_limit - fuel[c]]
  /\ UNCHANGED <<disk, compiled, tool, module, store, met>>

\* The guest traps, is out of fuel, or has no such function.
Trap(c) ==
  /\ wasmAt[c] = "running"
  /\ \/ Goes(c, "failed")
     \/ fuel[c] = 0 /\ Goes(c, "fuel exhausted")
  /\ UNCHANGED <<disk, compiled, tool, module, store, result, met>>

WasmNext ==
  \/ \E r \in Registrar : RegisterWrites(r) \/ RegistrarDies(r)
  \/ \E r \in Registrar, t \in Tool : RegisterTruncates(r, t)
  \/ \E c \in WasmCall, t \in Tool : Begin(c, t)
  \/ \E c \in WasmCall : \/ Compile(c) \/ WasmStart(c) \/ Compute(c)
                     \/ SetOutput(c) \/ Return(c) \/ Trap(c)

-----------------------------------------------------------------------------
\* A call runs the tool it named, whoever registers, compiles or caches another
\* one meanwhile, and a tool that was registered fails to compile only for those
\* who met its file between truncation and write (wasm/mod.rs:105).
NamedToolRuns ==
  /\ \A c \in WasmCall : wasmAt[c] \in {"start", "running", "ok"} => module[c] = tool[c]
  /\ \A c \in WasmCall : wasmAt[c] = "not compiled" => c \in met
  /\ part \subseteq torn \cup {tool_path(registering[r]) : r \in {q \in Registrar : registering[q] # NoTool}}

\* The fuel reported is what the guest used of a limit of its own, and the
\* value what it set last (wasm/sandbox.rs:236).
ResultOfOwnRun ==
  \A c \in WasmCall :
    /\ wasmAt[c] = "ok" => fuel_consumed[c] = steps[c] /\ value[c] = output_json[c]
    /\ wasmAt[c] = "fuel exhausted" => steps[c] = fuel_limit

-----------------------------------------------------------------------------
\* The parts share no state and move one at a time.
vars == <<registryVars, wasmVars>>

Init == RegistryInit /\ WasmInit

TypeOK == RegistryTypeOK /\ WasmTypeOK

Next ==
    \/ RegistryNext /\ UNCHANGED wasmVars
    \/ WasmNext /\ UNCHANGED registryVars

Spec == Init /\ [][Next]_vars
=============================================================================
