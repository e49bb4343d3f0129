----------------------------- MODULE StatusPages ----------------------------
(***************************************************************************)
(* The figures of the dashboard: the loop of `peerclaw serve`              *)
(* (cli/serve.rs) copies what the job manager knows, figure by figure,     *)
(* each under a lock of its own, and the handlers of the web server        *)
(* (web/mod.rs) read them one by one.                                      *)
(***************************************************************************)
EXTENDS Integers, Sequences, FiniteSets, SequencesExt

CONSTANTS
    Job,            \* jobs of this node
    Page,           \* requests of the dashboard
    MaxCopies,      \* bound on the copies followed
    CompletedShown  \* the completed jobs kept, and asked for (100 both)

VARIABLES
    requests, active, completed,  \* the job manager
    finished,       \* history: the jobs that completed, all of them
    dropped,        \* history: those lost with a settlement that failed
    at,             \* what the loop writes next
    pending,        \* the jobs it read: waiting, active, completed
    active_jobs, completed_jobs, job_list,  \* WebState
    page,           \* where each request is
    shown,          \* what it has read
    copies,         \* history: what each copy read
    overlapped      \* history: the requests a copy ran into

vars == <<requests, active, completed, finished, dropped, at, pending, active_jobs, completed_jobs, job_list,
          page, shown, copies, overlapped>>

jobVars == <<requests, active, completed, finished, dropped>>
stateVars == <<at, pending, active_jobs, completed_jobs, job_list, copies>>
pageVars == <<page, shown>>

Nothing == [active_jobs |-> 0, completed_jobs |-> 0, job_list |-> <<>>]

TypeOK ==
    /\ requests \subseteq Job /\ active \subseteq Job
    /\ Range(completed) \subseteq Job /\ Range(finished) \cup dropped \subseteq Job
    /\ at \in {"idle", "active_jobs", "completed_jobs", "job_list"}
    /\ {active_jobs, completed_jobs} \subseteq 0..Cardinality(Job)
    /\ Range(job_list) \subseteq Job
    /\ page \in [Page -> {"new", "completed_jobs", "job_list", "done"}]
    /\ DOMAIN shown = Page
    /\ Len(copies) <= MaxCopies
    /\ overlapped \subseteq Page

Init ==
    /\ requests = {} /\ active = {} /\ completed = <<>> /\ finished = <<>> /\ dropped = {}
    /\ at = "idle" /\ pending = Nothing
    /\ active_jobs = 0 /\ completed_jobs = 0 /\ job_list = <<>>
    /\ page = [p \in Page |-> "new"] /\ shown = [p \in Page |-> Nothing]
    /\ copies = <<Nothing>> /\ overlapped = {}

-----------------------------------------------------------------------------
(* The event loop.  It is the only task that changes the jobs. *)

\* Mutant: the oldest jobs are taken.
Oldest(s, n) == SubSeq(s, 1, IF Len(s) < n THEN Len(s) ELSE n)

\* The last ones: what settle_job keeps and completed_jobs returns.
Recent(s, n) == SubSeq(s, 1 + (IF Len(s) < n THEN 0 ELSE Len(s) - n), Len(s))

\* create_request, accept_bid and settle_job, in other parts of the turn.
JobsMove ==
    /\ at = "idle"
    /\ \E j \in Job :
        \/ /\ j \notin requests \cup active \cup Range(finished) \cup dropped
           /\ requests' = requests \cup {j}
           /\ UNCHANGED <<active, completed, finished, dropped>>
        \/ /\ j \in requests
           /\ requests' = requests \ {j} /\ active' = active \cup {j}
           /\ UNCHANGED <<completed, finished, dropped>>
        \/ /\ j \in active
           /\ active' = active \ {j} /\ finished' = Append(finished, j)
           /\ completed' = Recent(Append(completed, j), CompletedShown)
           /\ UNCHANGED <<requests, dropped>>
        \/ /\ j \in active  \* the wallet refused: the job is in no map any more
           /\ active' = active \ {j} /\ dropped' = dropped \cup {j}
           /\ UNCHANGED <<requests, completed, finished>>
    /\ UNCHANGED <<stateVars, pageVars, overlapped>>

\* Mutant: the jobs that wait for bids are left out of the count.
PendingNotCounted(recent) ==
    [active_jobs |-> Cardinality(active),
     completed_jobs |-> Len(recent),
     job_list |-> SetToSeq(requests) \o SetToSeq(active) \o recent]

\* What the copy will show, the jobs in the order of the list.
Figures(recent) ==
    [active_jobs |-> Cardinality(requests) + Cardinality(active),
     completed_jobs |-> Len(recent),
     job_list |-> SetToSeq(requests) \o SetToSeq(active) \o recent]

\* stats_interval: the jobs are read, the guard of the job manager held.
Tick ==
    /\ at = "idle" /\ Len(copies) < MaxCopies
    /\ pending' = Figures(Recent(completed, CompletedShown))
    /\ copies' = Append(copies, pending')
    /\ at' = "active_jobs"
    /\ overlapped' = overlapped \cup {p \in Page : page[p] \notin {"new", "done"}}
    /\ UNCHANGED <<jobVars, active_jobs, completed_jobs, job_list, pageVars>>

CountActive ==
    /\ at = "active_jobs" /\ at' = "completed_jobs"
    /\ active_jobs' = pending.active_jobs
    /\ UNCHANGED <<jobVars, pending, completed_jobs, job_list, copies, pageVars, overlapped>>

CountCompleted ==
    /\ at = "completed_jobs" /\ at' = "job_list"
    /\ completed_jobs' = pending.completed_jobs
    /\ UNCHANGED <<jobVars, pending, active_jobs, job_list, copies, pageVars, overlapped>>

List ==
    /\ at = "job_list" /\ at' = "idle"
    /\ job_list' = pending.job_list
    /\ UNCHANGED <<jobVars, pending, active_jobs, completed_jobs, copies, pageVars, overlapped>>

-----------------------------------------------------------------------------
(* The web server. *)

\* api_status, and handle_socket each second, read the count of active jobs.
ReadActive(p) ==
    /\ page[p] = "new"
    /\ shown' = [shown EXCEPT ![p].active_jobs = active_jobs]
    /\ page' = [page EXCEPT ![p] = "completed_jobs"]
    /\ overlapped' = overlapped \cup {q \in {p} : at # "idle"}
    /\ UNCHANGED <<jobVars, stateVars>>

ReadCompleted(p) ==
    /\ page[p] = "completed_jobs"
    /\ shown' = [shown EXCEPT ![p].completed_jobs = completed_jobs]
    /\ page' = [page EXCEPT ![p] = "job_list"]
    /\ UNCHANGED <<jobVars, stateVars, overlapped>>

\* api_jobs, which the page asks for next.
ReadList(p) ==
    /\ page[p] = "job_list"
    /\ shown' = [shown EXCEPT ![p].job_list = job_list]
    /\ page' = [page EXCEPT ![p] = "done"]
    /\ UNCHANGED <<jobVars, stateVars, overlapped>>

Next ==
    \/ JobsMove \/ Tick \/ CountActive \/ CountCompleted \/ List
    \/ \E p \in Page : ReadActive(p) \/ ReadCompleted(p) \/ ReadList(p)

Spec == Init /\ [][Next]_vars

-----------------------------------------------------------------------------
\* Properties.

\* A page no copy ran into shows one copy: the jobs counted are those listed,
\* each once, and of the completed ones the latest.
PageOfOneCopy ==
    \A p \in Page : page[p] = "done" /\ p \notin overlapped =>
        /\ shown[p].active_jobs + shown[p].completed_jobs = Len(shown[p].job_list)
        /\ Len(shown[p].job_list) = Cardinality(Range(shown[p].job_list))
        /\ \E i \in 1..Len(copies) : shown[p] = copies[i]

\* A job that was shown as known stays on the list, until as many as are shown
\* have completed after it, or the wallet refused to settle it.
ListedStays ==
    \A j \in Range(job_list) \ Range(pending.job_list) :
        \/ j \in dropped
        \/ /\ j \in Range(finished)
           /\ Len(finished) - (CHOOSE i \in 1..Len(finished) : finished[i] = j) >= CompletedShown
=============================================================================
