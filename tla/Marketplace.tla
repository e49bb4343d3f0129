---------------------------- MODULE Marketplace ----------------------------
(***************************************************************************)
(* The job market between nodes: requests, bids, acceptance, execution and *)
(* settlement over gossip (job/, runtime.rs, cli/serve.rs,                 *)
(* executor/remote.rs), each node with its wallet (WalletState).           *)
(*                                                                         *)
(* A node runs one event loop (cli/serve.rs run): a handler finishes       *)
(* before the next one starts, so each handler is one action.  What it     *)
(* publishes reaches the peers of some set R: all other peers when gossip  *)
(* is reliable, any of them when it is not, none when publish fails (the   *)
(* code only logs that).  Messages are received in any order.              *)
(*                                                                         *)
(* JobManager and JobProvider keep everything in memory; only the wallet   *)
(* is saved.  A crash loses the rest.                                      *)
(***************************************************************************)
EXTENDS WalletState, Sequences

CONSTANTS
    Peer, Job,
    PriceOf,            \* what a peer's PricingStrategy asks for a job
    Budget,             \* the max_budget values a request may carry
    InitialCredit,      \* Runtime::new credits 1000 PCLAW
    TheHour,            \* the hour key of the run, which takes minutes
    CollectTime,        \* BID_COLLECTION_TIMEOUT: 5 seconds in the code
    BidValidity,        \* evaluate_request: 60 seconds in the code
    JobTimeout,         \* timeout_secs of a request: 300 in the code
    CompletedLimit,     \* completed jobs kept: 100 in the code
    MaxTime,            \* bound: the clock
    MaxCrashes,         \* bound: crashes of all nodes together
    Reliable,           \* TRUE: gossip reaches every other peer
    StoreFails          \* TRUE: store_setting may return an error

ASSUME MarketAssumption ==
    /\ PriceOf \in [Peer -> Nat] /\ Budget \subseteq Nat /\ InitialCredit \in Nat
    /\ TheHour \in Hour
    /\ CollectTime \in Nat \ {0} /\ BidValidity \in Nat /\ JobTimeout \in Nat
    /\ CompletedLimit \in Nat /\ MaxTime \in Nat /\ MaxTime >= CollectTime /\ MaxCrashes \in Nat
    /\ {Reliable, StoreFails} \subseteq BOOLEAN
    /\ "nobody" \notin Peer

VARIABLES
    requests,     \* JobManager.requests: [Peer -> SUBSET Job]
    bids,         \* JobManager.bids: [Peer -> [Job -> SUBSET Bid]]
    active,       \* JobManager.active_jobs: [Peer -> SUBSET ActiveJob]
    completed,    \* JobManager.completed_jobs: [Peer -> Seq(Job)]
    tracked,      \* job_creation_times: [Peer -> [Job -> Time or Untracked]]
    pending,      \* JobProvider.pending_requests: [Peer -> SUBSET Job]
    wallet,       \* Wallet.state: [Peer -> WalletRecord]
    saved,        \* the stored wallet_state: [Peer -> WalletRecord]
    net,          \* gossip on its way: SUBSET Envelope
    request,      \* what a submitted JobRequest says: [Job -> Request]
    deed,         \* the unchanging fields of an Escrow: [EscrowId -> Deed]
    runs,         \* history: the executions of a job: [Job -> Seq(Run)]
    now, crashes

managerVars == <<requests, bids, active, completed, tracked>>
walletVars == <<wallet, saved, deed>>
vars == <<managerVars, walletVars, pending, net, request, runs, now, crashes>>

Untracked == -1
Time == 0..MaxTime

\* Bound: the last CollectTime units of the clock are for requests submitted and
\* tracked before, so that a run never ends inside a collection time.
LastStart == MaxTime - CollectTime

Bid == [job : Job, bidder : Peer, price : Nat, expires_at : Nat]

ActiveJob == [id : Job, bid : Bid, escrow_id : EscrowId]

Unsubmitted == [requester |-> "nobody", max_budget |-> 0]
Request == {Unsubmitted} \cup [requester : Peer, max_budget : Nat]

Unused == [job_id |-> "none", recipient |-> "nobody", expires_at |-> 0]
Deed == {Unused} \cup [job_id : Job, recipient : Peer, expires_at : Nat]

\* StatusUpdate is only logged by its receivers and is left out.
Message ==
    [type : {"Request"}, job : Job] \cup [type : {"Bid"}, bid : Bid]
        \cup [type : {"BidAccepted"}, job : Job, winner : Peer]
        \cup [type : {"Result"}, job : Job]

Envelope == [to : Peer, msg : Message]

\* ok is FALSE when the result data is only an error text: the Result message
\* does not say so.
Run == [peer : Peer, ok : BOOLEAN]

TypeOK ==
    /\ requests \in [Peer -> SUBSET Job]
    /\ bids \in [Peer -> [Job -> SUBSET Bid]]
    /\ active \in [Peer -> SUBSET ActiveJob]
    /\ completed \in [Peer -> Seq(Job)]
    /\ tracked \in [Peer -> [Job -> Time \cup {Untracked}]]
    /\ pending \in [Peer -> SUBSET Job]
    /\ wallet \in [Peer -> WalletRecord] /\ saved \in [Peer -> WalletRecord]
    /\ net \subseteq Envelope
    /\ request \in [Job -> Request] /\ deed \in [EscrowId -> Deed]
    /\ runs \in [Job -> Seq(Run)]
    /\ now \in Time /\ crashes \in 0..MaxCrashes

\* Runtime::new credits the wallet it has just loaded.
StartingWallet(w) == AfterCredit(w, InitialCredit)

Init ==
    /\ requests = [p \in Peer |-> {}]
    /\ bids = [p \in Peer |-> [j \in Job |-> {}]]
    /\ active = [p \in Peer |-> {}]
    /\ completed = [p \in Peer |-> <<>>]
    /\ tracked = [p \in Peer |-> [j \in Job |-> Untracked]]
    /\ pending = [p \in Peer |-> {}]
    /\ wallet = [p \in Peer |-> StartingWallet(DefaultWallet)]
    /\ saved = wallet
    /\ net = {}
    /\ request = [j \in Job |-> Unsubmitted]
    /\ deed = [e \in EscrowId |-> Unused]
    /\ runs = [j \in Job |-> <<>>]
    /\ now = 0 /\ crashes = 0

-----------------------------------------------------------------------------
\* Who gets what p publishes; gossipsub does not deliver it to p itself.
Audience(p) ==
    IF Reliable THEN {Peer \ {p}} ELSE SUBSET (Peer \ {p})

Copies(msg, audience) == {[to |-> q, msg |-> msg] : q \in audience}

\* p's handler consumes m, and publishes nothing.
Consume(p, m) == net' = net \ {[to |-> p, msg |-> m]}

\* p's handler consumes m and publishes reply.
ConsumeAndPublish(p, m, reply) ==
    \E audience \in Audience(p) :
        net' = (net \ {[to |-> p, msg |-> m]}) \cup Copies(reply, audience)

\* A wallet operation and its save_state, inside one handler: ok tells whether
\* the caller gets Ok or the store's error.  Memory changes either way.
WalletOp(p, w, ok) ==
    /\ StoreFails \/ ok
    /\ wallet' = [wallet EXCEPT ![p] = w]
    /\ saved' = IF ok THEN [saved EXCEPT ![p] = w] ELSE saved

\* handle_job_submit: create_request, then the broadcast whose failure is ignored.
Submit(p, j, budget) ==
    /\ now <= LastStart
    /\ request[j] = Unsubmitted
    /\ request' = [request EXCEPT ![j] = [requester |-> p, max_budget |-> budget]]
    /\ requests' = [requests EXCEPT ![p] = @ \cup {j}]
    /\ bids' = [bids EXCEPT ![p][j] = {}]
    /\ \E audience \in Audience(p) :
           net' = net \cup Copies([type |-> "Request", job |-> j], audience)
    /\ UNCHANGED <<active, completed, tracked, walletVars, pending, runs, now, crashes>>

\* A mutation: evaluate_request does not look at the budget.
WorthBidding_Always(p, j) == TRUE

\* evaluate_request: bid when our price fits the budget.
WorthBidding(p, j) == PriceOf[p] <= request[j].max_budget

OfferOf(p, j) ==
    [job |-> j, bidder |-> p, price |-> PriceOf[p], expires_at |-> now + BidValidity]

\* JobProvider::handle_request, when the price fits.
HandleRequest(p, m) ==
    /\ m.type = "Request"
    /\ WorthBidding(p, m.job)
    /\ pending' = [pending EXCEPT ![p] = @ \cup {m.job}]
    /\ ConsumeAndPublish(p, m, [type |-> "Bid", bid |-> OfferOf(p, m.job)])
    /\ UNCHANGED <<managerVars, walletVars, request, runs, now, crashes>>

\* receive_bid: any bid for a request that is still open, however late.
HandleBid(p, m) ==
    /\ m.type = "Bid"
    /\ m.bid.job \in requests[p]
    /\ bids' = [bids EXCEPT ![p][m.bid.job] = @ \cup {m.bid}]
    /\ Consume(p, m)
    /\ UNCHANGED <<requests, active, completed, tracked, walletVars, pending, request, runs, now, crashes>>

\* A mutation: the winner is not compared with the local peer.
WeWon_Anyone(p, m) == m.job \in pending[p]

\* A mutation: handle_bid_accepted, which forgets the request, is called before
\* the request is looked up.
WeWon_AfterForgetting(p, m) == m.winner = p /\ m.job \notin pending[p]

\* The bid is ours and the request is still known here.
WeWon(p, m) == m.winner = p /\ m.job \in pending[p]

\* BidAccepted: execute_provider_job runs the task whatever it comes to,
\* publishes the result and forgets the request.
HandleBidAccepted(p, m) ==
    /\ m.type = "BidAccepted"
    /\ WeWon(p, m)
    /\ \E ok \in BOOLEAN : runs' = [runs EXCEPT ![m.job] = Append(@, [peer |-> p, ok |-> ok])]
    /\ ConsumeAndPublish(p, m, [type |-> "Result", job |-> m.job])
    /\ pending' = [pending EXCEPT ![p] = @ \ {m.job}]
    /\ UNCHANGED <<managerVars, walletVars, request, now, crashes>>

\* The trim to the newest CompletedLimit jobs.
Newest(jobs) ==
    IF Len(jobs) > CompletedLimit
    THEN SubSeq(jobs, Len(jobs) - CompletedLimit + 1, Len(jobs)) ELSE jobs

\* A mutation: the job is moved to the history before the payment, and stays
\* active when the payment is made.
Settled_StaysActive(p, job) == active

\* settle_job takes the job out of active_jobs before it touches the wallet.
Settled(p, job) == [active EXCEPT ![p] = @ \ {job}]

\* A mutation: the result settles whatever job is active.
ResultFor_Any(job, m) == TRUE

ResultFor(job, m) == job.id = m.job

\* Result: submit_result and settle_job(true) under one lock.  An error of the
\* wallet leaves the job out of every list.
HandleResult(p, m) ==
    /\ m.type = "Result"
    /\ \E job \in active[p] :
        /\ ResultFor(job, m)
        /\ active' = Settled(p, job)
        /\ IF CanResolve(wallet[p], job.escrow_id)
           THEN \E ok \in BOOLEAN :
                  /\ WalletOp(p, AfterRelease(wallet[p], job.escrow_id), ok)
                  /\ completed' = IF ok THEN [completed EXCEPT ![p] = Newest(Append(@, job.id))]
                                  ELSE completed
           ELSE UNCHANGED <<wallet, saved, completed>>
    /\ Consume(p, m)
    /\ UNCHANGED <<requests, bids, tracked, deed, pending, request, runs, now, crashes>>

\* Everything a handler drops: a request that is too cheap, a bid for no open
\* request, an acceptance of somebody else's bid or of a forgotten request, a
\* result for no active job.
Ignore(p, m) ==
    /\ CASE m.type = "Request"     -> ~WorthBidding(p, m.job)
         [] m.type = "Bid"         -> m.bid.job \notin requests[p]
         [] m.type = "BidAccepted" -> ~WeWon(p, m)
         [] m.type = "Result"      -> \A job \in active[p] : ~ResultFor(job, m)
    /\ Consume(p, m)
    /\ UNCHANGED <<managerVars, walletVars, pending, request, runs, now, crashes>>

Deliver(p) ==
    \E m \in {c.msg : c \in {c \in net : c.to = p}} :
        \/ HandleRequest(p, m) \/ HandleBid(p, m) \/ HandleBidAccepted(p, m)
        \/ HandleResult(p, m) \/ Ignore(p, m)

-----------------------------------------------------------------------------
(* auto_accept_bids, called by the event loop every 3 seconds. *)

AllTracked(p) == \A j \in requests[p] : tracked[p][j] # Untracked

\* Its first half: a request not seen by an earlier call starts its collection
\* time now.
TrackNew(p) ==
    /\ ~AllTracked(p)
    /\ tracked' = [tracked EXCEPT ![p] =
                     [j \in Job |-> IF j \in requests[p] /\ @[j] = Untracked THEN now ELSE @[j]]]
    /\ UNCHANGED <<requests, bids, active, completed, walletVars, pending, net, request, runs,
                   now, crashes>>

ValidBids(p, j) == {b \in bids[p][j] : now <= b.expires_at}

\* select_best_bid: latency and reputation are the same for every default
\* PricingStrategy, so the score orders bids by price; max_by breaks ties by
\* arrival, which is not modelled.
BestBids(p, j) == {b \in ValidBids(p, j) : \A c \in ValidBids(p, j) : b.price <= c.price}

Collected(p, j) ==
    j \in requests[p] /\ tracked[p][j] # Untracked /\ now - tracked[p][j] >= CollectTime

\* A mutation: the request stays open after the bid was accepted.
Closed_Reopens(p, j) == requests

\* accept_bid takes the request and its bids away.
Closed(p, j) == [requests EXCEPT ![p] = @ \ {j}]

\* Its second half, for one request: accept_bid, then the broadcast.  When the
\* escrow cannot be stored accept_bid returns the error: the request stays open,
\* the wallet in memory keeps the escrow, and the next call tries again.
AcceptBid(p, j) ==
    /\ Collected(p, j)
    /\ \E b \in BestBids(p, j), e \in EscrowId, ok \in BOOLEAN :
        /\ WithinLimits(wallet[p], TheHour, b.price)
        /\ b.price <= EffectiveAvailable(wallet[p])
        /\ deed[e] = Unused      \* a fresh uuid
        /\ deed' = [deed EXCEPT ![e] = [job_id |-> j, recipient |-> b.bidder,
                                        expires_at |-> now + JobTimeout]]
        /\ WalletOp(p, AfterCreateEscrow(wallet[p], e, b.price), ok)
        /\ IF ok
           THEN /\ requests' = Closed(p, j)
                /\ bids' = [bids EXCEPT ![p][j] = {}]
                /\ active' = [active EXCEPT ![p] = @ \cup {[id |-> j, bid |-> b, escrow_id |-> e]}]
                /\ tracked' = [tracked EXCEPT ![p][j] = Untracked]
                /\ \E audience \in Audience(p) :
                      net' = net \cup Copies([type |-> "BidAccepted", job |-> j,
                                              winner |-> b.bidder], audience)
           ELSE UNCHANGED <<requests, bids, active, tracked, net>>
    /\ UNCHANGED <<completed, pending, request, runs, now, crashes>>

-----------------------------------------------------------------------------
\* The node dies and starts again: the stored wallet is loaded and credited,
\* the rest is gone, and so is the gossip it had not received.
CrashAndRestart(p) ==
    /\ crashes < MaxCrashes
    /\ crashes' = crashes + 1
    /\ requests' = [requests EXCEPT ![p] = {}]
    /\ bids' = [bids EXCEPT ![p] = [j \in Job |-> {}]]
    /\ active' = [active EXCEPT ![p] = {}]
    /\ completed' = [completed EXCEPT ![p] = <<>>]
    /\ tracked' = [tracked EXCEPT ![p] = [j \in Job |-> Untracked]]
    /\ pending' = [pending EXCEPT ![p] = {}]
    /\ wallet' = [wallet EXCEPT ![p] = StartingWallet(saved[p])]
    /\ saved' = [saved EXCEPT ![p] = StartingWallet(saved[p])]
    /\ net' = {c \in net : c.to # p}
    /\ UNCHANGED <<request, deed, runs, now>>

Tick ==
    /\ now < MaxTime
    /\ now >= LastStart => \A p \in Peer : AllTracked(p)
    /\ now' = now + 1
    /\ UNCHANGED <<managerVars, walletVars, pending, net, request, runs, crashes>>

Next ==
    \/ \E p \in Peer :
        \/ \E j \in Job, b \in Budget : Submit(p, j, b)
        \/ Deliver(p)
        \/ TrackNew(p)
        \/ \E j \in Job : AcceptBid(p, j)
        \/ CrashAndRestart(p)
    \/ Tick

Spec == Init /\ [][Next]_vars

\* The event loop polls the swarm and its timers forever, and time passes.
Fairness ==
    /\ \A p \in Peer : WF_vars(Deliver(p)) /\ WF_vars(TrackNew(p))
    /\ \A p \in Peer, j \in Job : WF_vars(AcceptBid(p, j))
    /\ WF_vars(Tick)

FairSpec == Spec /\ Fairness

-----------------------------------------------------------------------------
(* Properties *)

Finished(p) == {completed[p][i] : i \in DOMAIN completed[p]}

ActiveIds(p) == {job.id : job \in active[p]}

\* JobManager moves a job between its maps in several separate writes: a job is
\* never in two of them, in the history twice, or active under two bids.
JobInOnePlace ==
    \A p \in Peer :
        /\ requests[p] \cap (ActiveIds(p) \cup Finished(p)) = {}
        /\ ActiveIds(p) \cap Finished(p) = {}
        /\ \A x, y \in active[p] : x.id = y.id => x = y
        /\ Cardinality(Finished(p)) = Len(completed[p])

\* Every active job is paid for: its escrow is held, for the winning price, in
\* memory and on disk, and no two jobs share one.
ActiveJobFunded ==
    \A p \in Peer : \A job \in active[p] :
        /\ \A w \in {wallet[p], saved[p]} :
              w.escrows[job.escrow_id] = [status |-> "Active", amount |-> job.bid.price]
        /\ deed[job.escrow_id].job_id = job.id
        /\ \A other \in active[p] : other.escrow_id = job.escrow_id => other = job

ReleasedEscrows(p) == {e \in EscrowId : wallet[p].escrows[e].status = "Released"}

\* Money leaves a requester once per job, and only after the worker named in the
\* escrow, chosen by accept_bid on another node, has executed it.
PaidOnceForWorkDone ==
    \A p \in Peer : \A e \in ReleasedEscrows(p) :
        /\ \E i \in DOMAIN runs[deed[e].job_id] :
               runs[deed[e].job_id][i].peer = deed[e].recipient
        /\ \A f \in ReleasedEscrows(p) : deed[f].job_id = deed[e].job_id => f = e

\* A job is in one place, an active one has its escrow, and only work that was
\* done is paid, once, also when nodes work for each other (job/mod.rs).
JobsApart == JobInOnePlace /\ ActiveJobFunded /\ PaidOnceForWorkDone

\* Over all providers that bid, a job is executed at most once, although every
\* node sees every acceptance and accept_bid may be retried.
ExecutedAtMostOnce == \A j \in Job : Len(runs[j]) <= 1

\* The requester never checks a bid against its own budget: that no escrow
\* exceeds it rests on every provider checking the request it was sent.
WithinBudget ==
    \A p \in Peer, e \in EscrowId :
        wallet[p].escrows[e].status # "None" =>
            wallet[p].escrows[e].amount <= request[deed[e].job_id].max_budget

\* "Escrows hold tokens temporarily while a job is being executed." (escrow.rs:3)
\* A held escrow belongs to an active job of its node.
HeldOnlyForActiveJob ==
    \A p \in Peer, e \in EscrowId :
        wallet[p].escrows[e].status = "Active" => \E job \in active[p] : job.escrow_id = e

\* "On failure or timeout, tokens are refunded to the sender." (escrow.rs:5)
\* No escrow is released when every execution of its job failed.
NotPaidForFailure ==
    \A p \in Peer : \A e \in ReleasedEscrows(p) :
        \E i \in DOMAIN runs[deed[e].job_id] : runs[deed[e].job_id][i].ok

\* "When the escrow expires (auto-refund after this time)." (escrow.rs:84)
ExpiredIsRefunded ==
    \A p \in Peer, e \in EscrowId :
        (wallet[p].escrows[e].status = "Active" /\ now > deed[e].expires_at)
            ~> wallet[p].escrows[e].status # "Active"

\* When gossip is reliable and nobody crashes, a request some provider can serve
\* is settled: no order of requests, bids, ticks and acceptances strands it.
JobCompletes ==
    \A p \in Peer, j \in Job :
        (j \in requests[p] /\ \E q \in Peer \ {p} : PriceOf[q] <= request[j].max_budget)
            ~> j \in Finished(p)
=============================================================================
