----------------------------- MODULE JobOffers ------------------------------
(* Both sides of an offer of work: the price a provider asks               *)
(* (job/pricing.rs), and the executions sent to other nodes                *)
(* (executor/remote.rs).                                                   *)
EXTENDS Integers, FiniteSets, Totals

CONSTANTS
    Resource,       \* kinds of resources
    Rate,           \* of each kind: μPCLAW per unit
    Unit,           \* of each kind: what a unit is (1000 tokens, 3600 seconds, ...)
    FloatPriced,    \* the kinds priced in floating point: cpu, gpu, storage
    JobAmount,      \* amounts asked for
    Budget,         \* what requesters offer
    NodeLoad,       \* loads of the node, in percent
    NodeReputation, \* reputations of the node, in percent
    RemoteTask,     \* executions, each with its job
    TaskBid, TaskOf, TaskPrice, TaskScore,   \* what other nodes may bid
    TaskFunds       \* what the wallet may spend

\* Amounts and prices are u64; a reputation is from 0 to 1 (job/pricing.rs:218).
ASSUME OffersAssumption ==
    /\ Resource # {} /\ Rate \in [Resource -> Nat] /\ Unit \in [Resource -> Nat \ {0}]
    /\ JobAmount \subseteq Nat /\ Budget \subseteq Nat /\ NodeLoad \subseteq Int
    /\ NodeReputation \subseteq 0..100 /\ 50 \in NodeReputation
    /\ IsFiniteSet(TaskBid)
    /\ TaskOf \in [TaskBid -> RemoteTask] /\ TaskPrice \in [TaskBid -> Nat] /\ TaskFunds \in Nat

VARIABLES
    utilization_multiplier,  \* in hundredths
    reputation,
    bid,             \* the last request evaluated at these prices
    remoteRequests,  \* JobManager.requests
    remoteBids,      \* JobManager.bids
    remoteJobs,      \* JobManager.active_jobs
    remoteEscrow,    \* status of the escrow of a job
    remoteFunds,     \* what the wallet may still spend
    remoteAt,        \* where an execution is
    chosenBid,       \* the bid an execution selected, {} for none
    acceptedJobs,    \* jobs that became active
    winnersTold,     \* jobs whose acceptance was published
    unstored,        \* history: jobs whose escrow was taken, and then not stored
    expiredBids      \* bids past their expires_at

-----------------------------------------------------------------------------
(***************************************************************************)
(* What a provider asks for a job (job/pricing.rs, job/mod.rs): the rate   *)
(* of the resource, times a multiplier that follows the load of the node,  *)
(* less a discount for reputation, each step truncated to whole μPCLAW.    *)
(* The multiplier and the discount are counted in hundredths and           *)
(* thousandths.                                                            *)
(***************************************************************************)

priceVars == <<utilization_multiplier, reputation, bid>>

target_utilization == 70

NoBid == [resource |-> CHOOSE r \in Resource : TRUE, amount |-> 0, max_budget |-> 0,
          made |-> FALSE, price |-> 0]

PriceTypeOK ==
    /\ utilization_multiplier \in 50..300
    /\ reputation \in NodeReputation
    /\ bid.resource \in Resource /\ bid.amount \in JobAmount \cup {0}
    /\ bid.max_budget \in Budget \cup {0} /\ bid.made \in BOOLEAN /\ bid.price \in Nat

\* PricingStrategy::default.
PriceInit ==
    /\ utilization_multiplier = 100
    /\ reputation = 50
    /\ bid = NoBid

-----------------------------------------------------------------------------
\* `as u64` of a product of floats: truncation, of a value that may be just
\* below the whole number it stands for.
Truncated(n, d) ==
    {n \div d} \cup {x \in {(n \div d) - 1} : n % d = 0 /\ n > 0}

\* Mutant: the rate of one token is truncated before it is multiplied.
RateTruncated(r, amount) ==
    IF r \in FloatPriced THEN Truncated(Rate[r] * amount, Unit[r])
    ELSE {(Rate[r] \div Unit[r]) * amount}

\* Mutant: units are charged whole.
WholeUnits(r, amount) ==
    {Rate[r] * ((amount + Unit[r] - 1) \div Unit[r])}

\* ResourcePricing::calculate, in integers or in floats.
BasePrice(r, amount) ==
    IF r \in FloatPriced THEN Truncated(Rate[r] * amount, Unit[r])
    ELSE {(Rate[r] * amount) \div Unit[r]}

\* Mutant: the discount is ten percent for everybody and again by reputation.
DiscountTwice(adjusted) == Truncated(adjusted * (1000 - reputation) * 9, 10000)

\* At most ten percent at reputation one.
Discounted(adjusted) == Truncated(adjusted * (1000 - reputation), 1000)

\* PricingStrategy::calculate_price.
Prices(r, amount) ==
    UNION {UNION {Discounted(a) : a \in Truncated(b * utilization_multiplier, 100)} :
           b \in BasePrice(r, amount)}

\* Mutant: nothing keeps the multiplier in its range.
NotClamped(m) == m

Clamped(m) == IF m < 50 THEN 50 ELSE IF m > 300 THEN 300 ELSE m

\* update_utilization: a fifth of the distance to the target, however often.
UpdateUtilization ==
    \E load \in NodeLoad :
        utilization_multiplier' =
            Clamped(utilization_multiplier + (load - target_utilization) \div 5)
    /\ bid' = NoBid /\ UNCHANGED reputation

\* set_pricing.
SetReputation ==
    /\ reputation' \in NodeReputation
    /\ bid' = NoBid /\ UNCHANGED utilization_multiplier

\* evaluate_request: no bid above the budget of the requester.
EvaluateRequest ==
    /\ \E r \in Resource, n \in JobAmount, max \in Budget :
        \E price \in Prices(r, n) :
            bid' = [resource |-> r, amount |-> n, max_budget |-> max,
                    made |-> price <= max, price |-> price]
    /\ UNCHANGED <<utilization_multiplier, reputation>>

PriceNext == UpdateUtilization \/ SetReputation \/ EvaluateRequest

-----------------------------------------------------------------------------
\* Properties.

\* A bid is from 45 % to 300 % of what the rates come to, whatever loads were
\* reported in whatever order: all the truncations together take less than
\* three μPCLAW off the least, and none adds any.
BidAsRated ==
    LET exact == Rate[bid.resource] * bid.amount
        unit == Unit[bid.resource]
    IN  /\ bid.price * unit <= 3 * exact
        /\ (bid.price + 3) * unit * 100 > 45 * exact

\* Within the truncations the price of the whole is the price of its parts: who
\* splits the request bid for, or joined it from two, neither saves nor loses.
PartsCostTheWhole ==
    \A m, n \in JobAmount :
        m + n = bid.amount =>
            \A p \in Prices(bid.resource, m), q \in Prices(bid.resource, n) :
                bid.price - (p + q) \in -5..10

-----------------------------------------------------------------------------
(***************************************************************************)
(* Tasks sent to other nodes (RemoteExecutor in executor/remote.rs) beside *)
(* the event loop, which takes in the bids and results of the same         *)
(* JobManager (runtime.rs): several executions at a time, each with one    *)
(* request, and the escrows of one wallet.  A call of the JobManager is    *)
(* made under its write guard and is one step; the guard is not kept from  *)
(* one call to the next.  The requests carry no requester, so the node's   *)
(* own acceptance of bids (cli/serve.rs) leaves them alone.                *)
(***************************************************************************)

remoteVars == <<remoteRequests, remoteBids, remoteJobs, remoteEscrow, remoteFunds,
                remoteAt, chosenBid, acceptedJobs, winnersTold, unstored, expiredBids>>

RemoteStage == {"new", "stored", "collecting", "selected", "accepted", "waiting", "failed",
                "timeout"}

RemoteTypeOK ==
    /\ remoteRequests \subseteq RemoteTask /\ remoteJobs \subseteq RemoteTask
    /\ acceptedJobs \subseteq RemoteTask /\ winnersTold \subseteq RemoteTask
    /\ unstored \subseteq RemoteTask
    /\ remoteBids \in [RemoteTask -> SUBSET TaskBid]
    /\ remoteEscrow \in [RemoteTask -> {"None", "Active", "Released"}]
    /\ remoteFunds \in 0..TaskFunds
    /\ remoteAt \in [RemoteTask -> RemoteStage]
    /\ chosenBid \in [RemoteTask -> {B \in SUBSET TaskBid : Cardinality(B) <= 1}]
    /\ expiredBids \subseteq TaskBid

RemoteInit ==
    /\ remoteRequests = {} /\ remoteBids = [x \in RemoteTask |-> {}] /\ remoteJobs = {}
    /\ remoteEscrow = [x \in RemoteTask |-> "None"] /\ remoteFunds = TaskFunds
    /\ remoteAt = [x \in RemoteTask |-> "new"] /\ chosenBid = [x \in RemoteTask |-> {}]
    /\ acceptedJobs = {} /\ winnersTold = {} /\ unstored = {} /\ expiredBids = {}

RemoteGoes(x, from, to) == remoteAt[x] = from /\ remoteAt' = [remoteAt EXCEPT ![x] = to]

\* broadcast_request: the request is stored before it is published.
CreateRequest(x) ==
    /\ RemoteGoes(x, "new", "stored")
    /\ remoteRequests' = remoteRequests \cup {x}
    /\ remoteBids' = [remoteBids EXCEPT ![x] = {}]
    /\ UNCHANGED <<remoteJobs, remoteEscrow, remoteFunds, chosenBid, acceptedJobs,
                   winnersTold, unstored, expiredBids>>

\* What fails to be published stays a request.
Publish(x) ==
    /\ RemoteGoes(x, "stored", "collecting") \/ RemoteGoes(x, "stored", "failed")
    /\ UNCHANGED <<remoteRequests, remoteBids, remoteJobs, remoteEscrow, remoteFunds,
                   chosenBid, acceptedJobs, winnersTold, unstored, expiredBids>>

\* The event loop takes a bid in for as long as the job has none accepted.
ReceiveBid(b) ==
    LET x == TaskOf[b] IN
    /\ x \in remoteRequests /\ remoteAt[x] # "stored"
    /\ remoteBids' = [remoteBids EXCEPT ![x] = @ \cup {b}]
    /\ UNCHANGED <<remoteRequests, remoteJobs, remoteEscrow, remoteFunds, remoteAt,
                   chosenBid, acceptedJobs, winnersTold, unstored, expiredBids>>

\* Time passes for a bid, which was made before.
ExpireBid(b) ==
    /\ remoteAt[TaskOf[b]] \notin {"new", "stored"}
    /\ expiredBids' = expiredBids \cup {b}
    /\ UNCHANGED <<remoteRequests, remoteBids, remoteJobs, remoteEscrow, remoteFunds,
                   remoteAt, chosenBid, acceptedJobs, winnersTold, unstored>>

Best(B) == {b \in B : \A c \in B : TaskScore[c] <= TaskScore[b]}

\* After the collection time: the best bid, expired or not.
Collect(x) ==
    /\ IF remoteBids[x] = {} THEN RemoteGoes(x, "collecting", "failed") /\ UNCHANGED chosenBid
       ELSE /\ RemoteGoes(x, "collecting", "selected")
            /\ \E b \in Best(remoteBids[x]) : chosenBid' = [chosenBid EXCEPT ![x] = {b}]
    /\ UNCHANGED <<remoteRequests, remoteBids, remoteJobs, remoteEscrow, remoteFunds,
                   acceptedJobs, winnersTold, unstored, expiredBids>>

\* JobManager::accept_bid refuses a bid that has expired or that the wallet
\* cannot pay, and leaves the request and its bids.
CanAccept(b) == b \notin expiredBids /\ TaskPrice[b] <= remoteFunds

HoldPrice(x, b) ==
    /\ remoteFunds' = remoteFunds - TaskPrice[b]
    /\ remoteEscrow' = [remoteEscrow EXCEPT ![x] = "Active"]

AcceptBid(x, b) ==
    /\ remoteRequests' = remoteRequests \ {x} /\ remoteBids' = [remoteBids EXCEPT ![x] = {}]
    /\ remoteJobs' = remoteJobs \cup {x} /\ acceptedJobs' = acceptedJobs \cup {x}

\* What becomes of a bid: it is accepted; its escrow is taken in memory and then
\* not stored, and the job stays a request (wallet/mod.rs:292); or it is refused,
\* by CanAccept or by the limits on spending.
BidAccepted(x, b) ==
    CanAccept(b) /\ RemoteGoes(x, "selected", "accepted") /\ HoldPrice(x, b) /\ AcceptBid(x, b)
    /\ UNCHANGED unstored

StoreFailed(x, b) ==
    /\ CanAccept(b) /\ RemoteGoes(x, "selected", "failed") /\ HoldPrice(x, b)
    /\ unstored' = unstored \cup {x}
    /\ UNCHANGED <<remoteRequests, remoteBids, remoteJobs, acceptedJobs>>

BidRefused(x) ==
    /\ RemoteGoes(x, "selected", "failed")
    /\ UNCHANGED <<remoteRequests, remoteBids, remoteJobs, remoteEscrow, remoteFunds,
                   acceptedJobs, unstored>>

\* Mutant: the escrow is made before the bid is looked at.
AcceptHoldsFirst(x) ==
    /\ \E b \in chosenBid[x] :
        \/ BidAccepted(x, b) \/ StoreFailed(x, b)
        \/ /\ ~CanAccept(b) /\ TaskPrice[b] <= remoteFunds
           /\ RemoteGoes(x, "selected", "failed") /\ HoldPrice(x, b)
           /\ UNCHANGED <<remoteRequests, remoteBids, remoteJobs, acceptedJobs, unstored>>
    /\ UNCHANGED <<chosenBid, winnersTold, expiredBids>>

Accept(x) ==
    /\ \E b \in chosenBid[x] : BidAccepted(x, b) \/ StoreFailed(x, b) \/ BidRefused(x)
    /\ UNCHANGED <<chosenBid, winnersTold, expiredBids>>

\* The winner is told; the caller of an execution whose message cannot be
\* published gets an error, with the job active and its price held.
Notify(x) ==
    /\ \/ RemoteGoes(x, "accepted", "waiting") /\ winnersTold' = winnersTold \cup {x}
       \/ RemoteGoes(x, "accepted", "failed") /\ UNCHANGED winnersTold
    /\ UNCHANGED <<remoteRequests, remoteBids, remoteJobs, remoteEscrow, remoteFunds,
                   chosenBid, acceptedJobs, unstored, expiredBids>>

\* A result arrives, at any time after: the event loop stores it and settles
\* the job under one write guard, so wait_for_result, which looks for the job
\* among the active ones, never sees it.  Where the release cannot be stored the
\* memory has changed all the same.
HandleResult(x) ==
    /\ x \in winnersTold \cap remoteJobs
    /\ remoteJobs' = remoteJobs \ {x}
    /\ remoteEscrow' = [remoteEscrow EXCEPT ![x] = "Released"]
    /\ UNCHANGED <<remoteRequests, remoteBids, remoteFunds, remoteAt, chosenBid,
                   acceptedJobs, winnersTold, unstored, expiredBids>>

RemoteTimeout(x) ==
    /\ RemoteGoes(x, "waiting", "timeout")
    /\ UNCHANGED <<remoteRequests, remoteBids, remoteJobs, remoteEscrow, remoteFunds,
                   chosenBid, acceptedJobs, winnersTold, unstored, expiredBids>>

RemoteNext ==
    \/ \E x \in RemoteTask :
        \/ CreateRequest(x) \/ Publish(x) \/ Collect(x) \/ Accept(x) \/ Notify(x)
        \/ HandleResult(x) \/ RemoteTimeout(x)
    \/ \E b \in TaskBid : ReceiveBid(b) \/ ExpireBid(b)

-----------------------------------------------------------------------------
\* The bids whose price was taken.
Winners == UNION {chosenBid[x] : x \in acceptedJobs \cup unstored}

\* Whatever the executions meet: a price leaves what the wallet may spend only
\* with a job that is active, once, and is paid only for a job whose provider
\* was told; an execution that failed before its bid was accepted leaves its
\* request open for bids, and no other request is open.  It holds nothing, but for
\* one case, exactly: where the escrow's store failed, its price stays held in
\* memory for a job that is no more than a request, and nothing gives it back
\* (remote.rs:47-245, runtime.rs:324-344, wallet/mod.rs:292-302).
RemoteAccounted ==
    /\ remoteFunds = TaskFunds - Total(TaskPrice, Winners)
    /\ \A x \in RemoteTask :
        /\ remoteEscrow[x] = "Active" <=> x \in remoteJobs \cup unstored
        /\ remoteEscrow[x] # "None" <=> x \in acceptedJobs \cup unstored
        /\ remoteEscrow[x] = "Released" => x \in winnersTold
        /\ x \in remoteRequests <=> remoteAt[x] # "new" /\ x \notin acceptedJobs
        /\ remoteAt[x] \in {"accepted", "waiting", "timeout"} => x \in acceptedJobs
        /\ x \in unstored => remoteAt[x] = "failed" /\ x \notin acceptedJobs

\* A bid asks what the rates say for the whole of the work (job/pricing.rs); a
\* task sent to another node costs its price once, and only if a bid was
\* accepted or its escrow could not be stored (executor/remote.rs).
OffersAccounted == BidAsRated /\ PartsCostTheWhole /\ RemoteAccounted

-----------------------------------------------------------------------------
\* The parts share no state and move one at a time.
offerVars == <<priceVars, remoteVars>>

OffersInit == PriceInit /\ RemoteInit

OffersTypeOK == PriceTypeOK /\ RemoteTypeOK

OffersNext ==
    \/ PriceNext /\ UNCHANGED remoteVars
    \/ RemoteNext /\ UNCHANGED priceVars

OffersSpec == OffersInit /\ [][OffersNext]_offerVars
=============================================================================
