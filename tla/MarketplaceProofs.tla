------------------------- MODULE MarketplaceProofs -------------------------
(***************************************************************************)
(* Proofs about Marketplace, for every set of nodes, jobs, escrows, prices *)
(* and budgets, every limit and clock, lossy or reliable gossip, failing   *)
(* stores and any number of crashes.                                       *)
(*                                                                         *)
(* What makes the market safe is not local to a node: that a job is        *)
(* executed once rests on the one acceptance in the network naming the     *)
(* bidder the requester holds the escrow for, and that it is paid once on  *)
(* the job being in one of the requester's lists.  IInv says so.           *)
(***************************************************************************)
EXTENDS Marketplace, FiniteSetTheorems, SequenceTheorems, TLAPS

\* A node's lists hold its own submissions only.
OwnJobs ==
    \A p \in Peer :
        /\ \A j \in requests[p] : request[j].requester = p
        /\ \A job \in active[p] : request[job.id].requester = p
        /\ \A i \in DOMAIN completed[p] : request[completed[p][i]].requester = p

\* JobInOnePlace, with the history as a sequence without repetitions.
ListsApart ==
    \A p \in Peer :
        /\ \A job \in active[p] : job.id \notin requests[p]
        /\ \A i \in DOMAIN completed[p] : completed[p][i] \notin requests[p]
        /\ \A job \in active[p] : \A i \in DOMAIN completed[p] : completed[p][i] # job.id
        /\ \A x, y \in active[p] : x.id = y.id => x = y
        /\ \A i, k \in DOMAIN completed[p] : completed[p][i] = completed[p][k] => i = k

\* Every bid, kept or on its way, respects the budget of the request.
BidsWithinBudget ==
    /\ \A p \in Peer, j \in Job : \A b \in bids[p][j] :
          b.job = j /\ b.price <= request[j].max_budget
    /\ \A c \in net :
          c.msg.type = "Bid" => c.msg.bid.price <= request[c.msg.bid.job].max_budget

\* An acceptance on its way ends its request everywhere.
AcceptedOnce ==
    \A c \in net : c.msg.type = "BidAccepted" =>
        /\ request[c.msg.job] # Unsubmitted
        /\ \A p \in Peer : c.msg.job \notin requests[p]

\* An executed job is closed, and no other node is told to execute it.
ExecutedWhenAccepted ==
    \A j \in Job : runs[j] # <<>> =>
        /\ Len(runs[j]) = 1
        /\ request[j] # Unsubmitted
        /\ \A p \in Peer : j \notin requests[p]
        /\ \A c \in net : c.msg.type = "BidAccepted" /\ c.msg.job = j => c.msg.winner # c.to

\* All acceptances of one job name one winner.
OneWinner ==
    \A c, d \in net :
        c.msg.type = "BidAccepted" /\ d.msg.type = "BidAccepted" /\ c.msg.job = d.msg.job
            => c.msg.winner = d.msg.winner

ResultsOfRuns == \A c \in net : c.msg.type = "Result" => runs[c.msg.job] # <<>>

\* Whoever executes or has executed job j is q.
WorkedBy(j, q) ==
    /\ \A c \in net : c.msg.type = "BidAccepted" /\ c.msg.job = j => c.msg.winner = q
    /\ runs[j] # <<>> => runs[j][1].peer = q

\* The worker of an active job is the one its escrow names.
ActiveIsAccepted ==
    \A p \in Peer : \A job \in active[p] :
        /\ deed[job.escrow_id].recipient = job.bid.bidder
        /\ WorkedBy(job.id, job.bid.bidder)

\* Wallet state w of node p, in memory or saved: every escrow has a deed of p
\* within the budget; a released one has paid the one execution of a job that is
\* over.
EscrowsSound(p, w) ==
    \A e \in EscrowId :
        /\ w.escrows[e].status # "None" =>
              /\ deed[e] # Unused
              /\ request[deed[e].job_id].requester = p
              /\ w.escrows[e].amount <= request[deed[e].job_id].max_budget
        /\ w.escrows[e].status = "Released" =>
              /\ deed[e].job_id \notin requests[p]
              /\ \A job \in active[p] : job.id # deed[e].job_id
              /\ runs[deed[e].job_id] # <<>>
              /\ runs[deed[e].job_id][1].peer = deed[e].recipient
              /\ \A f \in EscrowId :
                    w.escrows[f].status = "Released" /\ deed[f].job_id = deed[e].job_id => f = e

WalletsSound == \A p \in Peer : EscrowsSound(p, wallet[p]) /\ EscrowsSound(p, saved[p])

IInv ==
    /\ TypeOK
    /\ OwnJobs /\ ListsApart
    /\ BidsWithinBudget
    /\ AcceptedOnce /\ OneWinner
    /\ ExecutedWhenAccepted /\ ResultsOfRuns
    /\ ActiveIsAccepted /\ ActiveJobFunded
    /\ WalletsSound

-----------------------------------------------------------------------------
(* Messages. *)

LEMMA MessageFields ==
    ASSUME NEW m \in Message
    PROVE  /\ m.type = "Request" => m.job \in Job
           /\ m.type = "Bid" => m.bid \in Bid
           /\ m.type = "BidAccepted" => m.job \in Job /\ m.winner \in Peer
           /\ m.type = "Result" => m.job \in Job
BY DEF Message

LEMMA AudienceType ==
    ASSUME NEW p \in Peer, NEW audience \in Audience(p)
    PROVE  audience \subseteq Peer \ {p}
BY DEF Audience

LEMMA CopiesType ==
    ASSUME NEW msg \in Message, NEW audience \in SUBSET Peer
    PROVE  /\ Copies(msg, audience) \subseteq Envelope
           /\ \A c \in Copies(msg, audience) : c.msg = msg /\ c.to \in audience
BY DEF Copies, Envelope

\* What p finds in its mailbox.
LEMMA MailType ==
    ASSUME TypeOK, NEW p \in Peer, NEW m \in {c.msg : c \in {c \in net : c.to = p}}
    PROVE  m \in Message /\ [to |-> p, msg |-> m] \in net
<1>1. PICK c \in net : c.to = p /\ m = c.msg
  OBVIOUS
<1>2. c \in Envelope
  BY DEF TypeOK
<1>3. c = [to |-> p, msg |-> m] /\ c.msg \in Message
  BY <1>1, <1>2 DEF Envelope
<1>4. QED
  BY <1>1, <1>3

LEMMA ConsumeNet ==
    ASSUME TypeOK, NEW p \in Peer, NEW m, Consume(p, m)
    PROVE  net' \subseteq Envelope /\ net' \subseteq net
BY DEF TypeOK, Consume

\* After consuming m and publishing reply, only reply is new, and m is gone.
LEMMA ConsumeAndPublishNet ==
    ASSUME TypeOK, NEW p \in Peer, NEW m \in Message, NEW reply \in Message,
           ConsumeAndPublish(p, m, reply)
    PROVE  /\ net' \subseteq Envelope
           /\ \A c \in net' : (c \in net /\ c # [to |-> p, msg |-> m]) \/ c.msg = reply
<1>1. PICK audience \in Audience(p) :
        net' = (net \ {[to |-> p, msg |-> m]}) \cup Copies(reply, audience)
  BY DEF ConsumeAndPublish
<1>2. audience \in SUBSET Peer
  BY AudienceType
<1>3. QED
  BY <1>1, <1>2, CopiesType DEF TypeOK

LEMMA PublishNet ==
    ASSUME TypeOK, NEW p \in Peer, NEW msg \in Message, NEW audience \in Audience(p),
           net' = net \cup Copies(msg, audience)
    PROVE  /\ net' \subseteq Envelope
           /\ \A c \in net' : c \in net \/ c.msg = msg
<1>1. audience \in SUBSET Peer
  BY AudienceType
<1>2. QED
  BY <1>1, CopiesType DEF TypeOK

-----------------------------------------------------------------------------
(* Wallets. *)

LEMMA DefaultWalletType ==
    DefaultWallet \in WalletRecord /\ \A e \in EscrowId : DefaultWallet.escrows[e].status = "None"
<1>1. DefaultWallet \in WalletRecord
  <2>1. /\ [e \in EscrowId |-> NoEscrow] \in [EscrowId -> Escrow]
        /\ [h \in Hour |-> 0] \in [Hour -> Nat] /\ [d \in Day |-> 0] \in [Day -> Nat]
        /\ 0 \in Nat /\ 0 \in Int
    BY DEF NoEscrow, Escrow, EscrowStatus
  <2>2. QED
    BY <2>1, Zenon DEF DefaultWallet, WalletRecord
<1>2. QED
  BY <1>1 DEF DefaultWallet, NoEscrow

LEMMA CreditedWallet ==
    ASSUME NEW w \in WalletRecord
    PROVE  StartingWallet(w) \in WalletRecord /\ StartingWallet(w).escrows = w.escrows
<1>1. /\ w.available + InitialCredit \in Nat /\ w.credited + InitialCredit \in Nat
      /\ TrimmedHistory(w.transactions + 1) \in Nat /\ w.seq + 1 \in Nat
  BY ConfigAssumption, MarketAssumption DEF WalletRecord, TrimmedHistory
<1>2. StartingWallet(w) \in WalletRecord
  BY <1>1, Zenon DEF StartingWallet, AfterCredit, WalletRecord
<1>3. StartingWallet(w).escrows = w.escrows
  BY DEF StartingWallet, AfterCredit, WalletRecord
<1>4. QED
  BY <1>2, <1>3

LEMMA EscrowedWallet ==
    ASSUME NEW w \in WalletRecord, NEW e \in EscrowId, NEW a \in Nat, a <= EffectiveAvailable(w)
    PROVE  /\ AfterCreateEscrow(w, e, a) \in WalletRecord
           /\ AfterCreateEscrow(w, e, a).escrows =
                [w.escrows EXCEPT ![e] = [status |-> "Active", amount |-> a]]
<1>1. a <= w.available
  BY ConfigAssumption DEF EffectiveAvailable, WalletRecord
<1>2. /\ w.available - a \in Nat /\ w.in_escrow + a \in Int
      /\ [w.escrows EXCEPT ![e] = [status |-> "Active", amount |-> a]] \in [EscrowId -> Escrow]
      /\ w.transactions + 1 \in Nat /\ w.seq + 1 \in Nat
  BY <1>1 DEF WalletRecord, Escrow, EscrowStatus
<1>3. AfterCreateEscrow(w, e, a) \in WalletRecord
  BY <1>2, Zenon DEF AfterCreateEscrow, WalletRecord
<1>4. QED
  BY <1>3 DEF AfterCreateEscrow, WalletRecord

LEMMA ReleasedWallet ==
    ASSUME NEW w \in WalletRecord, NEW e \in EscrowId
    PROVE  /\ AfterRelease(w, e) \in WalletRecord
           /\ AfterRelease(w, e).escrows =
                [w.escrows EXCEPT ![e] = [status |-> "Released", amount |-> w.escrows[e].amount]]
<1>1. /\ w.in_escrow - w.escrows[e].amount \in Int /\ w.paid + w.escrows[e].amount \in Nat
      /\ [w.escrows EXCEPT ![e].status = "Released"] \in [EscrowId -> Escrow]
      /\ w.transactions + 1 \in Nat /\ w.seq + 1 \in Nat
  BY DEF WalletRecord, Escrow, EscrowStatus
<1>2. AfterRelease(w, e) \in WalletRecord
  BY <1>1, Zenon DEF AfterRelease, WalletRecord
<1>3. w.escrows[e] = [status |-> w.escrows[e].status, amount |-> w.escrows[e].amount]
  BY DEF WalletRecord, Escrow
<1>4. AfterRelease(w, e).escrows = [w.escrows EXCEPT ![e].status = "Released"]
  BY DEF AfterRelease, WalletRecord
<1>5. [w.escrows EXCEPT ![e].status = "Released"] =
        [w.escrows EXCEPT ![e] = [status |-> "Released", amount |-> w.escrows[e].amount]]
  BY <1>3 DEF WalletRecord
<1>6. QED
  BY <1>2, <1>4, <1>5

\* The history keeps its newest entries, in order.
LEMMA NewestType ==
    ASSUME NEW s \in Seq(Job)
    PROVE  /\ Newest(s) \in Seq(Job)
           /\ \E k \in Nat : /\ Len(Newest(s)) + k = Len(s)
                             /\ \A i \in DOMAIN Newest(s) : Newest(s)[i] = s[i + k] /\ i + k \in DOMAIN s
<1>1. CASE Len(s) > CompletedLimit
  <2>1. Newest(s) = SubSeq(s, Len(s) - CompletedLimit + 1, Len(s))
    BY <1>1 DEF Newest
  <2>2. Len(s) - CompletedLimit \in Nat
    BY <1>1, MarketAssumption, LenProperties
  <2>3. /\ Len(s) \in Nat /\ DOMAIN s = 1..Len(s)
        /\ Len(s) - CompletedLimit + 1 \in 1..Len(s)+1
    BY <1>1, <2>2, MarketAssumption, LenProperties
  <2>4. Newest(s) \in Seq(Job) /\ Len(Newest(s)) = CompletedLimit
        /\ \A i \in 1..CompletedLimit : Newest(s)[i] = s[i + (Len(s) - CompletedLimit)]
    BY <2>1, <2>2, <2>3, MarketAssumption, SubSeqProperties
  <2>5. DOMAIN Newest(s) = 1..CompletedLimit
    BY <2>4, LenProperties
  <2>6. /\ CompletedLimit + (Len(s) - CompletedLimit) = Len(s)
        /\ \A i \in 1..CompletedLimit : i + (Len(s) - CompletedLimit) \in 1..Len(s)
    BY <2>2, <2>3, MarketAssumption
  <2>7. QED
    BY <2>2, <2>3, <2>4, <2>5, <2>6
<1>2. CASE ~(Len(s) > CompletedLimit)
  BY <1>2, LenProperties DEF Newest
<1>3. QED
  BY <1>1, <1>2

-----------------------------------------------------------------------------
(* The invariant is inductive: one lemma per action. *)

\* A node starts with its wallet and nothing else.
LEMMA InitIInv == Init => IInv
<1> SUFFICES ASSUME Init PROVE IInv
  OBVIOUS
<1>1. /\ wallet = [p \in Peer |-> StartingWallet(DefaultWallet)] /\ saved = wallet
      /\ wallet \in [Peer -> WalletRecord]
      /\ \A p \in Peer, e \in EscrowId : wallet[p].escrows[e].status = "None"
  BY DefaultWalletType, CreditedWallet DEF Init
<1>2. TypeOK
  <2>1. tracked \in [Peer -> [Job -> Time \cup {Untracked}]]
    BY DEF Init
  <2>2. now \in Time /\ crashes \in 0..MaxCrashes
    BY MarketAssumption DEF Init, Time
  <2>3. request \in [Job -> Request] /\ deed \in [EscrowId -> Deed]
    BY DEF Init, Request, Deed
  <2>4. completed \in [Peer -> Seq(Job)] /\ runs \in [Job -> Seq(Run)]
    BY DEF Init
  <2>5. /\ requests \in [Peer -> SUBSET Job] /\ bids \in [Peer -> [Job -> SUBSET Bid]]
        /\ active \in [Peer -> SUBSET ActiveJob] /\ pending \in [Peer -> SUBSET Job]
        /\ net \subseteq Envelope
    BY DEF Init
  <2>6. QED
    BY <1>1, <2>1, <2>2, <2>3, <2>4, <2>5 DEF TypeOK
<1>3. OwnJobs /\ ListsApart
  BY DEF Init, OwnJobs, ListsApart
<1>4. BidsWithinBudget /\ AcceptedOnce /\ OneWinner /\ ResultsOfRuns
  BY DEF Init, BidsWithinBudget, AcceptedOnce, OneWinner, ResultsOfRuns
<1>5. ExecutedWhenAccepted /\ ActiveIsAccepted /\ ActiveJobFunded
  BY DEF Init, ExecutedWhenAccepted, ActiveIsAccepted, ActiveJobFunded
<1>6. WalletsSound
  BY <1>1 DEF WalletsSound, EscrowsSound
<1>7. QED
  BY <1>2, <1>3, <1>4, <1>5, <1>6 DEF IInv

\* A job nobody submitted is nowhere.
LEMMA UnsubmittedIsNowhere ==
    ASSUME IInv, NEW j \in Job, request[j] = Unsubmitted
    PROVE  /\ \A p \in Peer : /\ j \notin requests[p]
                              /\ \A job \in active[p] : job.id # j
                              /\ \A i \in DOMAIN completed[p] : completed[p][i] # j
           /\ \A c \in net : c.msg.type = "BidAccepted" => c.msg.job # j
           /\ runs[j] = <<>>
           /\ \A p \in Peer, e \in EscrowId :
                 wallet[p].escrows[e].status # "None" \/ saved[p].escrows[e].status # "None"
                     => deed[e].job_id # j
<1>1. \A p \in Peer : request[j].requester # p
  BY MarketAssumption DEF Unsubmitted
<1>2. \A p \in Peer : /\ j \notin requests[p]
                      /\ \A job \in active[p] : job.id # j
                      /\ \A i \in DOMAIN completed[p] : completed[p][i] # j
  BY <1>1 DEF IInv, OwnJobs
<1>3. \A c \in net : c.msg.type = "BidAccepted" => c.msg.job # j
  BY DEF IInv, AcceptedOnce
<1>4. runs[j] = <<>>
  BY DEF IInv, ExecutedWhenAccepted
<1>5. \A p \in Peer, e \in EscrowId :
         wallet[p].escrows[e].status # "None" \/ saved[p].escrows[e].status # "None"
             => deed[e].job_id # j
  BY <1>1 DEF IInv, WalletsSound, EscrowsSound
<1>6. QED
  BY <1>2, <1>3, <1>4, <1>5

LEMMA SubmitIInv ==
    ASSUME IInv, NEW p \in Peer, NEW j \in Job, NEW budget \in Budget, Submit(p, j, budget)
    PROVE  IInv'
<1> DEFINE msg == [type |-> "Request", job |-> j]
           r == [requester |-> p, max_budget |-> budget]
<1>1. /\ request[j] = Unsubmitted /\ request' = [request EXCEPT ![j] = r]
      /\ requests' = [requests EXCEPT ![p] = requests[p] \cup {j}]
      /\ bids' = [bids EXCEPT ![p][j] = {}]
      /\ UNCHANGED <<active, completed, tracked, wallet, saved, deed, pending, runs, now, crashes>>
  BY DEF Submit, walletVars
<1>2. msg \in Message /\ msg.type = "Request"
  BY DEF Message
<1>3. net' \subseteq Envelope /\ \A c \in net' : c \in net \/ c.msg = msg
  BY <1>2, PublishNet DEF IInv, Submit
<1>4. \A c \in net' : c.msg.type # "Request" => c \in net
  BY <1>2, <1>3
<1>5. /\ request \in [Job -> Request] /\ requests \in [Peer -> SUBSET Job]
      /\ bids \in [Peer -> [Job -> SUBSET Bid]] /\ active \in [Peer -> SUBSET ActiveJob]
      /\ completed \in [Peer -> Seq(Job)] /\ net \subseteq Envelope
  BY DEF IInv, TypeOK
<1>6. /\ \A i \in Job : i # j => request'[i] = request[i]
      /\ request'[j] = r /\ r.requester = p /\ r # Unsubmitted
      /\ budget \in Nat /\ request[j].max_budget = 0
  BY <1>1, <1>5, MarketAssumption DEF Unsubmitted
<1>7. \A q \in Peer : requests'[q] \subseteq requests[q] \cup {j} /\ (q # p => requests'[q] = requests[q])
  BY <1>1, <1>5
<1>8. /\ \A q \in Peer : /\ j \notin requests[q]
                         /\ \A job \in active[q] : job.id # j
                         /\ \A i \in DOMAIN completed[q] : completed[q][i] # j
      /\ \A c \in net : c.msg.type = "BidAccepted" => c.msg.job # j
      /\ runs[j] = <<>>
      /\ \A q \in Peer, e \in EscrowId :
            wallet[q].escrows[e].status # "None" \/ saved[q].escrows[e].status # "None"
                => deed[e].job_id # j
  BY <1>1, UnsubmittedIsNowhere
<1> HIDE DEF msg
<1>9. TypeOK'
  <2>1. request' \in [Job -> Request]
    BY <1>1, <1>5, <1>6 DEF Request
  <2>2. requests' \in [Peer -> SUBSET Job] /\ bids' \in [Peer -> [Job -> SUBSET Bid]]
    BY <1>1, <1>5
  <2>3. QED
    BY <1>1, <1>3, <2>1, <2>2 DEF IInv, TypeOK
<1>10. OwnJobs'
  <2>1. \A q \in Peer : \A i \in requests'[q] : request'[i].requester = q
    <3>1. ASSUME NEW q \in Peer, NEW i \in requests'[q] PROVE request'[i].requester = q
      <4>1. CASE i = j
        BY <1>6, <1>7, <1>8, <3>1, <4>1
      <4>2. CASE i # j
        <5>1. i \in requests[q] /\ i \in Job
          BY <1>5, <1>7, <3>1, <4>2
        <5>2. QED
          BY <1>6, <4>2, <5>1 DEF IInv, OwnJobs
      <4>3. QED
        BY <4>1, <4>2
    <3>2. QED
      BY <3>1
  <2>2. \A q \in Peer : \A job \in active[q] : request'[job.id].requester = q
    BY <1>5, <1>6, <1>8 DEF IInv, OwnJobs, ActiveJob
  <2>3. \A q \in Peer : \A i \in DOMAIN completed[q] : request'[completed[q][i]].requester = q
    <3>1. \A q \in Peer : \A i \in DOMAIN completed[q] : completed[q][i] \in Job
      BY <1>5, ElementOfSeq, LenProperties
    <3>2. QED
      BY <1>6, <1>8, <3>1 DEF IInv, OwnJobs
  <2>4. QED
    BY <1>1, <2>1, <2>2, <2>3 DEF OwnJobs
<1>11. ListsApart'
  BY <1>1, <1>7, <1>8 DEF IInv, ListsApart
<1>12. BidsWithinBudget'
  <2>1. \A q \in Peer, i \in Job : \A b \in bids'[q][i] :
           b.job = i /\ b.price <= request'[i].max_budget
    <3>1. ASSUME NEW q \in Peer, NEW i \in Job, NEW b \in bids'[q][i]
          PROVE  b.job = i /\ b.price <= request'[i].max_budget
      <4>1. b \in bids[q][i] /\ b \in Bid
        BY <1>1, <1>5, <3>1
      <4>2. b.job = i /\ b.price <= request[i].max_budget /\ b.price \in Nat
        BY <4>1 DEF IInv, BidsWithinBudget, Bid
      <4>3. QED
        BY <1>6, <4>2
    <3>2. QED
      BY <3>1
  <2>2. ASSUME NEW c \in net', c.msg.type = "Bid"
        PROVE  c.msg.bid.price <= request'[c.msg.bid.job].max_budget
    <3>1. c \in net
      BY <1>4, <2>2
    <3>2. c.msg \in Message /\ c.msg.bid \in Bid
      BY <1>5, <2>2, <3>1, MessageFields DEF Envelope
    <3>3. c.msg.bid.price <= request[c.msg.bid.job].max_budget
      BY <2>2, <3>1 DEF IInv, BidsWithinBudget
    <3>4. QED
      BY <1>6, <3>2, <3>3 DEF Bid
  <2>3. QED
    BY <2>1, <2>2 DEF BidsWithinBudget
<1>13. AcceptedOnce' /\ OneWinner'
  <2>1. \A c \in net' : c.msg.type = "BidAccepted" => c \in net /\ c.msg.job # j /\ c.msg.job \in Job
    BY <1>3, <1>4, <1>8, MessageFields DEF Envelope
  <2>2. QED
    BY <1>6, <1>7, <2>1 DEF IInv, AcceptedOnce, OneWinner
<1>14. ExecutedWhenAccepted' /\ ResultsOfRuns'
  BY <1>1, <1>4, <1>6, <1>7, <1>8 DEF IInv, ExecutedWhenAccepted, ResultsOfRuns
<1>15. ActiveIsAccepted' /\ ActiveJobFunded'
  BY <1>1, <1>4 DEF IInv, ActiveIsAccepted, WorkedBy, ActiveJobFunded
<1>16. WalletsSound'
  <2>1. ASSUME NEW q \in Peer, NEW w, EscrowsSound(q, w),
               \A e \in EscrowId : w.escrows[e].status # "None" => deed[e].job_id # j
        PROVE  EscrowsSound(q, w)'
    <3>1. ASSUME NEW e \in EscrowId, w.escrows[e].status # "None"
          PROVE  /\ deed[e] # Unused /\ request'[deed[e].job_id] = request[deed[e].job_id]
                 /\ deed[e].job_id # j
      <4>1. deed[e] # Unused /\ deed[e] \in Deed /\ deed[e].job_id # j
        BY <2>1, <3>1 DEF IInv, TypeOK, EscrowsSound
      <4>2. QED
        BY <1>6, <4>1 DEF Deed
    <3>2. QED
      BY <1>1, <1>7, <2>1, <3>1 DEF EscrowsSound
  <2>2. QED
    BY <1>1, <1>8, <2>1 DEF IInv, WalletsSound
<1>17. QED
  BY <1>9, <1>10, <1>11, <1>12, <1>13, <1>14, <1>15, <1>16 DEF IInv

\* Handlers that only consume, note a request or publish a bid within its budget.
LEMMA MailIInv ==
    ASSUME IInv, net' \subseteq Envelope, pending' \in [Peer -> SUBSET Job],
           UNCHANGED <<managerVars, walletVars, request, runs, now, crashes>>,
           \A c \in net' : c \in net \/ (/\ c.msg.type = "Bid"
                                         /\ c.msg.bid.price <= request[c.msg.bid.job].max_budget)
    PROVE  IInv'
<1>1. UNCHANGED <<requests, bids, active, completed, tracked, wallet, saved, deed>>
  BY DEF managerVars, walletVars
<1>2. \A c \in net' : c.msg.type # "Bid" => c \in net
  OBVIOUS
<1>3. TypeOK'
  BY <1>1 DEF IInv, TypeOK
<1>4. OwnJobs' /\ ListsApart'
  BY <1>1 DEF IInv, OwnJobs, ListsApart
<1>5. BidsWithinBudget'
  BY <1>1 DEF IInv, BidsWithinBudget
<1>6. AcceptedOnce' /\ OneWinner' /\ ResultsOfRuns'
  BY <1>1, <1>2 DEF IInv, AcceptedOnce, OneWinner, ResultsOfRuns
<1>7. ExecutedWhenAccepted'
  BY <1>1, <1>2 DEF IInv, ExecutedWhenAccepted
<1>8. ActiveIsAccepted' /\ ActiveJobFunded'
  BY <1>1, <1>2 DEF IInv, ActiveIsAccepted, WorkedBy, ActiveJobFunded
<1>9. WalletsSound'
  BY <1>1 DEF IInv, WalletsSound, EscrowsSound
<1>10. QED
  BY <1>3, <1>4, <1>5, <1>6, <1>7, <1>8, <1>9 DEF IInv

LEMMA HandleRequestIInv ==
    ASSUME IInv, NEW p \in Peer, NEW m \in {c.msg : c \in {c \in net : c.to = p}},
           HandleRequest(p, m)
    PROVE  IInv'
<1> DEFINE b == OfferOf(p, m.job)
           reply == [type |-> "Bid", bid |-> b]
<1>1. m \in Message /\ m.job \in Job
  BY MailType, MessageFields DEF IInv, HandleRequest
<1>2. b \in Bid /\ b.job = m.job /\ b.price = PriceOf[p]
  BY <1>1, MarketAssumption DEF OfferOf, Bid, IInv, TypeOK, Time
<1>3. reply \in Message /\ reply.type = "Bid" /\ reply.bid = b
  BY <1>2 DEF Message
<1>4. b.price <= request[b.job].max_budget
  BY <1>2 DEF HandleRequest, WorthBidding
<1>5. net' \subseteq Envelope /\ \A c \in net' : c \in net \/ c.msg = reply
  BY <1>1, <1>3, ConsumeAndPublishNet DEF IInv, HandleRequest
<1>6. pending' \in [Peer -> SUBSET Job]
  BY <1>1 DEF HandleRequest, IInv, TypeOK
<1> HIDE DEF b, reply
<1>7. \A c \in net' : c \in net \/ (/\ c.msg.type = "Bid"
                                    /\ c.msg.bid.price <= request[c.msg.bid.job].max_budget)
  BY <1>3, <1>4, <1>5
<1>8. QED
  BY <1>5, <1>6, <1>7, MailIInv DEF HandleRequest

LEMMA IgnoreIInv ==
    ASSUME IInv, NEW p \in Peer, NEW m, Ignore(p, m)
    PROVE  IInv'
<1>1. net' \subseteq Envelope /\ net' \subseteq net
  BY ConsumeNet DEF IInv, Ignore
<1>2. pending' \in [Peer -> SUBSET Job]
  BY DEF IInv, TypeOK, Ignore
<1>3. QED
  BY <1>1, <1>2, MailIInv DEF Ignore

LEMMA HandleBidIInv ==
    ASSUME IInv, NEW p \in Peer, NEW m \in {c.msg : c \in {c \in net : c.to = p}},
           HandleBid(p, m)
    PROVE  IInv'
<1> DEFINE c == [to |-> p, msg |-> m]
<1>1. m \in Message /\ m.bid \in Bid /\ c \in net /\ m.bid.job \in Job /\ m.type = "Bid"
  BY MailType, MessageFields DEF IInv, HandleBid, Bid
<1>2. m.bid.price <= request[m.bid.job].max_budget
  <2>1. c.msg = m
    OBVIOUS
  <2>2. QED
    BY <1>1, <2>1 DEF IInv, BidsWithinBudget
<1>3. /\ bids' = [bids EXCEPT ![p][m.bid.job] = bids[p][m.bid.job] \cup {m.bid}]
      /\ bids \in [Peer -> [Job -> SUBSET Bid]]
      /\ UNCHANGED <<requests, active, completed, tracked, wallet, saved, deed, pending, request,
                     runs, now, crashes>>
  BY DEF HandleBid, IInv, TypeOK, walletVars
<1>4. net' \subseteq Envelope /\ net' \subseteq net
  BY ConsumeNet DEF IInv, HandleBid
<1>5. TypeOK'
  BY <1>1, <1>3, <1>4 DEF IInv, TypeOK
<1>6. OwnJobs' /\ ListsApart'
  BY <1>3 DEF IInv, OwnJobs, ListsApart
<1>7. BidsWithinBudget'
  <2>1. ASSUME NEW q \in Peer, NEW j \in Job, NEW b \in bids'[q][j]
        PROVE  b.job = j /\ b.price <= request[j].max_budget
    <3>1. b \in bids[q][j] \/ (b = m.bid /\ j = m.bid.job)
      BY <1>1, <1>3
    <3>2. QED
      BY <1>2, <3>1 DEF IInv, BidsWithinBudget
  <2>2. QED
    BY <1>3, <1>4, <2>1 DEF IInv, BidsWithinBudget
<1>8. AcceptedOnce' /\ OneWinner' /\ ResultsOfRuns'
  BY <1>3, <1>4 DEF IInv, AcceptedOnce, OneWinner, ResultsOfRuns
<1>9. ExecutedWhenAccepted' /\ ActiveIsAccepted' /\ ActiveJobFunded'
  BY <1>3, <1>4 DEF IInv, ExecutedWhenAccepted, ActiveIsAccepted, WorkedBy, ActiveJobFunded
<1>10. WalletsSound'
  BY <1>3 DEF IInv, WalletsSound, EscrowsSound
<1>11. QED
  BY <1>5, <1>6, <1>7, <1>8, <1>9, <1>10 DEF IInv

\* The worker executes: the acceptance it consumes was the only one for it.
LEMMA HandleBidAcceptedIInv ==
    ASSUME IInv, NEW p \in Peer, NEW m \in {c.msg : c \in {c \in net : c.to = p}},
           HandleBidAccepted(p, m)
    PROVE  IInv'
<1> DEFINE e == [to |-> p, msg |-> m]
           reply == [type |-> "Result", job |-> m.job]
<1>1. /\ m \in Message /\ e \in net /\ m.type = "BidAccepted" /\ m.job \in Job /\ m.winner = p
      /\ e.to = p /\ e.msg = m
  BY MailType, MessageFields DEF IInv, HandleBidAccepted, WeWon
<1>2. reply \in Message /\ reply.type = "Result" /\ reply.job = m.job
  BY <1>1 DEF Message
<1>3. net' \subseteq Envelope /\ \A c \in net' : (c \in net /\ c # e) \/ c.msg = reply
  BY <1>1, <1>2, ConsumeAndPublishNet DEF IInv, HandleBidAccepted
<1>4. PICK run \in Run : run.peer = p /\ runs' = [runs EXCEPT ![m.job] = Append(runs[m.job], run)]
  BY DEF HandleBidAccepted, Run
<1>5. /\ pending' = [pending EXCEPT ![p] = pending[p] \ {m.job}]
      /\ UNCHANGED <<requests, bids, active, completed, tracked, wallet, saved, deed, request,
                     now, crashes>>
  BY DEF HandleBidAccepted, managerVars, walletVars
<1>6. /\ runs \in [Job -> Seq(Run)] /\ net \subseteq Envelope
      /\ pending \in [Peer -> SUBSET Job] /\ active \in [Peer -> SUBSET ActiveJob]
  BY DEF IInv, TypeOK
<1>7. runs[m.job] = <<>>
  BY <1>1 DEF IInv, ExecutedWhenAccepted
<1>8. /\ runs'[m.job] = <<run>> /\ Len(runs'[m.job]) = 1 /\ runs'[m.job] # <<>>
      /\ runs'[m.job][1] = run
      /\ \A j \in Job : j # m.job => runs'[j] = runs[j]
  BY <1>1, <1>4, <1>6, <1>7
<1>9. \A c \in net' : c.msg.type # "Result" => c \in net /\ c # e
  BY <1>2, <1>3
<1>10. \A c \in net : c.msg.type = "BidAccepted" /\ c.msg.job = m.job => c.msg.winner = p
  BY <1>1 DEF IInv, OneWinner
<1>11. request[m.job] # Unsubmitted /\ \A q \in Peer : m.job \notin requests[q]
  BY <1>1 DEF IInv, AcceptedOnce
<1> HIDE DEF reply
<1>12. TypeOK'
  <2>1. runs' \in [Job -> Seq(Run)]
    BY <1>1, <1>4, <1>6
  <2>2. QED
    BY <1>3, <1>5, <1>6, <2>1 DEF IInv, TypeOK
<1>13. OwnJobs' /\ ListsApart'
  BY <1>5 DEF IInv, OwnJobs, ListsApart
<1>14. BidsWithinBudget' /\ AcceptedOnce' /\ OneWinner'
  BY <1>5, <1>9 DEF IInv, BidsWithinBudget, AcceptedOnce, OneWinner
<1>15. ResultsOfRuns'
  <2>1. ASSUME NEW c \in net', c.msg.type = "Result" PROVE runs'[c.msg.job] # <<>>
    <3>1. CASE c.msg = reply
      BY <1>2, <1>8, <3>1
    <3>2. CASE c \in net
      <4>1. runs[c.msg.job] # <<>> /\ c.msg.job \in Job
        BY <1>6, <2>1, <3>2, MessageFields DEF IInv, ResultsOfRuns, Envelope
      <4>2. QED
        BY <1>8, <4>1
    <3>3. QED
      BY <1>3, <3>1, <3>2
  <2>2. QED
    BY <2>1 DEF ResultsOfRuns
<1>16. ExecutedWhenAccepted'
  <2>1. ASSUME NEW c \in net', c.msg.type = "BidAccepted", c.msg.job = m.job
        PROVE  c.msg.winner # c.to
    <3>1. c \in net /\ c # e /\ c \in Envelope /\ c.msg.winner = p /\ c.msg \in Message
      BY <1>6, <1>9, <1>10, <2>1 DEF Envelope
    <3>2. c.msg = m
      BY <1>1, <2>1, <3>1 DEF Message
    <3>3. QED
      BY <3>1, <3>2 DEF Envelope
  <2>2. ASSUME NEW j \in Job, runs'[j] # <<>>
        PROVE  /\ Len(runs'[j]) = 1 /\ request[j] # Unsubmitted
               /\ \A q \in Peer : j \notin requests[q]
               /\ \A c \in net' : c.msg.type = "BidAccepted" /\ c.msg.job = j => c.msg.winner # c.to
    <3>1. CASE j = m.job
      BY <1>8, <1>11, <2>1, <3>1
    <3>2. CASE j # m.job
      BY <1>8, <1>9, <2>2, <3>2 DEF IInv, ExecutedWhenAccepted
    <3>3. QED
      BY <3>1, <3>2
  <2>3. QED
    BY <1>5, <2>2 DEF ExecutedWhenAccepted
<1>17. ActiveIsAccepted'
  <2>1. ASSUME NEW q \in Peer, NEW job \in active[q]
        PROVE  runs'[job.id] # <<>> => runs'[job.id][1].peer = job.bid.bidder
    <3>1. job.id \in Job
      BY <1>6 DEF ActiveJob
    <3>2. CASE job.id = m.job
      BY <1>1, <1>4, <1>8, <3>2 DEF IInv, ActiveIsAccepted, WorkedBy
    <3>3. CASE job.id # m.job
      BY <1>8, <3>1, <3>3 DEF IInv, ActiveIsAccepted, WorkedBy
    <3>4. QED
      BY <3>2, <3>3
  <2>2. QED
    BY <1>5, <1>9, <2>1 DEF IInv, ActiveIsAccepted, WorkedBy
<1>18. ActiveJobFunded'
  BY <1>5 DEF IInv, ActiveJobFunded
<1>19. WalletsSound'
  <2>1. ASSUME NEW q \in Peer, NEW w, EscrowsSound(q, w) PROVE EscrowsSound(q, w)'
    <3>1. ASSUME NEW f \in EscrowId, w.escrows[f].status = "Released"
          PROVE  /\ runs'[deed[f].job_id] # <<>>
                 /\ runs'[deed[f].job_id][1].peer = deed[f].recipient
      <4>1. /\ runs[deed[f].job_id] # <<>> /\ runs[deed[f].job_id][1].peer = deed[f].recipient
            /\ deed[f] # Unused /\ deed[f] \in Deed
        BY <2>1, <3>1 DEF EscrowsSound, IInv, TypeOK
      <4>2. deed[f].job_id # m.job /\ deed[f].job_id \in Job
        BY <1>7, <4>1 DEF Deed
      <4>3. QED
        BY <1>8, <4>1, <4>2
    <3>2. QED
      BY <1>5, <2>1, <3>1 DEF EscrowsSound
  <2>2. QED
    BY <1>5, <2>1 DEF IInv, WalletsSound
<1>20. QED
  BY <1>12, <1>13, <1>14, <1>15, <1>16, <1>17, <1>18, <1>19 DEF IInv

\* Payment: the job leaves its list, and its escrow pays the one execution.
LEMMA HandleResultIInv ==
    ASSUME IInv, NEW p \in Peer, NEW m \in {c.msg : c \in {c \in net : c.to = p}},
           HandleResult(p, m)
    PROVE  IInv'
<1>1. m \in Message /\ m.type = "Result" /\ m.job \in Job /\ runs[m.job] # <<>>
  <2>1. [to |-> p, msg |-> m] \in net /\ m \in Message /\ m.type = "Result"
    BY MailType DEF IInv, HandleResult
  <2>2. runs[[to |-> p, msg |-> m].msg.job] # <<>>
    BY <2>1 DEF IInv, ResultsOfRuns
  <2>3. QED
    BY <2>1, <2>2, MessageFields
<1>2. PICK job \in active[p] :
        /\ job.id = m.job
        /\ active' = [active EXCEPT ![p] = active[p] \ {job}]
        /\ IF CanResolve(wallet[p], job.escrow_id)
           THEN \E ok \in BOOLEAN :
                  /\ WalletOp(p, AfterRelease(wallet[p], job.escrow_id), ok)
                  /\ completed' = IF ok THEN [completed EXCEPT ![p] = Newest(Append(completed[p], job.id))]
                                  ELSE completed
           ELSE UNCHANGED <<wallet, saved, completed>>
  BY DEF HandleResult, ResultFor, Settled
<1> DEFINE e == job.escrow_id
<1>3. /\ requests \in [Peer -> SUBSET Job] /\ active \in [Peer -> SUBSET ActiveJob]
      /\ completed \in [Peer -> Seq(Job)] /\ deed \in [EscrowId -> Deed]
      /\ wallet \in [Peer -> WalletRecord] /\ saved \in [Peer -> WalletRecord]
      /\ job.id \in Job /\ e \in EscrowId
  BY DEF IInv, TypeOK, ActiveJob
<1>4. /\ wallet[p].escrows[e] = [status |-> "Active", amount |-> job.bid.price]
      /\ deed[e].job_id = job.id
      /\ \A other \in active[p] : other.escrow_id = e => other = job
  BY DEF IInv, ActiveJobFunded
<1>5. CanResolve(wallet[p], e)
  BY <1>4 DEF CanResolve
<1>v. PICK v : v = AfterRelease(wallet[p], e)
  OBVIOUS
<1>6. PICK ok \in BOOLEAN :
        /\ WalletOp(p, v, ok)
        /\ completed' = IF ok THEN [completed EXCEPT ![p] = Newest(Append(completed[p], job.id))]
                        ELSE completed
  BY <1>2, <1>5, <1>v
<1>7. /\ wallet' = [wallet EXCEPT ![p] = v]
      /\ saved' = [saved EXCEPT ![p] = v] \/ saved' = saved
  BY <1>6 DEF WalletOp
<1>8. /\ v \in WalletRecord
      /\ v.escrows = [wallet[p].escrows EXCEPT ![e] = [status |-> "Released", amount |-> job.bid.price]]
      /\ wallet[p].escrows \in [EscrowId -> Escrow]
  <2>1. wallet[p] \in WalletRecord /\ wallet[p].escrows \in [EscrowId -> Escrow]
    BY <1>3 DEF WalletRecord
  <2>2. wallet[p].escrows[e].amount = job.bid.price
    BY <1>4
  <2>3. QED
    BY <1>3, <1>v, <2>1, <2>2, ReleasedWallet
<1>9. /\ v.escrows[e] = [status |-> "Released", amount |-> job.bid.price]
      /\ \A f \in EscrowId : f # e => v.escrows[f] = wallet[p].escrows[f]
  BY <1>3, <1>8
<1>10. /\ UNCHANGED <<requests, bids, tracked, deed, pending, request, runs, now, crashes>>
       /\ net' \subseteq net /\ net' \subseteq Envelope
  BY ConsumeNet DEF IInv, HandleResult
<1>11. \A q \in Peer : active'[q] \subseteq active[q] /\ job \notin active'[p]
  BY <1>2, <1>3
<1>12. /\ job.id \notin requests[p]
       /\ \A x \in active'[p] : x.id # job.id
       /\ \A i \in DOMAIN completed[p] : completed[p][i] # job.id
       /\ request[job.id].requester = p
       /\ runs[job.id] # <<>> /\ runs[job.id][1].peer = deed[e].recipient
  BY <1>1, <1>2, <1>11 DEF IInv, ListsApart, OwnJobs, ActiveIsAccepted, WorkedBy
<1> DEFINE h == Append(completed[p], job.id)
<1>13. /\ h \in Seq(Job) /\ DOMAIN h = 1..Len(h) /\ Len(h) = Len(completed[p]) + 1
       /\ DOMAIN completed[p] = 1..Len(completed[p]) /\ Len(completed[p]) \in Nat
       /\ h[Len(completed[p]) + 1] = job.id
       /\ \A i \in DOMAIN completed[p] : h[i] = completed[p][i]
  BY <1>3, AppendProperties, LenProperties
<1> HIDE DEF h
<1>14. \A i \in DOMAIN h :
          \/ i \in DOMAIN completed[p] /\ h[i] = completed[p][i]
          \/ i = Len(completed[p]) + 1 /\ h[i] = job.id
  <2>1. \A i \in 1..Len(completed[p]) + 1 : i \in 1..Len(completed[p]) \/ i = Len(completed[p]) + 1
    BY <1>13
  <2>2. QED
    BY <1>13, <2>1
<1>15. PICK k \in Nat : /\ Len(Newest(h)) + k = Len(h)
                        /\ \A i \in DOMAIN Newest(h) : Newest(h)[i] = h[i + k] /\ i + k \in DOMAIN h
  BY <1>13, NewestType
<1>16. Newest(h) \in Seq(Job) /\ DOMAIN Newest(h) \subseteq Nat
  BY <1>13, NewestType, LenProperties
\* Whatever holds of the entries of the old history and of job holds of the new.
<1>17. /\ completed' \in [Peer -> Seq(Job)]
       /\ \A q \in Peer : q # p => completed'[q] = completed[q]
       /\ \A i \in DOMAIN completed'[p] :
             \/ \E n \in DOMAIN completed[p] : completed'[p][i] = completed[p][n]
             \/ completed'[p][i] = job.id
  <2>1. CASE completed' = completed
    BY <1>3, <2>1
  <2>2. CASE completed' = [completed EXCEPT ![p] = Newest(h)]
    <3>1. completed'[p] = Newest(h)
      BY <1>3, <2>2
    <3>2. QED
      BY <1>3, <1>14, <1>15, <1>16, <2>2, <3>1
  <2>3. QED
    BY <1>6, <2>1, <2>2 DEF h
<1>18. \A i, n \in DOMAIN completed'[p] : completed'[p][i] = completed'[p][n] => i = n
  <2>1. CASE completed' = completed
    BY <2>1 DEF IInv, ListsApart
  <2>2. CASE completed' = [completed EXCEPT ![p] = Newest(h)]
    <3>1. \A i, n \in DOMAIN h : h[i] = h[n] => i = n
      BY <1>12, <1>14 DEF IInv, ListsApart
    <3>2. completed'[p] = Newest(h)
      BY <1>3, <2>2
    <3>3. ASSUME NEW i \in DOMAIN Newest(h), NEW n \in DOMAIN Newest(h), Newest(h)[i] = Newest(h)[n]
          PROVE  i = n
      <4>1. h[i + k] = h[n + k] /\ i + k \in DOMAIN h /\ n + k \in DOMAIN h
        BY <1>15, <3>3
      <4>2. i + k = n + k
        BY <3>1, <4>1
      <4>3. QED
        BY <1>16, <4>2
    <3>4. QED
      BY <3>2, <3>3
  <2>3. QED
    BY <1>6, <2>1, <2>2 DEF h
<1>19. TypeOK'
  <2>1. /\ wallet' \in [Peer -> WalletRecord] /\ saved' \in [Peer -> WalletRecord]
        /\ active' \in [Peer -> SUBSET ActiveJob]
    BY <1>2, <1>3, <1>7, <1>8
  <2>2. QED
    BY <1>10, <1>17, <2>1 DEF IInv, TypeOK
<1>20. OwnJobs'
  <2>1. \A q \in Peer : \A i \in DOMAIN completed'[q] : request[completed'[q][i]].requester = q
    BY <1>12, <1>17 DEF IInv, OwnJobs
  <2>2. QED
    BY <1>10, <1>11, <2>1 DEF IInv, OwnJobs
<1>21. ListsApart'
  <2>1. ASSUME NEW q \in Peer
        PROVE  /\ \A i \in DOMAIN completed'[q] : completed'[q][i] \notin requests[q]
               /\ \A x \in active'[q] : \A i \in DOMAIN completed'[q] : completed'[q][i] # x.id
               /\ \A i, n \in DOMAIN completed'[q] : completed'[q][i] = completed'[q][n] => i = n
    <3>1. CASE q = p
      <4>1. \A i \in DOMAIN completed'[p] : completed'[p][i] \notin requests[p]
        BY <1>12, <1>17 DEF IInv, ListsApart
      <4>2. ASSUME NEW x \in active'[p], NEW i \in DOMAIN completed'[p]
            PROVE  completed'[p][i] # x.id
        <5>1. x \in active[p] /\ x.id # job.id
          BY <1>11, <1>12
        <5>2. QED
          BY <1>17, <5>1 DEF IInv, ListsApart
      <4>3. QED
        BY <1>18, <3>1, <4>1, <4>2
    <3>2. CASE q # p
      BY <1>11, <1>17, <3>2 DEF IInv, ListsApart
    <3>3. QED
      BY <3>1, <3>2
  <2>2. QED
    BY <1>10, <1>11, <2>1 DEF IInv, ListsApart
<1>22. BidsWithinBudget' /\ AcceptedOnce' /\ OneWinner' /\ ResultsOfRuns'
  BY <1>10 DEF IInv, BidsWithinBudget, AcceptedOnce, OneWinner, ResultsOfRuns
<1>23. ExecutedWhenAccepted'
  BY <1>10 DEF IInv, ExecutedWhenAccepted
<1>24. ActiveIsAccepted'
  BY <1>10, <1>11 DEF IInv, ActiveIsAccepted, WorkedBy
<1>25. ActiveJobFunded'
  <2>1. ASSUME NEW q \in Peer, NEW x \in active'[q]
        PROVE  /\ wallet'[q].escrows[x.escrow_id] = [status |-> "Active", amount |-> x.bid.price]
               /\ saved'[q].escrows[x.escrow_id] = [status |-> "Active", amount |-> x.bid.price]
    <3>1. /\ x \in active[q] /\ x.escrow_id \in EscrowId
          /\ wallet[q].escrows[x.escrow_id] = [status |-> "Active", amount |-> x.bid.price]
          /\ saved[q].escrows[x.escrow_id] = [status |-> "Active", amount |-> x.bid.price]
      BY <1>3, <1>11 DEF IInv, ActiveJobFunded, ActiveJob
    <3>2. CASE q = p
      <4>1. x.escrow_id # e
        BY <1>4, <1>11, <3>1, <3>2
      <4>2. QED
        BY <1>3, <1>7, <1>9, <3>1, <3>2, <4>1
    <3>3. CASE q # p
      BY <1>3, <1>7, <3>1, <3>3
    <3>4. QED
      BY <3>2, <3>3
  <2>2. ASSUME NEW q \in Peer, NEW x \in active'[q]
        PROVE  /\ deed[x.escrow_id].job_id = x.id
               /\ \A y \in active'[q] : y.escrow_id = x.escrow_id => y = x
    BY <1>11, <2>2 DEF IInv, ActiveJobFunded
  <2>3. ASSUME NEW q \in Peer, NEW x \in active'[q], NEW w \in {wallet'[q], saved'[q]}
        PROVE  w.escrows[x.escrow_id] = [status |-> "Active", amount |-> x.bid.price]
    BY <2>1, <2>3
  <2>4. QED
    BY <1>10, <2>2, <2>3 DEF ActiveJobFunded
<1>26. WalletsSound'
  <2>1. ASSUME NEW q \in Peer, NEW w, EscrowsSound(q, w) PROVE EscrowsSound(q, w)'
    <3>1. ASSUME NEW f \in EscrowId, w.escrows[f].status = "Released"
          PROVE  \A x \in active'[q] : x.id # deed[f].job_id
      BY <1>11, <2>1, <3>1 DEF EscrowsSound
    <3>2. QED
      BY <1>10, <2>1, <3>1 DEF EscrowsSound
  <2>2. EscrowsSound(p, v)'
    <3>1. EscrowsSound(p, wallet[p])
      BY DEF IInv, WalletsSound
    <3>2. \A f \in EscrowId : v.escrows[f].status = "Released" /\ f # e => deed[f].job_id # job.id
      BY <1>9, <3>1 DEF EscrowsSound
    <3>3. ASSUME NEW f \in EscrowId, v.escrows[f].status # "None"
          PROVE  /\ deed[f] # Unused
                 /\ request[deed[f].job_id].requester = p
                 /\ v.escrows[f].amount <= request[deed[f].job_id].max_budget
      BY <1>4, <1>9, <3>1, <3>3 DEF EscrowsSound
    <3>4. ASSUME NEW f \in EscrowId, v.escrows[f].status = "Released"
          PROVE  /\ deed[f].job_id \notin requests[p]
                 /\ \A x \in active'[p] : x.id # deed[f].job_id
                 /\ runs[deed[f].job_id] # <<>>
                 /\ runs[deed[f].job_id][1].peer = deed[f].recipient
                 /\ \A g \in EscrowId :
                      v.escrows[g].status = "Released" /\ deed[g].job_id = deed[f].job_id => g = f
      <4>1. CASE f = e
        BY <1>4, <1>12, <3>2, <4>1
      <4>2. CASE f # e
        BY <1>4, <1>9, <1>11, <3>1, <3>2, <3>4, <4>2 DEF EscrowsSound
      <4>3. QED
        BY <4>1, <4>2
    <3>5. QED
      BY <1>10, <3>3, <3>4 DEF EscrowsSound
  <2>3. ASSUME NEW q \in Peer PROVE EscrowsSound(q, wallet[q])' /\ EscrowsSound(q, saved[q])'
    <3>1. EscrowsSound(q, wallet[q]) /\ EscrowsSound(q, saved[q])
      BY DEF IInv, WalletsSound
    <3>2. \/ wallet'[q] = wallet[q]
          \/ q = p /\ wallet'[q] = v
      BY <1>3, <1>7
    <3>3. \/ saved'[q] = saved[q]
          \/ q = p /\ saved'[q] = v
      BY <1>3, <1>7
    <3>4. QED
      BY <2>1, <2>2, <3>1, <3>2, <3>3
  <2>4. QED
    BY <2>3 DEF WalletsSound
<1>27. QED
  BY <1>19, <1>20, <1>21, <1>22, <1>23, <1>24, <1>25, <1>26 DEF IInv

LEMMA TrackNewIInv ==
    ASSUME IInv, NEW p \in Peer, TrackNew(p)
    PROVE  IInv'
<1>1. /\ tracked' = [tracked EXCEPT ![p] =
                       [j \in Job |-> IF j \in requests[p] /\ tracked[p][j] = Untracked THEN now
                                      ELSE tracked[p][j]]]
      /\ tracked \in [Peer -> [Job -> Time \cup {Untracked}]] /\ now \in Time
      /\ UNCHANGED <<requests, bids, active, completed, wallet, saved, deed, pending, net, request,
                     runs, now, crashes>>
  BY DEF TrackNew, IInv, TypeOK, walletVars
<1>2. TypeOK'
  <2>1. tracked' \in [Peer -> [Job -> Time \cup {Untracked}]]
    BY <1>1
  <2>2. QED
    BY <1>1, <2>1 DEF IInv, TypeOK
<1>3. OwnJobs' /\ ListsApart' /\ BidsWithinBudget' /\ AcceptedOnce' /\ OneWinner' /\ ResultsOfRuns'
  BY <1>1 DEF IInv, OwnJobs, ListsApart, BidsWithinBudget, AcceptedOnce, OneWinner, ResultsOfRuns
<1>4. ExecutedWhenAccepted' /\ ActiveIsAccepted' /\ ActiveJobFunded'
  BY <1>1 DEF IInv, ExecutedWhenAccepted, ActiveIsAccepted, WorkedBy, ActiveJobFunded
<1>5. WalletsSound'
  BY <1>1 DEF IInv, WalletsSound, EscrowsSound
<1>6. QED
  BY <1>2, <1>3, <1>4, <1>5 DEF IInv

\* A fresh escrow id is in no wallet and in no active job.
LEMMA UnusedIsNowhere ==
    ASSUME IInv, NEW e \in EscrowId, deed[e] = Unused
    PROVE  \A p \in Peer : /\ wallet[p].escrows[e].status = "None"
                           /\ saved[p].escrows[e].status = "None"
                           /\ \A job \in active[p] : job.escrow_id # e
<1>1. \A p \in Peer : wallet[p].escrows[e].status = "None" /\ saved[p].escrows[e].status = "None"
  BY DEF IInv, WalletsSound, EscrowsSound
<1>2. ASSUME NEW p \in Peer, NEW job \in active[p]
      PROVE  wallet[p].escrows[job.escrow_id].status = "Active"
  <2>1. wallet[p].escrows[job.escrow_id] = [status |-> "Active", amount |-> job.bid.price]
    BY DEF IInv, ActiveJobFunded
  <2>2. QED
    BY <2>1
<1>3. QED
  BY <1>1, <1>2

LEMMA AcceptBidIInv ==
    ASSUME IInv, NEW p \in Peer, NEW j \in Job, AcceptBid(p, j)
    PROVE  IInv'
<1>1. PICK b \in BestBids(p, j), e \in EscrowId, ok \in BOOLEAN :
        /\ b.price <= EffectiveAvailable(wallet[p])
        /\ deed[e] = Unused
        /\ deed' = [deed EXCEPT ![e] = [job_id |-> j, recipient |-> b.bidder,
                                        expires_at |-> now + JobTimeout]]
        /\ WalletOp(p, AfterCreateEscrow(wallet[p], e, b.price), ok)
        /\ IF ok
           THEN /\ requests' = Closed(p, j)
                /\ bids' = [bids EXCEPT ![p][j] = {}]
                /\ active' = [active EXCEPT ![p] = active[p] \cup {[id |-> j, bid |-> b, escrow_id |-> e]}]
                /\ tracked' = [tracked EXCEPT ![p][j] = Untracked]
                /\ \E audience \in Audience(p) :
                      net' = net \cup Copies([type |-> "BidAccepted", job |-> j,
                                              winner |-> b.bidder], audience)
           ELSE UNCHANGED <<requests, bids, active, tracked, net>>
  BY Zenon DEF AcceptBid
<1>2. PICK v : v = AfterCreateEscrow(wallet[p], e, b.price)
  OBVIOUS
<1> DEFINE d == [job_id |-> j, recipient |-> b.bidder, expires_at |-> now + JobTimeout]
           job == [id |-> j, bid |-> b, escrow_id |-> e]
           msg == [type |-> "BidAccepted", job |-> j, winner |-> b.bidder]
<1>3. /\ requests \in [Peer -> SUBSET Job] /\ active \in [Peer -> SUBSET ActiveJob]
      /\ bids \in [Peer -> [Job -> SUBSET Bid]] /\ deed \in [EscrowId -> Deed]
      /\ tracked \in [Peer -> [Job -> Time \cup {Untracked}]]
      /\ wallet \in [Peer -> WalletRecord] /\ saved \in [Peer -> WalletRecord]
      /\ net \subseteq Envelope /\ runs \in [Job -> Seq(Run)]
  BY DEF IInv, TypeOK
<1>4. /\ b \in bids[p][j] /\ b \in Bid /\ b.bidder \in Peer /\ b.price \in Nat
      /\ j \in requests[p] /\ b.price <= request[j].max_budget
  BY <1>3 DEF BestBids, ValidBids, AcceptBid, Collected, IInv, BidsWithinBudget, Bid
<1>5. PICK x : x = now + JobTimeout /\ x \in Nat
  BY MarketAssumption DEF IInv, TypeOK, Time
<1>6. /\ [job_id |-> j, recipient |-> b.bidder, expires_at |-> x] \in Deed
      /\ [job_id |-> j, recipient |-> b.bidder, expires_at |-> x] # Unused
  BY <1>4, <1>5, MarketAssumption DEF Deed, Unused
<1>7. /\ deed' \in [EscrowId -> Deed]
      /\ deed'[e].job_id = j /\ deed'[e].recipient = b.bidder /\ deed'[e] # Unused
      /\ \A f \in EscrowId : f # e => deed'[f] = deed[f]
  BY <1>1, <1>3, <1>5, <1>6
<1>8. /\ v \in WalletRecord
      /\ v.escrows = [wallet[p].escrows EXCEPT ![e] = [status |-> "Active", amount |-> b.price]]
      /\ wallet[p].escrows \in [EscrowId -> Escrow]
  <2>1. wallet[p] \in WalletRecord /\ wallet[p].escrows \in [EscrowId -> Escrow]
    BY <1>3 DEF WalletRecord
  <2>2. QED
    BY <1>1, <1>2, <1>4, <2>1, EscrowedWallet
<1>9. /\ v.escrows[e] = [status |-> "Active", amount |-> b.price]
      /\ \A f \in EscrowId : f # e => v.escrows[f] = wallet[p].escrows[f]
  BY <1>8
<1>10. /\ wallet' = [wallet EXCEPT ![p] = v]
       /\ saved' = IF ok THEN [saved EXCEPT ![p] = v] ELSE saved
       /\ UNCHANGED <<completed, pending, request, runs, now, crashes>>
  BY <1>1, <1>2 DEF WalletOp, AcceptBid
<1>11. \A q \in Peer : /\ wallet[q].escrows[e].status = "None"
                       /\ saved[q].escrows[e].status = "None"
                       /\ \A y \in active[q] : y.escrow_id # e
  BY <1>1, UnusedIsNowhere
<1>12. job \in ActiveJob /\ job.id = j /\ job.bid = b /\ job.escrow_id = e
  BY <1>4 DEF ActiveJob
<1>13. msg \in Message /\ msg.type = "BidAccepted" /\ msg.job = j /\ msg.winner = b.bidder
  BY <1>4 DEF Message
<1> HIDE DEF job, msg
\* What the two outcomes have in common.
<1>14. /\ requests' \in [Peer -> SUBSET Job]
       /\ \A q \in Peer : requests'[q] \subseteq requests[q]
       /\ bids' \in [Peer -> [Job -> SUBSET Bid]]
       /\ \A q \in Peer, i \in Job : bids'[q][i] \subseteq bids[q][i]
       /\ tracked' \in [Peer -> [Job -> Time \cup {Untracked}]]
       /\ net' \subseteq Envelope
       /\ active' \in [Peer -> SUBSET ActiveJob]
  <2>1. CASE ok
    <3>1. \E audience \in Audience(p) : net' = net \cup Copies(msg, audience)
      BY <1>1, <2>1 DEF msg
    <3>2. net' \subseteq Envelope
      BY <1>13, <3>1, PublishNet DEF IInv
    <3>3. /\ requests' = [requests EXCEPT ![p] = requests[p] \ {j}]
          /\ bids' = [bids EXCEPT ![p][j] = {}]
          /\ active' = [active EXCEPT ![p] = active[p] \cup {job}]
          /\ tracked' = [tracked EXCEPT ![p][j] = Untracked]
      BY <1>1, <2>1 DEF Closed, job
    <3>4. QED
      BY <1>3, <1>12, <3>2, <3>3
  <2>2. CASE ~ok
    BY <1>1, <1>3, <2>2
  <2>3. QED
    BY <2>1, <2>2
<1>15. /\ \A c \in net' : c \in net \/ (ok /\ c.msg = msg)
       /\ \A q \in Peer : \A y \in active'[q] : y \in active[q] \/ (ok /\ q = p /\ y = job)
       /\ ok => j \notin requests'[p]
  <2>1. CASE ok
    <3>1. \E audience \in Audience(p) : net' = net \cup Copies(msg, audience)
      BY <1>1, <2>1 DEF msg
    <3>2. \A c \in net' : c \in net \/ c.msg = msg
      BY <1>13, <3>1, PublishNet DEF IInv
    <3>3. /\ requests' = [requests EXCEPT ![p] = requests[p] \ {j}]
          /\ active' = [active EXCEPT ![p] = active[p] \cup {job}]
      BY <1>1, <2>1 DEF Closed, job
    <3>4. QED
      BY <1>3, <2>1, <3>2, <3>3
  <2>2. CASE ~ok
    BY <1>1, <2>2
  <2>3. QED
    BY <2>1, <2>2
\* j was open at p, so nothing else knew it.
<1>16. /\ request[j].requester = p
       /\ \A y \in active[p] : y.id # j
       /\ \A i \in DOMAIN completed[p] : completed[p][i] # j
       /\ runs[j] = <<>>
       /\ \A c \in net : c.msg.type = "BidAccepted" => c.msg.job # j
  BY <1>4 DEF IInv, OwnJobs, ListsApart, ExecutedWhenAccepted, AcceptedOnce
<1>17. request[j] # Unsubmitted
  BY <1>16, MarketAssumption DEF Unsubmitted
<1>18. ok => \A q \in Peer : j \notin requests'[q]
  <2>1. \A q \in Peer : q # p => j \notin requests[q]
    BY <1>16 DEF IInv, OwnJobs
  <2>2. QED
    BY <1>14, <1>15, <2>1
<1>19. TypeOK'
  <2>1. wallet' \in [Peer -> WalletRecord] /\ saved' \in [Peer -> WalletRecord]
    BY <1>3, <1>8, <1>10
  <2>2. QED
    BY <1>7, <1>10, <1>14, <2>1 DEF IInv, TypeOK
<1>20. OwnJobs'
  BY <1>10, <1>12, <1>14, <1>15, <1>16 DEF IInv, OwnJobs
<1>21. ListsApart'
  <2>1. ASSUME NEW q \in Peer, NEW y \in active'[q]
        PROVE  /\ y.id \notin requests'[q]
               /\ \A i \in DOMAIN completed[q] : completed[q][i] # y.id
               /\ \A z \in active'[q] : y.id = z.id => y = z
    BY <1>12, <1>14, <1>15, <1>16 DEF IInv, ListsApart
  <2>2. \A q \in Peer : \A i \in DOMAIN completed[q] : completed[q][i] \notin requests'[q]
    BY <1>14 DEF IInv, ListsApart
  <2>3. QED
    BY <1>10, <2>1, <2>2 DEF IInv, ListsApart
<1>22. BidsWithinBudget'
  <2>1. \A c \in net' : c.msg.type = "Bid" => c \in net
    BY <1>13, <1>15
  <2>2. QED
    BY <1>10, <1>14, <2>1 DEF IInv, BidsWithinBudget
<1>23. AcceptedOnce'
  <2>1. ASSUME NEW c \in net', c.msg.type = "BidAccepted"
        PROVE  request[c.msg.job] # Unsubmitted /\ \A q \in Peer : c.msg.job \notin requests'[q]
    BY <1>13, <1>14, <1>15, <1>17, <1>18, <2>1 DEF IInv, AcceptedOnce
  <2>2. QED
    BY <1>10, <2>1 DEF AcceptedOnce
<1>24. OneWinner'
  BY <1>13, <1>15, <1>16 DEF IInv, OneWinner
<1>25. ResultsOfRuns'
  BY <1>10, <1>13, <1>15 DEF IInv, ResultsOfRuns
<1>26. ExecutedWhenAccepted'
  <2>1. ASSUME NEW i \in Job, runs[i] # <<>>
        PROVE  /\ Len(runs[i]) = 1 /\ request[i] # Unsubmitted
               /\ \A q \in Peer : i \notin requests'[q]
               /\ \A c \in net' : c.msg.type = "BidAccepted" /\ c.msg.job = i => c.msg.winner # c.to
    BY <1>13, <1>14, <1>15, <1>16, <2>1 DEF IInv, ExecutedWhenAccepted
  <2>2. QED
    BY <1>10, <2>1 DEF ExecutedWhenAccepted
<1>27. ActiveIsAccepted'
  <2>1. ASSUME NEW q \in Peer, NEW y \in active'[q]
        PROVE  /\ deed'[y.escrow_id].recipient = y.bid.bidder
               /\ \A c \in net' : c.msg.type = "BidAccepted" /\ c.msg.job = y.id
                                     => c.msg.winner = y.bid.bidder
               /\ runs[y.id] # <<>> => runs[y.id][1].peer = y.bid.bidder
    <3>1. CASE y = job /\ ok /\ q = p
      BY <1>7, <1>12, <1>13, <1>15, <1>16, <3>1
    <3>2. CASE y \in active[q]
      <4>1. /\ y.escrow_id \in EscrowId /\ y.escrow_id # e
            /\ request[y.id].requester = q
        BY <1>3, <1>11, <3>2 DEF IInv, OwnJobs, ActiveJob
      <4>2. y.id # j
        BY <1>16, <3>2, <4>1
      <4>3. QED
        BY <1>7, <1>13, <1>15, <3>2, <4>1, <4>2 DEF IInv, ActiveIsAccepted, WorkedBy
    <3>3. QED
      BY <1>15, <3>1, <3>2
  <2>2. QED
    BY <1>10, <2>1 DEF ActiveIsAccepted, WorkedBy
<1>28. ActiveJobFunded'
  <2>1. ASSUME NEW q \in Peer, NEW y \in active'[q], NEW w \in {wallet'[q], saved'[q]}
        PROVE  w.escrows[y.escrow_id] = [status |-> "Active", amount |-> y.bid.price]
    <3>1. CASE y = job /\ ok /\ q = p
      BY <1>3, <1>9, <1>10, <1>12, <2>1, <3>1
    <3>2. CASE y \in active[q]
      <4>1. /\ y.escrow_id \in EscrowId /\ y.escrow_id # e
            /\ wallet[q].escrows[y.escrow_id] = [status |-> "Active", amount |-> y.bid.price]
            /\ saved[q].escrows[y.escrow_id] = [status |-> "Active", amount |-> y.bid.price]
        BY <1>3, <1>11, <3>2 DEF IInv, ActiveJobFunded, ActiveJob
      <4>2. w = wallet[q] \/ w = saved[q] \/ (q = p /\ w = v)
        BY <1>3, <1>10, <2>1
      <4>3. QED
        BY <1>9, <4>1, <4>2
    <3>3. QED
      BY <1>15, <3>1, <3>2
  <2>2. ASSUME NEW q \in Peer, NEW y \in active'[q]
        PROVE  /\ deed'[y.escrow_id].job_id = y.id
               /\ \A z \in active'[q] : z.escrow_id = y.escrow_id => z = y
    <3>1. \A z \in active[q] : z.escrow_id \in EscrowId /\ z.escrow_id # e
      BY <1>3, <1>11 DEF ActiveJob
    <3>2. \A z \in active'[q] : z \in active[q] \/ z = job
      BY <1>15
    <3>3. QED
      BY <1>7, <1>12, <3>1, <3>2 DEF IInv, ActiveJobFunded
  <2>3. QED
    BY <2>1, <2>2 DEF ActiveJobFunded
<1>29. WalletsSound'
  <2>1. ASSUME NEW q \in Peer, NEW w, EscrowsSound(q, w), w.escrows[e].status = "None"
        PROVE  EscrowsSound(q, w)'
    <3>1. ASSUME NEW f \in EscrowId, w.escrows[f].status # "None"
          PROVE  /\ deed'[f] # Unused
                 /\ request[deed'[f].job_id].requester = q
                 /\ w.escrows[f].amount <= request[deed'[f].job_id].max_budget
      BY <1>7, <2>1, <3>1 DEF EscrowsSound
    <3>2. ASSUME NEW f \in EscrowId, w.escrows[f].status = "Released"
          PROVE  /\ deed'[f].job_id \notin requests'[q]
                 /\ \A y \in active'[q] : y.id # deed'[f].job_id
                 /\ runs[deed'[f].job_id] # <<>>
                 /\ runs[deed'[f].job_id][1].peer = deed'[f].recipient
                 /\ \A g \in EscrowId :
                      w.escrows[g].status = "Released" /\ deed'[g].job_id = deed'[f].job_id => g = f
      <4>1. /\ deed'[f] = deed[f] /\ f # e
            /\ \A g \in EscrowId : w.escrows[g].status = "Released" => deed'[g] = deed[g]
        BY <1>7, <2>1, <3>2
      <4>2. deed[f].job_id # j
        BY <1>16, <2>1, <3>2 DEF EscrowsSound
      <4>3. QED
        BY <1>12, <1>14, <1>15, <2>1, <3>2, <4>1, <4>2 DEF EscrowsSound
    <3>3. QED
      BY <1>10, <3>1, <3>2 DEF EscrowsSound
  <2>2. EscrowsSound(p, v)'
    <3>1. EscrowsSound(p, wallet[p]) /\ wallet[p].escrows[e].status = "None"
      BY <1>11 DEF IInv, WalletsSound
    <3>2. PICK u : u = wallet[p]
      OBVIOUS
    <3>3. EscrowsSound(p, u)'
      BY <2>1, <3>1, <3>2
    <3>4. \A f \in EscrowId : f # e => v.escrows[f] = u.escrows[f]
      BY <1>9, <3>2
    <3>5. v.escrows[e].status = "Active" /\ v.escrows[e].amount = b.price
      BY <1>9
    <3>6. ASSUME NEW f \in EscrowId, v.escrows[f].status # "None"
          PROVE  /\ deed'[f] # Unused
                 /\ request'[deed'[f].job_id].requester = p
                 /\ v.escrows[f].amount <= request'[deed'[f].job_id].max_budget
      <4>1. CASE f = e
        BY <1>4, <1>7, <1>10, <1>16, <3>5, <4>1
      <4>2. CASE f # e
        BY <3>3, <3>4, <3>6, <4>2 DEF EscrowsSound
      <4>3. QED
        BY <4>1, <4>2
    <3>7. QED
      BY <3>3, <3>4, <3>5, <3>6 DEF EscrowsSound
  <2>3. ASSUME NEW q \in Peer PROVE EscrowsSound(q, wallet[q])' /\ EscrowsSound(q, saved[q])'
    <3>1. /\ EscrowsSound(q, wallet[q]) /\ EscrowsSound(q, saved[q])
          /\ wallet[q].escrows[e].status = "None" /\ saved[q].escrows[e].status = "None"
      BY <1>11 DEF IInv, WalletsSound
    <3>2. \/ wallet'[q] = wallet[q]
          \/ q = p /\ wallet'[q] = v
      BY <1>3, <1>10
    <3>3. \/ saved'[q] = saved[q]
          \/ q = p /\ saved'[q] = v
      BY <1>3, <1>10
    <3>4. QED
      BY <2>1, <2>2, <3>1, <3>2, <3>3
  <2>4. QED
    BY <2>3 DEF WalletsSound
<1>30. QED
  BY <1>19, <1>20, <1>21, <1>22, <1>23, <1>24, <1>25, <1>26, <1>27, <1>28, <1>29 DEF IInv

\* A restart forgets the lists and loads the saved wallet, which is as sound.
LEMMA CrashIInv ==
    ASSUME IInv, NEW p \in Peer, CrashAndRestart(p)
    PROVE  IInv'
<1>1. /\ requests' = [requests EXCEPT ![p] = {}]
      /\ bids' = [bids EXCEPT ![p] = [j \in Job |-> {}]]
      /\ active' = [active EXCEPT ![p] = {}]
      /\ completed' = [completed EXCEPT ![p] = <<>>]
      /\ tracked' = [tracked EXCEPT ![p] = [j \in Job |-> Untracked]]
      /\ pending' = [pending EXCEPT ![p] = {}]
      /\ crashes < MaxCrashes /\ crashes' = crashes + 1
      /\ net' \subseteq net
      /\ UNCHANGED <<request, deed, runs, now>>
  BY DEF CrashAndRestart
<1>2. /\ requests \in [Peer -> SUBSET Job] /\ active \in [Peer -> SUBSET ActiveJob]
      /\ bids \in [Peer -> [Job -> SUBSET Bid]] /\ completed \in [Peer -> Seq(Job)]
      /\ tracked \in [Peer -> [Job -> Time \cup {Untracked}]] /\ pending \in [Peer -> SUBSET Job]
      /\ wallet \in [Peer -> WalletRecord] /\ saved \in [Peer -> WalletRecord]
      /\ crashes \in 0..MaxCrashes /\ net \subseteq Envelope
  BY DEF IInv, TypeOK
<1>3. PICK v : v = StartingWallet(saved[p])
  OBVIOUS
<1>4. /\ wallet' = [wallet EXCEPT ![p] = v] /\ saved' = [saved EXCEPT ![p] = v]
      /\ v \in WalletRecord /\ v.escrows = saved[p].escrows
  BY <1>2, <1>3, CreditedWallet DEF CrashAndRestart
<1>5. \A q \in Peer : /\ requests'[q] \subseteq requests[q]
                      /\ active'[q] \subseteq active[q]
                      /\ \A j \in Job : bids'[q][j] \subseteq bids[q][j]
                      /\ completed'[q] = completed[q] \/ completed'[q] = <<>>
                      /\ q = p => active'[q] = {}
  BY <1>1, <1>2
<1>6. TypeOK'
  <2>1. completed' \in [Peer -> Seq(Job)]
    BY <1>1, <1>2
  <2>2. tracked' \in [Peer -> [Job -> Time \cup {Untracked}]]
    BY <1>1, <1>2
  <2>3. /\ requests' \in [Peer -> SUBSET Job] /\ active' \in [Peer -> SUBSET ActiveJob]
        /\ bids' \in [Peer -> [Job -> SUBSET Bid]] /\ pending' \in [Peer -> SUBSET Job]
        /\ wallet' \in [Peer -> WalletRecord] /\ saved' \in [Peer -> WalletRecord]
        /\ net' \subseteq Envelope
    BY <1>1, <1>2, <1>4
  <2>4. crashes' \in 0..MaxCrashes
    BY <1>1, <1>2, MarketAssumption
  <2>5. QED
    BY <1>1, <2>1, <2>2, <2>3, <2>4 DEF IInv, TypeOK
<1>7. \A q \in Peer : \A i \in DOMAIN completed'[q] : completed'[q] = completed[q]
  BY <1>5
<1>8. OwnJobs' /\ ListsApart'
  BY <1>1, <1>5, <1>7 DEF IInv, OwnJobs, ListsApart
<1>9. BidsWithinBudget' /\ AcceptedOnce' /\ OneWinner' /\ ResultsOfRuns'
  BY <1>1, <1>5 DEF IInv, BidsWithinBudget, AcceptedOnce, OneWinner, ResultsOfRuns
<1>10. ExecutedWhenAccepted'
  <2>1. ASSUME NEW j \in Job, runs[j] # <<>>
        PROVE  /\ Len(runs[j]) = 1 /\ request[j] # Unsubmitted
               /\ \A q \in Peer : j \notin requests'[q]
               /\ \A c \in net' : c.msg.type = "BidAccepted" /\ c.msg.job = j => c.msg.winner # c.to
    BY <1>1, <1>5, <2>1 DEF IInv, ExecutedWhenAccepted
  <2>2. QED
    BY <1>1, <2>1 DEF ExecutedWhenAccepted
<1>11. ActiveIsAccepted'
  BY <1>1, <1>5 DEF IInv, ActiveIsAccepted, WorkedBy
<1>12. ActiveJobFunded'
  <2>1. \A q \in Peer : q # p => wallet'[q] = wallet[q] /\ saved'[q] = saved[q]
    BY <1>2, <1>4
  <2>2. ASSUME NEW q \in Peer, NEW x \in active'[q], NEW w \in {wallet'[q], saved'[q]}
        PROVE  w.escrows[x.escrow_id] = [status |-> "Active", amount |-> x.bid.price]
    BY <1>5, <2>1, <2>2 DEF IInv, ActiveJobFunded
  <2>3. ASSUME NEW q \in Peer, NEW x \in active'[q]
        PROVE  /\ deed[x.escrow_id].job_id = x.id
               /\ \A y \in active'[q] : y.escrow_id = x.escrow_id => y = x
    BY <1>5, <2>3 DEF IInv, ActiveJobFunded
  <2>4. QED
    BY <1>1, <2>2, <2>3 DEF ActiveJobFunded
<1>13. WalletsSound'
  <2>1. ASSUME NEW q \in Peer, NEW w, NEW u, EscrowsSound(q, w), u.escrows = w.escrows
        PROVE  EscrowsSound(q, u)'
    <3>1. ASSUME NEW f \in EscrowId, w.escrows[f].status = "Released"
          PROVE  /\ deed[f].job_id \notin requests'[q]
                 /\ \A x \in active'[q] : x.id # deed[f].job_id
      BY <1>5, <2>1, <3>1 DEF EscrowsSound
    <3>2. QED
      BY <1>1, <2>1, <3>1 DEF EscrowsSound
  <2>2. ASSUME NEW q \in Peer PROVE EscrowsSound(q, wallet[q])' /\ EscrowsSound(q, saved[q])'
    <3>1. EscrowsSound(q, wallet[q]) /\ EscrowsSound(q, saved[q])
      BY DEF IInv, WalletsSound
    <3>2. \/ wallet'[q] = wallet[q] /\ saved'[q] = saved[q]
          \/ q = p /\ wallet'[q] = v /\ saved'[q] = v
      BY <1>2, <1>4
    <3>3. QED
      BY <1>4, <2>1, <3>1, <3>2
  <2>3. QED
    BY <2>2 DEF WalletsSound
<1>14. QED
  BY <1>6, <1>8, <1>9, <1>10, <1>11, <1>12, <1>13 DEF IInv

\* The clock moves, or nothing does.
LEMMA ClockIInv ==
    ASSUME IInv, now' \in Time,
           UNCHANGED <<managerVars, walletVars, pending, net, request, runs, crashes>>
    PROVE  IInv'
<1>1. UNCHANGED <<requests, bids, active, completed, tracked, wallet, saved, deed>>
  BY DEF managerVars, walletVars
<1>2. TypeOK'
  BY <1>1 DEF IInv, TypeOK
<1>3. OwnJobs' /\ ListsApart' /\ BidsWithinBudget' /\ AcceptedOnce' /\ OneWinner' /\ ResultsOfRuns'
  BY <1>1 DEF IInv, OwnJobs, ListsApart, BidsWithinBudget, AcceptedOnce, OneWinner, ResultsOfRuns
<1>4. ExecutedWhenAccepted' /\ ActiveIsAccepted' /\ ActiveJobFunded'
  BY <1>1 DEF IInv, ExecutedWhenAccepted, ActiveIsAccepted, WorkedBy, ActiveJobFunded
<1>5. WalletsSound'
  BY <1>1 DEF IInv, WalletsSound, EscrowsSound
<1>6. QED
  BY <1>2, <1>3, <1>4, <1>5 DEF IInv

LEMMA NextIInv == IInv /\ [Next]_vars => IInv'
<1> SUFFICES ASSUME IInv, [Next]_vars PROVE IInv'
  OBVIOUS
<1>1. ASSUME NEW p \in Peer, NEW j \in Job, NEW b \in Budget, Submit(p, j, b) PROVE IInv'
  BY <1>1, SubmitIInv
<1>2. ASSUME NEW p \in Peer, Deliver(p) PROVE IInv'
  <2>1. PICK m \in {c.msg : c \in {c \in net : c.to = p}} :
          \/ HandleRequest(p, m) \/ HandleBid(p, m) \/ HandleBidAccepted(p, m)
          \/ HandleResult(p, m) \/ Ignore(p, m)
    BY <1>2 DEF Deliver
  <2>2. QED
    BY <2>1, HandleRequestIInv, HandleBidIInv, HandleBidAcceptedIInv, HandleResultIInv, IgnoreIInv
<1>3. ASSUME NEW p \in Peer, TrackNew(p) PROVE IInv'
  BY <1>3, TrackNewIInv
<1>4. ASSUME NEW p \in Peer, NEW j \in Job, AcceptBid(p, j) PROVE IInv'
  BY <1>4, AcceptBidIInv
<1>5. ASSUME NEW p \in Peer, CrashAndRestart(p) PROVE IInv'
  BY <1>5, CrashIInv
<1>6. CASE Tick
  <2>1. now' \in Time
    BY <1>6, MarketAssumption DEF Tick, IInv, TypeOK, Time
  <2>2. QED
    BY <1>6, <2>1, ClockIInv DEF Tick
<1>7. CASE UNCHANGED vars
  <2>1. now' \in Time
    BY <1>7 DEF vars, IInv, TypeOK
  <2>2. QED
    BY <1>7, <2>1, ClockIInv DEF vars
<1>8. QED
  BY <1>1, <1>2, <1>3, <1>4, <1>5, <1>6, <1>7 DEF Next

LEMMA Invariance == Spec => []IInv
BY InitIInv, NextIInv, PTL DEF Spec

-----------------------------------------------------------------------------
(* What the invariant implies. *)

\* A sequence without repetitions has as many elements as places.
LEMMA NoRepetition ==
    ASSUME NEW s \in Seq(Job), \A i, k \in DOMAIN s : s[i] = s[k] => i = k
    PROVE  Cardinality({s[i] : i \in DOMAIN s}) = Len(s)
<1> DEFINE S == {s[i] : i \in DOMAIN s}
<1>1. DOMAIN s = 1..Len(s) /\ Len(s) \in Nat
  BY LenProperties
<1>2. s \in Bijection(1..Len(s), S)
  <2>1. s \in [1..Len(s) -> S]
    BY <1>1, LenProperties
  <2>2. QED
    BY <1>1, <2>1 DEF Bijection, Injection, Surjection, IsInjective
<1>3. ExistsBijection(1..Len(s), S)
  BY <1>2 DEF ExistsBijection
<1>4. QED
  BY <1>1, <1>3, FS_CountingElements

LEMMA IInvInOnePlace == IInv => JobInOnePlace
<1> SUFFICES ASSUME IInv, NEW p \in Peer
             PROVE  /\ requests[p] \cap (ActiveIds(p) \cup Finished(p)) = {}
                    /\ ActiveIds(p) \cap Finished(p) = {}
                    /\ \A x, y \in active[p] : x.id = y.id => x = y
                    /\ Cardinality(Finished(p)) = Len(completed[p])
  BY DEF JobInOnePlace
<1>1. Cardinality(Finished(p)) = Len(completed[p])
  BY NoRepetition DEF IInv, TypeOK, ListsApart, Finished
<1>2. QED
  BY <1>1 DEF IInv, ListsApart, ActiveIds, Finished

LEMMA IInvPaidOnce == IInv => PaidOnceForWorkDone
<1> SUFFICES ASSUME IInv, NEW p \in Peer, NEW e \in ReleasedEscrows(p)
             PROVE  /\ \E i \in DOMAIN runs[deed[e].job_id] :
                           runs[deed[e].job_id][i].peer = deed[e].recipient
                    /\ \A f \in ReleasedEscrows(p) : deed[f].job_id = deed[e].job_id => f = e
  BY DEF PaidOnceForWorkDone
<1>1. EscrowsSound(p, wallet[p]) /\ e \in EscrowId /\ wallet[p].escrows[e].status = "Released"
  BY DEF IInv, WalletsSound, ReleasedEscrows
<1>2. deed[e].job_id \in Job /\ runs[deed[e].job_id] # <<>>
  BY <1>1 DEF IInv, TypeOK, EscrowsSound, Deed
<1>3. Len(runs[deed[e].job_id]) = 1 /\ runs[deed[e].job_id] \in Seq(Run)
  BY <1>2 DEF IInv, TypeOK, ExecutedWhenAccepted
<1>4. 1 \in DOMAIN runs[deed[e].job_id]
  BY <1>3
<1>5. QED
  BY <1>1, <1>4 DEF EscrowsSound, ReleasedEscrows

\* The lists, wallets and messages of every node keep their types: no wallet
\* goes below zero, whatever gossip, crashes and failing stores do.
THEOREM TypeCorrect == Spec => []TypeOK
<1>1. IInv => TypeOK
  BY DEF IInv
<1>2. QED
  BY <1>1, Invariance, PTL

\* JobManager never keeps a job in two of its lists, nor one twice in the history.
THEOREM InOnePlace == Spec => []JobInOnePlace
BY IInvInOnePlace, Invariance, PTL

\* An active job's escrow is held in memory and on disk, and is its own.
THEOREM Funded == Spec => []ActiveJobFunded
<1>1. IInv => ActiveJobFunded
  BY DEF IInv
<1>2. QED
  BY <1>1, Invariance, PTL

\* A requester pays at most once for a job, and only the node that executed it.
THEOREM PaidOnce == Spec => []PaidOnceForWorkDone
BY IInvPaidOnce, Invariance, PTL

\* The same for nodes that work for each other.
THEOREM ApartAndPaid == Spec => []JobsApart
<1>1. IInv => JobsApart
  BY IInvInOnePlace, IInvPaidOnce DEF JobsApart, IInv
<1>2. QED
  BY <1>1, Invariance, PTL

\* However many providers bid and see the acceptance, one execution at most.
THEOREM ExecutedOnce == Spec => []ExecutedAtMostOnce
<1>1. IInv => ExecutedAtMostOnce
  <2> SUFFICES ASSUME IInv, NEW j \in Job PROVE Len(runs[j]) <= 1
    BY DEF ExecutedAtMostOnce
  <2>1. CASE runs[j] = <<>>
    BY <2>1
  <2>2. CASE runs[j] # <<>>
    <3>1. Len(runs[j]) = 1
      BY <2>2 DEF IInv, ExecutedWhenAccepted
    <3>2. QED
      BY <3>1
  <2>3. QED
    BY <2>1, <2>2
<1>2. QED
  BY <1>1, Invariance, PTL

\* No escrow exceeds the budget, although only the providers look at it.
THEOREM BudgetKept == Spec => []WithinBudget
<1>1. IInv => WithinBudget
  BY DEF IInv, WithinBudget, WalletsSound, EscrowsSound
<1>2. QED
  BY <1>1, Invariance, PTL

-----------------------------------------------------------------------------
(* Where stores do not fail and nodes do not crash, nothing stays held. *)

LEMMA NextHeld ==
    ASSUME ~StoreFails, MaxCrashes = 0, IInv, HeldOnlyForActiveJob, [Next]_vars
    PROVE  HeldOnlyForActiveJob'
<1>1. ASSUME NEW p \in Peer, NEW m, HandleResult(p, m) PROVE HeldOnlyForActiveJob'
  <2>1. PICK job \in active[p] :
          /\ active' = [active EXCEPT ![p] = active[p] \ {job}]
          /\ IF CanResolve(wallet[p], job.escrow_id)
             THEN \E ok \in BOOLEAN : WalletOp(p, AfterRelease(wallet[p], job.escrow_id), ok)
             ELSE UNCHANGED wallet
    BY <1>1 DEF HandleResult, Settled
  <2>2. /\ wallet \in [Peer -> WalletRecord] /\ active \in [Peer -> SUBSET ActiveJob]
        /\ job.escrow_id \in EscrowId
    BY DEF IInv, TypeOK, ActiveJob
  <2>3. wallet' = [wallet EXCEPT ![p] = AfterRelease(wallet[p], job.escrow_id)]
    <3>1. CanResolve(wallet[p], job.escrow_id)
      <4>1. wallet[p].escrows[job.escrow_id] = [status |-> "Active", amount |-> job.bid.price]
        BY DEF IInv, ActiveJobFunded
      <4>2. QED
        BY <4>1 DEF CanResolve
    <3>2. QED
      BY <2>1, <3>1 DEF WalletOp
  <2>4. /\ wallet'[p].escrows[job.escrow_id].status = "Released"
        /\ \A e \in EscrowId : e # job.escrow_id => wallet'[p].escrows[e] = wallet[p].escrows[e]
        /\ \A q \in Peer : q # p => wallet'[q] = wallet[q] /\ active'[q] = active[q]
    <3>1. wallet[p].escrows \in [EscrowId -> Escrow]
      BY <2>2 DEF WalletRecord
    <3>2. wallet'[p].escrows = [wallet[p].escrows EXCEPT ![job.escrow_id] =
             [status |-> "Released", amount |-> wallet[p].escrows[job.escrow_id].amount]]
      BY <2>2, <2>3, ReleasedWallet
    <3>3. QED
      BY <2>1, <2>2, <2>3, <3>1, <3>2
  <2>5. ASSUME NEW q \in Peer, NEW e \in EscrowId, wallet'[q].escrows[e].status = "Active"
        PROVE  \E x \in active'[q] : x.escrow_id = e
    <3>1. wallet[q].escrows[e].status = "Active" /\ (q = p => e # job.escrow_id)
      BY <2>4, <2>5
    <3>2. PICK x \in active[q] : x.escrow_id = e
      BY <3>1 DEF HeldOnlyForActiveJob
    <3>3. x \in active'[q]
      BY <2>1, <2>2, <2>4, <3>1, <3>2
    <3>4. QED
      BY <3>2, <3>3
  <2>6. QED
    BY <2>5 DEF HeldOnlyForActiveJob
<1>2. ASSUME NEW p \in Peer, NEW j \in Job, AcceptBid(p, j) PROVE HeldOnlyForActiveJob'
  <2>1. PICK b \in BestBids(p, j), e \in EscrowId :
          /\ b.price <= EffectiveAvailable(wallet[p])
          /\ wallet' = [wallet EXCEPT ![p] = AfterCreateEscrow(wallet[p], e, b.price)]
          /\ active' = [active EXCEPT ![p] = active[p] \cup {[id |-> j, bid |-> b, escrow_id |-> e]}]
    BY <1>2 DEF AcceptBid, WalletOp
  <2>2. /\ wallet \in [Peer -> WalletRecord] /\ active \in [Peer -> SUBSET ActiveJob]
        /\ b.price \in Nat
    BY DEF IInv, TypeOK, BestBids, ValidBids, Bid
  <2>3. \A f \in EscrowId : f # e => wallet'[p].escrows[f] = wallet[p].escrows[f]
    <3>1. wallet[p].escrows \in [EscrowId -> Escrow]
      BY <2>2 DEF WalletRecord
    <3>2. wallet'[p].escrows =
             [wallet[p].escrows EXCEPT ![e] = [status |-> "Active", amount |-> b.price]]
      BY <2>1, <2>2, EscrowedWallet
    <3>3. QED
      BY <3>1, <3>2
  <2>4. /\ \A q \in Peer : q # p => wallet'[q] = wallet[q]
        /\ \A q \in Peer : active[q] \subseteq active'[q]
        /\ [id |-> j, bid |-> b, escrow_id |-> e] \in active'[p]
    BY <2>1, <2>2
  <2>5. ASSUME NEW q \in Peer, NEW f \in EscrowId, wallet'[q].escrows[f].status = "Active"
        PROVE  \E x \in active'[q] : x.escrow_id = f
    <3>1. CASE q = p /\ f = e
      BY <2>4, <3>1
    <3>2. CASE ~(q = p /\ f = e)
      <4>1. wallet[q].escrows[f].status = "Active"
        BY <2>3, <2>4, <2>5, <3>2
      <4>2. QED
        BY <2>4, <4>1 DEF HeldOnlyForActiveJob
    <3>3. QED
      BY <3>1, <3>2
  <2>6. QED
    BY <2>5 DEF HeldOnlyForActiveJob
<1>3. ASSUME NEW p \in Peer, CrashAndRestart(p) PROVE FALSE
  BY <1>3 DEF CrashAndRestart, IInv, TypeOK
<1>4. ASSUME UNCHANGED <<wallet, active>> PROVE HeldOnlyForActiveJob'
  BY <1>4 DEF HeldOnlyForActiveJob
<1>5. QED
  BY <1>1, <1>2, <1>3, <1>4
     DEF Next, vars, Deliver, Submit, HandleRequest, HandleBid, HandleBidAccepted, Ignore,
         TrackNew, Tick, managerVars, walletVars

\* "Escrows hold tokens temporarily" (escrow.rs:3), as long as no store fails and
\* no node crashes: then every held escrow belongs to an active job.
THEOREM HeldForActive ==
    ASSUME ~StoreFails, MaxCrashes = 0
    PROVE  Spec => []HeldOnlyForActiveJob
<1>1. Init => HeldOnlyForActiveJob
  BY DefaultWalletType, CreditedWallet DEF Init, HeldOnlyForActiveJob
<1>2. IInv /\ HeldOnlyForActiveJob /\ [Next]_vars => HeldOnlyForActiveJob'
  BY NextHeld
<1>3. QED
  BY <1>1, <1>2, Invariance, PTL DEF Spec
=============================================================================
