--------------------------- MODULE PaymentChannel ---------------------------
(***************************************************************************)
(* Payment channels (channel/mod.rs): two nodes, each with a               *)
(* ChannelManager that keeps its own view of the one channel between them  *)
(* (both ends compute the same ChannelId).  The calls of a manager run in  *)
(* concurrent tasks and meet at its two read-write locks, channels and     *)
(* by_peer.  An update that arrives may be any: receive_payment looks at   *)
(* its nonce and at the sum of its balances, and at no signature.          *)
(***************************************************************************)
EXTENDS Integers, FiniteSets

CONSTANTS
    Node, PayTask, NodeOf,   \* the two nodes, the tasks and whose manager they call
    Capacity, Amount,        \* the capacities and payments asked for
    Supply,                  \* what each wallet starts with
    U64,                     \* 2^64: the balances are u64, and a sum wraps
    MaxOpens, MaxNonce,      \* bounds on openings per node and on nonces
    MaxStray                 \* bound on the updates taken that the other end never signed

ASSUME PaymentAssumption ==
    /\ \E m, n \in Node : m # n /\ Node = {m, n}
    /\ NodeOf \in [PayTask -> Node]
    /\ U64 \in Nat \ {0} /\ Supply \in [Node -> Nat]
    /\ Capacity \subseteq 0..(U64 - 1) /\ Amount \subseteq 0..(U64 - 1)
    /\ MaxOpens \in Nat /\ MaxNonce \in Nat /\ MaxStray \in Nat

VARIABLES
    channel,     \* the manager's entry for the channel, or NoChannel
    by_peer,     \* does the index by peer lead to the channel
    escrowed,    \* what create_escrow has taken from the wallet
    updates,     \* history: the updates each node signed, and for which opening
    strays,      \* history: how many updates were taken that the other end never signed
    payAt,       \* where a task is
    inHand,      \* the capacity or the amount its call was given
    payWriter,   \* the task that holds channels.write() across a wait, or NoHolder
    readers      \* the tasks that hold by_peer.read() across a wait

paymentVars ==
    <<channel, by_peer, escrowed, updates, strays, payAt, inHand, payWriter, readers>>

NoChannel == [era |-> 0]
NoHolder == "none"

Balance == 0..(U64 - 1)

\* What a peer's message says: the code has the channel's id besides, which is
\* the same for every channel two nodes ever open.
Update == [nonce : 0..MaxNonce, local_balance : Balance, remote_balance : Balance]

\* era is a history of the model: it counts the openings at a node.  Neither the
\* channel nor an update of the code has it, and no step looks at it.
Channel == [era : 1..MaxOpens, capacity : Capacity, local_balance : Balance,
            remote_balance : Balance, nonce : 0..MaxNonce,
            status : {"Opening", "Open", "Closed"}, expired : BOOLEAN]

Signature == [signer : Node, era : 1..MaxOpens, update : Update]

\* "lock_funds", "insert", "index": inside open_channel; "paying": inside
\* pay_peer, past the index; "unindex": inside close_channel, past the status.
Stage == {"idle", "lock_funds", "insert", "index", "paying", "unindex"}

PaymentTypeOK ==
    /\ channel \in [Node -> Channel \cup {NoChannel}]
    /\ by_peer \in [Node -> BOOLEAN]
    /\ escrowed \in [Node -> Nat] /\ \A n \in Node : escrowed[n] <= Supply[n]
    /\ updates \subseteq Signature /\ strays \in 0..MaxStray
    /\ payAt \in [PayTask -> Stage]
    /\ inHand \in [PayTask -> Nat]
    /\ payWriter \in [Node -> PayTask \cup {NoHolder}]
    /\ readers \in [Node -> SUBSET PayTask]

PaymentInit ==
    /\ channel = [n \in Node |-> NoChannel]
    /\ by_peer = [n \in Node |-> FALSE]
    /\ escrowed = [n \in Node |-> 0]
    /\ updates = {} /\ strays = 0
    /\ payAt = [t \in PayTask |-> "idle"]
    /\ inHand = [t \in PayTask |-> 0]
    /\ payWriter = [n \in Node |-> NoHolder]
    /\ readers = [n \in Node |-> {}]

-----------------------------------------------------------------------------
(* One end of the channel. *)

NewChannel(capacity, era) ==
    [era |-> era, capacity |-> capacity, local_balance |-> capacity,
     remote_balance |-> 0, nonce |-> 0, status |-> "Opening", expired |-> FALSE]

Operational(c) == c # NoChannel /\ c.status = "Open" /\ ~c.expired

\* A mutation: no check of the balance before a payment.
CanPay_Unchecked(c, amount) == Operational(c)

CanPay(c, amount) == Operational(c) /\ amount <= c.local_balance

\* The sum of two u64 in a release build.
Plus(a, b) == IF a + b < U64 THEN a + b ELSE a + b - U64

Paid(c, amount) ==
    [c EXCEPT !.local_balance = @ - amount, !.remote_balance = Plus(@, amount),
              !.nonce = @ + 1]

StateOf(c) ==
    [nonce |-> c.nonce, local_balance |-> c.local_balance,
     remote_balance |-> c.remote_balance]

Signed(n, c) == [signer |-> n, era |-> c.era, update |-> StateOf(c)]

HasSigned(n, u) == \E s \in updates : s.signer = n /\ s.update = u

\* A mutation: any nonce is taken.
Acceptable_AnyNonce(c, u) ==
    Operational(c) /\ Plus(u.local_balance, u.remote_balance) = c.capacity

\* A mutation: the sum of the balances is not checked.
Acceptable_AnySum(c, u) == Operational(c) /\ u.nonce = c.nonce + 1

Acceptable(c, u) ==
    /\ Operational(c)
    /\ u.nonce = c.nonce + 1
    /\ Plus(u.local_balance, u.remote_balance) = c.capacity

\* A mutation: the balances are taken without changing sides.
Received_SameSide(c, u) ==
    [c EXCEPT !.local_balance = u.local_balance,
              !.remote_balance = u.remote_balance, !.nonce = u.nonce]

Received(c, u) ==
    [c EXCEPT !.local_balance = u.remote_balance,
              !.remote_balance = u.local_balance, !.nonce = u.nonce]

-----------------------------------------------------------------------------
(* The locks.  A section that takes a lock and waits for nothing before it *)
(* lets go is one step; only pay_peer and close_channel wait while holding *)
(* one: pay_peer's read guard lives to the end of its "if let".            *)

ChannelsFree(n) == payWriter[n] = NoHolder
IndexFree(n) == readers[n] = {}

Goes(t, stage) == payAt' = [payAt EXCEPT ![t] = stage] /\ UNCHANGED inHand

Starts(t, stage, amount) ==
    /\ payAt' = [payAt EXCEPT ![t] = stage]
    /\ inHand' = [inHand EXCEPT ![t] = amount]

Returns(t) == Starts(t, "idle", 0)

-----------------------------------------------------------------------------
(* open_channel: look, lock the funds, insert, index. *)

Era(n) == channel[n].era

OpenLooks(t, capacity) ==
    /\ payAt[t] = "idle" /\ ~by_peer[NodeOf[t]]
    /\ Era(NodeOf[t]) < MaxOpens
    /\ Starts(t, "lock_funds", capacity)
    /\ UNCHANGED <<channel, by_peer, escrowed, updates, payWriter, readers, strays>>

\* A mutation: the channel is created though its funds were not locked.
OpenLocksFunds_GoesOn(t) ==
    /\ payAt[t] = "lock_funds" /\ Goes(t, "insert")
    /\ escrowed' = [escrowed EXCEPT ![NodeOf[t]] =
                      IF @ + inHand[t] <= Supply[NodeOf[t]] THEN @ + inHand[t] ELSE @]
    /\ UNCHANGED <<channel, by_peer, updates, payWriter, readers, strays>>

\* create_escrow succeeds, is refused, or fails to store what it has taken.
OpenLocksFunds(t) ==
    LET n == NodeOf[t] IN
    /\ payAt[t] = "lock_funds"
    /\ \/ /\ escrowed[n] + inHand[t] <= Supply[n]
          /\ escrowed' = [escrowed EXCEPT ![n] = @ + inHand[t]]
          /\ Goes(t, "insert") \/ Returns(t)
       \/ Returns(t) /\ UNCHANGED escrowed
    /\ UNCHANGED <<channel, by_peer, updates, payWriter, readers, strays>>

\* MaxOpens bounds the insertions, which racing openings may repeat.
OpenInserts(t) ==
    LET n == NodeOf[t] IN
    /\ payAt[t] = "insert" /\ ChannelsFree(n) /\ Era(n) < MaxOpens
    /\ channel' = [channel EXCEPT ![n] = NewChannel(inHand[t], Era(n) + 1)]
    /\ Goes(t, "index")
    /\ UNCHANGED <<by_peer, escrowed, updates, payWriter, readers, strays>>

OpenIndexes(t) ==
    LET n == NodeOf[t] IN
    /\ payAt[t] = "index" /\ IndexFree(n)
    /\ by_peer' = [by_peer EXCEPT ![n] = TRUE]
    /\ Returns(t)
    /\ UNCHANGED <<channel, escrowed, updates, payWriter, readers, strays>>

-----------------------------------------------------------------------------
(* confirm_channel, pay, pay_peer, receive_payment, close_channel.  A call *)
(* that is refused changes nothing.                                        *)

Confirm(t) ==
    LET n == NodeOf[t] IN
    /\ payAt[t] = "idle" /\ ChannelsFree(n)
    /\ channel[n] # NoChannel /\ channel[n].status = "Opening"
    /\ channel' = [channel EXCEPT ![n].status = "Open"]
    /\ UNCHANGED <<by_peer, escrowed, updates, payAt, inHand, payWriter, readers, strays>>

MakePayment(n, amount) ==
    /\ ChannelsFree(n) /\ CanPay(channel[n], amount)
    /\ channel[n].nonce < MaxNonce
    /\ channel' = [channel EXCEPT ![n] = Paid(@, amount)]
    /\ updates' = updates \cup {Signed(n, channel'[n])}

Pay(t, amount) ==
    /\ payAt[t] = "idle" /\ MakePayment(NodeOf[t], amount)
    /\ UNCHANGED <<by_peer, escrowed, payAt, inHand, payWriter, readers, strays>>

PayPeerLooks(t, amount) ==
    LET n == NodeOf[t] IN
    /\ payAt[t] = "idle" /\ by_peer[n]
    /\ readers' = [readers EXCEPT ![n] = @ \cup {t}]
    /\ Starts(t, "paying", amount)
    /\ UNCHANGED <<channel, by_peer, escrowed, updates, payWriter, strays>>

PayPeerPays(t) ==
    LET n == NodeOf[t] IN
    /\ payAt[t] = "paying" /\ ChannelsFree(n)
    /\ \/ MakePayment(n, inHand[t])
       \/ ~CanPay(channel[n], inHand[t]) /\ UNCHANGED <<channel, updates>>
    /\ readers' = [readers EXCEPT ![n] = @ \ {t}]
    /\ Returns(t)
    /\ UNCHANGED <<by_peer, escrowed, payWriter, strays>>

\* Any update may come, of either node, of an earlier opening or of nobody: the
\* verification is a TODO of the code.
Receive(t, u) ==
    LET n == NodeOf[t] IN
    /\ payAt[t] = "idle" /\ ChannelsFree(n)
    /\ Acceptable(channel[n], u)
    /\ channel' = [channel EXCEPT ![n] = Received(@, u)]
    /\ IF \E m \in Node \ {n} : HasSigned(m, u) THEN UNCHANGED strays
       ELSE strays < MaxStray /\ strays' = strays + 1
    /\ UNCHANGED <<by_peer, escrowed, updates, payAt, inHand, payWriter, readers>>

CloseMarks(t) ==
    LET n == NodeOf[t] IN
    /\ payAt[t] = "idle" /\ ChannelsFree(n)
    /\ channel[n] # NoChannel /\ channel[n].status \in {"Open", "Opening"}
    /\ channel' = [channel EXCEPT ![n].status = "Closed"]
    /\ payWriter' = [payWriter EXCEPT ![n] = t]
    /\ Starts(t, "unindex", 0)
    /\ UNCHANGED <<by_peer, escrowed, updates, readers, strays>>

CloseUnindexes(t) ==
    LET n == NodeOf[t] IN
    /\ payAt[t] = "unindex" /\ IndexFree(n)
    /\ by_peer' = [by_peer EXCEPT ![n] = FALSE]
    /\ payWriter' = [payWriter EXCEPT ![n] = NoHolder]
    /\ Returns(t)
    /\ UNCHANGED <<channel, escrowed, updates, readers, strays>>

\* The clock passes expires_at; of a closed channel no step asks for it.
Expire(n) ==
    /\ channel[n] # NoChannel /\ channel[n].status # "Closed" /\ ~channel[n].expired
    /\ channel' = [channel EXCEPT ![n].expired = TRUE]
    /\ UNCHANGED <<by_peer, escrowed, updates, payAt, inHand, payWriter, readers, strays>>

Begin(t) ==
    \/ \E c \in Capacity : OpenLooks(t, c)
    \/ \E a \in Amount : Pay(t, a) \/ PayPeerLooks(t, a)
    \/ \E u \in Update : Receive(t, u)
    \/ Confirm(t)
    \/ CloseMarks(t)

Continue(t) ==
    \/ OpenLocksFunds(t)
    \/ OpenInserts(t)
    \/ OpenIndexes(t)
    \/ PayPeerPays(t)
    \/ CloseUnindexes(t)

PaymentNext ==
    \/ \E t \in PayTask : Begin(t) \/ Continue(t)
    \/ \E n \in Node : Expire(n)

PaymentSpec == PaymentInit /\ [][PaymentNext]_paymentVars

\* The scheduler keeps polling a call that can go on.
PaymentFairSpec == PaymentSpec /\ \A t \in PayTask : WF_paymentVars(Continue(t))

-----------------------------------------------------------------------------
(* Properties. *)

\* A channel that is not closed is covered by what this node's wallet holds
\* in escrow, whatever openings raced (open_channel, mod.rs:303).
Funded ==
    \A n \in Node : channel[n] # NoChannel /\ channel[n].status # "Closed" =>
        channel[n].capacity <= escrowed[n]

\* Two ends that stand at one nonce see the same state from their two sides,
\* unless each of them signed one of its own there and the payments crossed:
\* however late, often and out of order updates arrive (the nonce check, mod.rs:222,
\* and the change of sides, mod.rs:239).  It says so while no
\* end took an update the other never signed, which nothing checks (the TODO of
\* mod.rs:412), and of first openings: a later one starts again at nonce 0 under the same id.
Mirrors(c, d) ==
    c.local_balance = d.remote_balance /\ c.remote_balance = d.local_balance

EndsAgree ==
    \A m, n \in Node :
        /\ m # n /\ strays = 0
        /\ channel[m].era = 1 /\ channel[n].era = 1
        /\ channel[m].nonce = channel[n].nonce /\ channel[m].nonce > 0
        => \/ Mirrors(channel[m], channel[n])
           \/ HasSigned(m, StateOf(channel[m])) /\ HasSigned(n, StateOf(channel[n]))

\* A node that signs two different states under one nonce, whatever arrives in
\* between, signs them for two openings of the channel: that much is left of the
\* "monotonically increasing nonce" (state.rs:14), which starts again at 0 when
\* open_channel inserts over a closed channel, or over one a racing call made.
OneStatePerNonce ==
    \A u, v \in updates :
        u.signer = v.signer /\ u.update.nonce = v.update.nonce /\ u # v => u.era # v.era

\* Whatever update arrives, from an end with another capacity or from nobody, an
\* end's balances add up to the capacity it locked (mod.rs:230) -- as u64 do, which
\* wrap in a release build, and as numbers while no end took a stray update.
BalancesAddUp ==
    \A n \in Node : channel[n] # NoChannel =>
        LET c == channel[n] IN
        /\ Plus(c.local_balance, c.remote_balance) = c.capacity
        /\ strays = 0 => c.local_balance + c.remote_balance = c.capacity

\* All of it, under every interleaving of the calls of the two managers.
ChannelsSound == Funded /\ EndsAgree /\ OneStatePerNonce /\ BalancesAddUp

\* A close that has begun ends: close_channel holds channels.write() while it
\* waits for by_peer.write(), pay_peer holds by_peer.read() while it waits
\* for channels.write() (mod.rs:396, 447).
CloseReturns == \A t \in PayTask : payAt[t] = "unindex" ~> payAt[t] = "idle"

=============================================================================
