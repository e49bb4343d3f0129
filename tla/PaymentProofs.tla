------------------------- MODULE PaymentProofs ---------------------------
(***************************************************************************)
(* Proofs about what nodes ask and pay each other.  PaymentChannel, for    *)
(* any number of tasks calling the two managers, any capacities and        *)
(* amounts, and any updates that arrive, whoever signed them or not.       *)
(* JobOffers, for any rates, loads and reputations, and any number of      *)
(* executions with any bids and funds.                                     *)
(***************************************************************************)
EXTENDS PaymentChannel, JobOffers, TotalsProofs, FiniteSetTheorems, TLAPS

\* What a wallet has put in escrow for channels is what it had.
Escrows == escrowed \in [Node -> Nat] /\ \A n \in Node : escrowed[n] <= Supply[n]

\* A task between its steps in open_channel or pay_peer holds what it was asked
\* for; the funds of one past create_escrow are locked.
InHandOK ==
    \A t \in PayTask :
        /\ payAt[t] \in {"lock_funds", "insert"} => inHand[t] \in Capacity
        /\ payAt[t] = "insert" => inHand[t] <= escrowed[NodeOf[t]]
        /\ payAt[t] = "paying" => inHand[t] \in Amount

\* What a node has signed is of its present opening or an older one and, of the
\* present one, of an earlier nonce or the state the node stands on.
Behind(s) ==
    LET c == channel[s.signer] IN
    /\ s.era <= Era(s.signer)
    /\ s.era = Era(s.signer) =>
          s.update.nonce < c.nonce \/ s.update = StateOf(c)
SignaturesBehind == \A s \in updates : Behind(s)

\* While nothing strayed, an end past its opening stands on a state it signed
\* or on the mirror of one the other end signed, and what is signed fits u64.
SeenBy(n, c) ==
    \/ HasSigned(n, StateOf(c))
    \/ \E s \in updates : /\ s.signer # n /\ s.update.nonce = c.nonce
                          /\ s.update.local_balance = c.remote_balance
                          /\ s.update.remote_balance = c.local_balance
Accounted ==
    strays = 0 => \A n \in Node : channel[n] # NoChannel /\ channel[n].nonce > 0 =>
        SeenBy(n, channel[n])
Fits ==
    strays = 0 => \A s \in updates : s.update.local_balance + s.update.remote_balance < U64

Money == SignaturesBehind /\ Accounted /\ Fits /\ Funded /\ OneStatePerNonce /\ BalancesAddUp

IInv == PaymentTypeOK /\ InHandOK /\ Money

-----------------------------------------------------------------------------
(* One end of the channel. *)

LEMMA OpenChannel ==
    ASSUME NEW c \in Channel \cup {NoChannel}
    PROVE  /\ c # NoChannel => c \in Channel
           /\ Operational(c) => c \in Channel
           /\ c.era \in 0..MaxOpens
           /\ c = NoChannel <=> c.era = 0
BY PaymentAssumption DEF NoChannel, Channel, Operational

LEMMA NewChannelType ==
    ASSUME NEW k \in Capacity, NEW era \in 1..MaxOpens
    PROVE  NewChannel(k, era) \in Channel
BY PaymentAssumption DEF NewChannel, Channel, Balance

LEMMA PlusLaws ==
    ASSUME NEW l \in Balance, NEW r \in Balance
    PROVE  /\ Plus(l, r) \in Balance /\ Plus(l, r) = Plus(r, l)
           /\ Plus(l, 0) = l
           /\ \A a \in Nat : a <= l => Plus(l - a, Plus(r, a)) = Plus(l, r)
           /\ l + r < U64 => Plus(l, r) = l + r
BY PaymentAssumption DEF Plus, Balance

LEMMA PaidType ==
    ASSUME NEW c \in Channel, NEW a \in Nat, a <= c.local_balance, c.nonce < MaxNonce
    PROVE  /\ Paid(c, a) \in Channel
           /\ Paid(c, a).era = c.era /\ Paid(c, a).nonce = c.nonce + 1
           /\ Paid(c, a).capacity = c.capacity /\ Paid(c, a).status = c.status
           /\ Paid(c, a).local_balance = c.local_balance - a
           /\ Paid(c, a).remote_balance = Plus(c.remote_balance, a)
<1>1. c.local_balance \in Balance /\ c.remote_balance \in Balance /\ c.nonce \in 0..MaxNonce
  BY DEF Channel
<1>2. c.local_balance - a \in Balance /\ a \in Balance /\ c.nonce + 1 \in 0..MaxNonce
  BY <1>1, PaymentAssumption DEF Balance
<1>3. Plus(c.remote_balance, a) \in Balance
  BY <1>1, <1>2, PlusLaws
<1>4. Paid(c, a) \in Channel
  BY <1>2, <1>3, Zenon DEF Paid, Channel
<1>5. QED
  BY <1>4 DEF Paid, Channel

LEMMA ReceivedType ==
    ASSUME NEW c \in Channel, NEW u \in Update
    PROVE  /\ Received(c, u) \in Channel
           /\ Received(c, u).era = c.era /\ Received(c, u).nonce = u.nonce
           /\ Received(c, u).capacity = c.capacity /\ Received(c, u).status = c.status
           /\ Received(c, u).local_balance = u.remote_balance
           /\ Received(c, u).remote_balance = u.local_balance
<1>1. u.remote_balance \in Balance /\ u.local_balance \in Balance /\ u.nonce \in 0..MaxNonce
  BY DEF Update
<1>2. Received(c, u) \in Channel
  BY <1>1, Zenon DEF Received, Channel
<1>3. QED
  BY <1>2 DEF Received, Channel

LEMMA SignedType ==
    ASSUME NEW n \in Node, NEW c \in Channel
    PROVE  /\ Signed(n, c) \in Signature
           /\ Signed(n, c).signer = n /\ Signed(n, c).era = c.era
           /\ Signed(n, c).update = StateOf(c) /\ StateOf(c).nonce = c.nonce
           /\ StateOf(c).local_balance = c.local_balance
           /\ StateOf(c).remote_balance = c.remote_balance
BY DEF Signed, StateOf, Signature, Update, Channel

\* What the fields of a signature and of a channel are.
LEMMA Parts ==
    /\ \A s \in Signature : /\ s.signer \in Node /\ s.era \in Nat /\ s.update \in Update
                             /\ s.update.nonce \in Nat
                             /\ s.update.local_balance \in Balance
                             /\ s.update.remote_balance \in Balance
    /\ \A c \in Channel : /\ c.era \in Nat /\ c.capacity \in Balance /\ c.nonce \in Nat
                           /\ c.local_balance \in Balance /\ c.remote_balance \in Balance
    /\ \A k \in Balance : k \in Nat
<1>1. \A k \in 0..MaxNonce : k \in Nat
  BY PaymentAssumption
<1>2. (\A k \in 1..MaxOpens : k \in Nat) /\ \A k \in Capacity : k \in Balance
  BY PaymentAssumption DEF Balance
<1>3. \A k \in Balance : k \in Nat
  BY PaymentAssumption DEF Balance
<1>4. \A u \in Update : /\ u.nonce \in Nat /\ u.local_balance \in Balance
                        /\ u.remote_balance \in Balance
  BY <1>1 DEF Update
<1>5. \A s \in Signature : s.signer \in Node /\ s.era \in Nat /\ s.update \in Update
  BY <1>2 DEF Signature
<1>6. \A c \in Channel : /\ c.era \in Nat /\ c.capacity \in Balance /\ c.nonce \in Nat
                         /\ c.local_balance \in Balance /\ c.remote_balance \in Balance
  BY <1>1, <1>2 DEF Channel
<1>7. QED
  BY <1>3, <1>4, <1>5, <1>6

-----------------------------------------------------------------------------
(* The invariant is inductive. *)

LEMMA PaymentInitIInv == PaymentInit => IInv
<1> SUFFICES ASSUME PaymentInit PROVE IInv
  OBVIOUS
<1>1. PaymentTypeOK
  BY PaymentAssumption DEF PaymentInit, PaymentTypeOK, Stage
<1>2. InHandOK /\ Money
  BY DEF PaymentInit, InHandOK, Money, SignaturesBehind, Accounted, Fits, Funded,
         OneStatePerNonce, BalancesAddUp
<1>3. QED
  BY <1>1, <1>2 DEF IInv

\* Steps that leave the channels, the updates and the escrows alone.
LEMMA TaskOnlyIInv ==
    ASSUME IInv, PaymentTypeOK', InHandOK', UNCHANGED <<channel, updates, escrowed, strays>>
    PROVE  IInv'
BY DEF IInv, Money, SignaturesBehind, Behind, Accounted, SeenBy, HasSigned, StateOf, Fits,
       Funded, OneStatePerNonce, BalancesAddUp, Era

\* Steps that change one end's status, keeping what it says of the money.
LEMMA StatusIInv ==
    ASSUME IInv, NEW n \in Node, channel[n] # NoChannel, NEW c \in Channel,
           c.era = channel[n].era, c.capacity = channel[n].capacity, c.nonce = channel[n].nonce,
           c.local_balance = channel[n].local_balance,
           c.remote_balance = channel[n].remote_balance,
           c.status # "Closed" => channel[n].status # "Closed",
           channel' = [channel EXCEPT ![n] = c],
           PaymentTypeOK', InHandOK', UNCHANGED <<updates, escrowed, strays>>
    PROVE  IInv'
<1>1. channel \in [Node -> Channel \cup {NoChannel}] /\ updates \subseteq Signature
  BY DEF IInv, PaymentTypeOK
<1>2. /\ channel'[n] = c /\ \A k \in Node : k # n => channel'[k] = channel[k]
      /\ \A s \in updates : s.signer \in Node
  BY <1>1, Parts
<1>3. StateOf(c) = StateOf(channel[n])
  BY DEF StateOf
<1>4. /\ \A k \in Node : /\ StateOf(channel'[k]) = StateOf(channel[k])
                         /\ channel'[k].era = channel[k].era
                         /\ channel'[k].nonce = channel[k].nonce
                         /\ channel'[k].local_balance = channel[k].local_balance
                         /\ channel'[k].remote_balance = channel[k].remote_balance
                         /\ channel'[k].capacity = channel[k].capacity
      /\ \A k \in Node : channel'[k] # NoChannel => channel[k] # NoChannel
  BY <1>2, <1>3
<1>5. SignaturesBehind'
  BY <1>2, <1>4 DEF IInv, Money, SignaturesBehind, Behind, Era
<1>6. Funded' /\ OneStatePerNonce' /\ BalancesAddUp' /\ Fits'
  BY <1>2, <1>4 DEF IInv, Money, Funded, OneStatePerNonce, BalancesAddUp, Fits
<1>7. Accounted'
  BY <1>4 DEF IInv, Money, Accounted, SeenBy, HasSigned
<1>8. QED
  BY <1>5, <1>6, <1>7 DEF IInv, Money

\* Steps that move one task and leave everything else but the locks alone.
LEMMA MovesIInv ==
    ASSUME IInv, NEW t \in PayTask, NEW s \in Stage, NEW h \in Nat,
           payAt' = [payAt EXCEPT ![t] = s], inHand' = [inHand EXCEPT ![t] = h],
           s \in {"lock_funds", "insert"} => h \in Capacity,
           s = "insert" => h <= escrowed'[NodeOf[t]],
           s = "paying" => h \in Amount,
           Escrows',
           \A n \in Node : escrowed[n] <= escrowed'[n],
           by_peer' \in [Node -> BOOLEAN], payWriter' \in [Node -> PayTask \cup {NoHolder}],
           readers' \in [Node -> SUBSET PayTask], UNCHANGED strays,
           channel' \in [Node -> Channel \cup {NoChannel}], updates' \subseteq Signature
    PROVE  PaymentTypeOK' /\ InHandOK'
<1>1. PaymentTypeOK'
  BY DEF IInv, PaymentTypeOK, Escrows
<1>2. InHandOK'
  <2> SUFFICES ASSUME NEW k \in PayTask
               PROVE  /\ payAt'[k] \in {"lock_funds", "insert"} => inHand'[k] \in Capacity
                      /\ payAt'[k] = "insert" => inHand'[k] <= escrowed'[NodeOf[k]]
                      /\ payAt'[k] = "paying" => inHand'[k] \in Amount
    BY DEF InHandOK
  <2>1. CASE k = t
    BY <2>1 DEF IInv, PaymentTypeOK
  <2>2. CASE k # t
    <3>1. payAt'[k] = payAt[k] /\ inHand'[k] = inHand[k]
      BY <2>2 DEF IInv, PaymentTypeOK
    <3>2. NodeOf[k] \in Node /\ inHand[k] \in Nat
      BY PaymentAssumption DEF IInv, PaymentTypeOK
    <3>3. escrowed[NodeOf[k]] \in Nat /\ escrowed'[NodeOf[k]] \in Nat
      BY <3>2 DEF IInv, PaymentTypeOK, Escrows
    <3>4. payAt[k] = "insert" => inHand[k] <= escrowed'[NodeOf[k]]
      BY <3>2, <3>3 DEF IInv, InHandOK
    <3>5. QED
      BY <3>1, <3>4 DEF IInv, InHandOK
  <2>3. QED
    BY <2>1, <2>2
<1>3. QED
  BY <1>1, <1>2

\* The same when the call returns.
LEMMA ReturnsIInv ==
    ASSUME IInv, NEW t \in PayTask, Returns(t), UNCHANGED escrowed,
           by_peer' \in [Node -> BOOLEAN], payWriter' \in [Node -> PayTask \cup {NoHolder}],
           readers' \in [Node -> SUBSET PayTask], UNCHANGED strays,
           channel' \in [Node -> Channel \cup {NoChannel}], updates' \subseteq Signature
    PROVE  PaymentTypeOK' /\ InHandOK'
<1>1. \A n \in Node : escrowed[n] <= escrowed'[n]
  BY PaymentAssumption DEF IInv, PaymentTypeOK
<1>2. "idle" \in Stage /\ 0 \in Nat /\ Escrows'
  BY DEF Stage, IInv, PaymentTypeOK, Escrows
<1>3. payAt' = [payAt EXCEPT ![t] = "idle"] /\ inHand' = [inHand EXCEPT ![t] = 0]
  BY DEF Returns, Starts
<1>4. QED
  BY <1>1, <1>2, <1>3, MovesIInv

LEMMA OpenLooksIInv ==
    ASSUME IInv, NEW t \in PayTask, NEW k \in Capacity, OpenLooks(t, k)
    PROVE  IInv'
<1>1. /\ payAt' = [payAt EXCEPT ![t] = "lock_funds"] /\ inHand' = [inHand EXCEPT ![t] = k]
      /\ UNCHANGED <<channel, by_peer, escrowed, updates, payWriter, readers, strays>>
  BY DEF OpenLooks, Starts
<1>2. "lock_funds" \in Stage /\ k \in Nat
  BY PaymentAssumption DEF Stage
<1>3. \A n \in Node : escrowed[n] <= escrowed'[n]
  BY <1>1, PaymentAssumption DEF IInv, PaymentTypeOK
<1>4. PaymentTypeOK' /\ InHandOK'
  <2>1. /\ Escrows' /\ by_peer' \in [Node -> BOOLEAN]
        /\ payWriter' \in [Node -> PayTask \cup {NoHolder}] /\ readers' \in [Node -> SUBSET PayTask]
        /\ channel' \in [Node -> Channel \cup {NoChannel}] /\ updates' \subseteq Signature
    BY <1>1 DEF IInv, PaymentTypeOK, Escrows
  <2>2. QED
    BY <1>1, <1>2, <1>3, <2>1, MovesIInv
<1>5. QED
  BY <1>1, <1>4, TaskOnlyIInv

LEMMA OpenLocksFundsIInv ==
    ASSUME IInv, NEW t \in PayTask, OpenLocksFunds(t)
    PROVE  IInv'
<1> DEFINE n == NodeOf[t]
<1>1. /\ n \in Node /\ payAt[t] = "lock_funds" /\ inHand[t] \in Capacity /\ inHand[t] \in Nat
      /\ Escrows /\ escrowed[n] \in Nat
      /\ UNCHANGED <<channel, by_peer, updates, payWriter, readers, strays>>
  BY PaymentAssumption, Parts DEF OpenLocksFunds, IInv, PaymentTypeOK, InHandOK, Escrows
<1>2. /\ by_peer' \in [Node -> BOOLEAN]
      /\ payWriter' \in [Node -> PayTask \cup {NoHolder}] /\ readers' \in [Node -> SUBSET PayTask]
      /\ channel' \in [Node -> Channel \cup {NoChannel}] /\ updates' \subseteq Signature
  BY <1>1 DEF IInv, PaymentTypeOK
<1>3. CASE Returns(t) /\ UNCHANGED escrowed
  <2>1. PaymentTypeOK' /\ InHandOK'
    BY <1>1, <1>2, <1>3, ReturnsIInv
  <2>2. QED
    BY <1>1, <1>3, <2>1, TaskOnlyIInv
<1>4. CASE /\ escrowed[n] + inHand[t] <= Supply[n]
           /\ escrowed' = [escrowed EXCEPT ![n] = @ + inHand[t]]
           /\ Goes(t, "insert") \/ Returns(t)
  <2>1. /\ Escrows' /\ escrowed'[n] = escrowed[n] + inHand[t]
        /\ \A m \in Node : escrowed[m] <= escrowed'[m]
    BY <1>1, <1>4 DEF Escrows
  <2>2. PaymentTypeOK' /\ InHandOK'
    <3>1. inHand[t] <= escrowed'[NodeOf[t]]
      BY <1>1, <2>1
    <3>2. "idle" \in Stage /\ "insert" \in Stage /\ 0 \in Nat
      BY DEF Stage
    <3>3. CASE Goes(t, "insert")
      <4>1. payAt' = [payAt EXCEPT ![t] = "insert"] /\ inHand' = [inHand EXCEPT ![t] = inHand[t]]
        BY <3>3 DEF Goes, IInv, PaymentTypeOK
      <4>2. QED
        BY <1>1, <1>2, <2>1, <3>1, <3>2, <4>1, MovesIInv
    <3>4. CASE Returns(t)
      <4>1. payAt' = [payAt EXCEPT ![t] = "idle"] /\ inHand' = [inHand EXCEPT ![t] = 0]
        BY <3>4 DEF Returns, Starts
      <4>2. QED
        BY <1>1, <1>2, <2>1, <3>2, <4>1, MovesIInv
    <3>5. QED
      BY <1>4, <3>3, <3>4
  <2>3. Funded'
    <3> SUFFICES ASSUME NEW m \in Node, channel[m] # NoChannel, channel[m].status # "Closed"
                 PROVE  channel[m].capacity <= escrowed'[m]
      BY <1>1 DEF Funded
    <3>1. channel[m].capacity <= escrowed[m] /\ channel[m] \in Channel
      BY DEF IInv, Money, Funded, PaymentTypeOK
    <3>2. channel[m].capacity \in Nat
      BY <3>1, Parts
    <3>3. escrowed[m] \in Nat /\ escrowed'[m] \in Nat /\ escrowed[m] <= escrowed'[m]
      BY <1>1, <2>1 DEF Escrows
    <3>4. QED
      BY <3>1, <3>2, <3>3
  <2>4. SignaturesBehind' /\ Accounted' /\ Fits' /\ OneStatePerNonce' /\ BalancesAddUp'
    BY <1>1 DEF IInv, Money, SignaturesBehind, Behind, Accounted, SeenBy, HasSigned, StateOf,
                Fits, OneStatePerNonce, BalancesAddUp, Era
  <2>5. QED
    BY <2>2, <2>3, <2>4 DEF IInv, Money
<1>5. QED
  BY <1>3, <1>4 DEF OpenLocksFunds

\* A new opening stands on its opening balances, under an era nobody has signed for.
LEMMA OpenInsertsIInv ==
    ASSUME IInv, NEW t \in PayTask, OpenInserts(t)
    PROVE  IInv'
<1> DEFINE n == NodeOf[t]
<1>1. /\ n \in Node /\ payAt[t] = "insert" /\ inHand[t] \in Capacity /\ inHand[t] <= escrowed[n]
      /\ Era(n) < MaxOpens
      /\ channel' = [channel EXCEPT ![n] = NewChannel(inHand[t], Era(n) + 1)]
      /\ payAt' = [payAt EXCEPT ![t] = "index"]
      /\ UNCHANGED <<by_peer, escrowed, updates, inHand, payWriter, readers, strays>>
  BY PaymentAssumption DEF OpenInserts, Goes, IInv, InHandOK
<1>2. channel \in [Node -> Channel \cup {NoChannel}] /\ updates \subseteq Signature
  BY DEF IInv, PaymentTypeOK
<1>3. Era(n) \in 0..MaxOpens
  BY <1>1, <1>2, OpenChannel DEF Era
<1> DEFINE c == NewChannel(inHand[t], Era(n) + 1)
<1>4. /\ c \in Channel /\ c.era = Era(n) + 1 /\ c.capacity = inHand[t]
      /\ c.local_balance = inHand[t] /\ c.remote_balance = 0 /\ c.nonce = 0
      /\ c # NoChannel
  <2>1. Era(n) + 1 \in 1..MaxOpens
    BY <1>1, <1>3, PaymentAssumption
  <2>2. c \in Channel
    BY <1>1, <2>1, NewChannelType
  <2>3. /\ c.era = Era(n) + 1 /\ c.capacity = inHand[t] /\ c.local_balance = inHand[t]
        /\ c.remote_balance = 0 /\ c.nonce = 0
    BY DEF NewChannel
  <2>4. c # NoChannel
    BY <1>3, <2>3 DEF NoChannel
  <2>5. QED
    BY <2>2, <2>3, <2>4
<1>5. PICK d : d = c
  OBVIOUS
<1>6. /\ channel' \in [Node -> Channel \cup {NoChannel}] /\ channel'[n] = d
      /\ \A m \in Node : m # n => channel'[m] = channel[m]
  BY <1>1, <1>2, <1>4, <1>5
<1>7. PaymentTypeOK' /\ InHandOK'
  <2>1. inHand' = [inHand EXCEPT ![t] = inHand[t]] /\ inHand[t] \in Nat /\ "index" \in Stage
    BY <1>1 DEF IInv, PaymentTypeOK, Stage
  <2>2. /\ by_peer' \in [Node -> BOOLEAN] /\ Escrows'
        /\ payWriter' \in [Node -> PayTask \cup {NoHolder}] /\ readers' \in [Node -> SUBSET PayTask]
        /\ updates' \subseteq Signature
    BY <1>1 DEF IInv, PaymentTypeOK, Escrows
  <2>3. \A m \in Node : escrowed[m] <= escrowed'[m]
    BY <1>1, PaymentAssumption DEF IInv, PaymentTypeOK
  <2>4. QED
    BY <1>1, <1>6, <2>1, <2>2, <2>3, MovesIInv
<1>8. SignaturesBehind'
  <2> SUFFICES ASSUME NEW s \in updates PROVE Behind(s)'
    BY <1>1 DEF SignaturesBehind
  <2>1. Behind(s) /\ s.signer \in Node /\ s.era \in Nat
    BY <1>2, Parts DEF IInv, Money, SignaturesBehind
  <2>2. CASE s.signer = n
    BY <1>3, <1>4, <1>5, <1>6, <2>1, <2>2 DEF Behind, Era
  <2>3. CASE s.signer # n
    BY <1>6, <2>1, <2>3 DEF Behind, Era
  <2>4. QED
    BY <2>2, <2>3
<1>9. Funded'
  BY <1>1, <1>4, <1>5, <1>6 DEF IInv, Money, Funded
<1>10. BalancesAddUp'
  <2>1. /\ Plus(d.local_balance, d.remote_balance) = d.capacity
        /\ d.local_balance + d.remote_balance = d.capacity
    <3>1. inHand[t] \in Balance /\ inHand[t] \in Nat /\ 0 \in Balance
      <4>1. inHand[t] \in Balance
        BY <1>1, PaymentAssumption DEF Balance
      <4>2. QED
        BY <4>1, PaymentAssumption DEF Balance
    <3>2. QED
      BY <1>4, <1>5, <3>1, PlusLaws
  <2>2. QED
    BY <1>1, <1>6, <2>1 DEF IInv, Money, BalancesAddUp
<1>11. Accounted'
  <2> SUFFICES ASSUME strays = 0, NEW m \in Node, channel'[m] # NoChannel, channel'[m].nonce > 0
               PROVE  SeenBy(m, channel[m])'
    BY <1>1 DEF Accounted
  <2>1. m # n
    BY <1>4, <1>5, <1>6
  <2>2. channel'[m] = channel[m] /\ SeenBy(m, channel[m])
    BY <1>6, <2>1 DEF IInv, Money, Accounted
  <2>3. QED
    BY <1>1, <2>2 DEF SeenBy, HasSigned, StateOf
<1>12. Fits' /\ OneStatePerNonce'
  BY <1>1 DEF IInv, Money, Fits, OneStatePerNonce
<1>13. QED
  BY <1>7, <1>8, <1>9, <1>10, <1>11, <1>12 DEF IInv, Money

LEMMA OpenIndexesIInv ==
    ASSUME IInv, NEW t \in PayTask, OpenIndexes(t)
    PROVE  IInv'
<1>1. Returns(t) /\ UNCHANGED <<channel, escrowed, updates, payWriter, readers, strays>>
  BY DEF OpenIndexes
<1>2. /\ by_peer' \in [Node -> BOOLEAN]
      /\ payWriter' \in [Node -> PayTask \cup {NoHolder}] /\ readers' \in [Node -> SUBSET PayTask]
      /\ channel' \in [Node -> Channel \cup {NoChannel}] /\ updates' \subseteq Signature
  BY DEF OpenIndexes, IInv, PaymentTypeOK
<1>3. PaymentTypeOK' /\ InHandOK'
  BY <1>1, <1>2, ReturnsIInv
<1>4. QED
  BY <1>1, <1>3, TaskOnlyIInv

LEMMA CloseUnindexesIInv ==
    ASSUME IInv, NEW t \in PayTask, CloseUnindexes(t)
    PROVE  IInv'
<1>1. Returns(t) /\ UNCHANGED <<channel, escrowed, updates, readers, strays>>
  BY DEF CloseUnindexes
<1>2. /\ by_peer' \in [Node -> BOOLEAN]
      /\ payWriter' \in [Node -> PayTask \cup {NoHolder}] /\ readers' \in [Node -> SUBSET PayTask]
      /\ channel' \in [Node -> Channel \cup {NoChannel}] /\ updates' \subseteq Signature
  BY DEF CloseUnindexes, IInv, PaymentTypeOK
<1>3. PaymentTypeOK' /\ InHandOK'
  BY <1>1, <1>2, ReturnsIInv
<1>4. QED
  BY <1>1, <1>3, TaskOnlyIInv

LEMMA PayPeerLooksIInv ==
    ASSUME IInv, NEW t \in PayTask, NEW a \in Amount, PayPeerLooks(t, a)
    PROVE  IInv'
<1>1. /\ payAt' = [payAt EXCEPT ![t] = "paying"] /\ inHand' = [inHand EXCEPT ![t] = a]
      /\ UNCHANGED <<channel, by_peer, escrowed, updates, payWriter, strays>>
  BY DEF PayPeerLooks, Starts
<1>2. "paying" \in Stage /\ a \in Nat
  BY PaymentAssumption DEF Stage
<1>3. \A n \in Node : escrowed[n] <= escrowed'[n]
  BY <1>1, PaymentAssumption DEF IInv, PaymentTypeOK
<1>4. PaymentTypeOK' /\ InHandOK'
  <2>1. /\ Escrows' /\ by_peer' \in [Node -> BOOLEAN]
        /\ payWriter' \in [Node -> PayTask \cup {NoHolder}]
        /\ channel' \in [Node -> Channel \cup {NoChannel}] /\ updates' \subseteq Signature
    BY <1>1 DEF IInv, PaymentTypeOK, Escrows
  <2>2. readers' \in [Node -> SUBSET PayTask]
    BY PaymentAssumption DEF PayPeerLooks, IInv, PaymentTypeOK
  <2>3. QED
    BY <1>1, <1>2, <1>3, <2>1, <2>2, MovesIInv
<1>5. QED
  BY <1>1, <1>4, TaskOnlyIInv

\* A task that keeps its stage, in a step that changes neither locks nor escrows.
LEMMA StaysIInv ==
    ASSUME IInv, UNCHANGED <<by_peer, escrowed, payAt, inHand, payWriter, readers>>,
           strays' \in 0..MaxStray,
           channel' \in [Node -> Channel \cup {NoChannel}], updates' \subseteq Signature
    PROVE  PaymentTypeOK' /\ InHandOK'
BY DEF IInv, PaymentTypeOK, InHandOK

LEMMA ConfirmIInv ==
    ASSUME IInv, NEW t \in PayTask, Confirm(t)
    PROVE  IInv'
<1> DEFINE n == NodeOf[t]  c == [channel[n] EXCEPT !.status = "Open"]
<1>1. /\ n \in Node /\ channel[n] # NoChannel /\ channel[n].status = "Opening"
      /\ channel' = [channel EXCEPT ![n] = c]
      /\ UNCHANGED <<by_peer, escrowed, updates, payAt, inHand, payWriter, readers, strays>>
  BY PaymentAssumption DEF Confirm
<1>2. channel \in [Node -> Channel \cup {NoChannel}] /\ channel[n] \in Channel
  BY <1>1, OpenChannel DEF IInv, PaymentTypeOK
<1>3. /\ c \in Channel /\ c.era = channel[n].era /\ c.capacity = channel[n].capacity
      /\ c.nonce = channel[n].nonce /\ c.local_balance = channel[n].local_balance
      /\ c.remote_balance = channel[n].remote_balance
  BY <1>2 DEF Channel
<1>4. channel' \in [Node -> Channel \cup {NoChannel}] /\ updates' \subseteq Signature
  BY <1>1, <1>2, <1>3 DEF IInv, PaymentTypeOK
<1>5. PaymentTypeOK' /\ InHandOK'
  BY <1>1, <1>4, StaysIInv DEF IInv, PaymentTypeOK
<1>6. channel[n].status # "Closed"
  BY <1>1
<1>7. QED
  BY <1>1, <1>3, <1>5, <1>6, StatusIInv

LEMMA ExpireIInv ==
    ASSUME IInv, NEW n \in Node, Expire(n)
    PROVE  IInv'
<1> DEFINE c == [channel[n] EXCEPT !.expired = TRUE]
<1>1. /\ channel[n] # NoChannel /\ channel' = [channel EXCEPT ![n] = c]
      /\ UNCHANGED <<by_peer, escrowed, updates, payAt, inHand, payWriter, readers, strays>>
  BY DEF Expire
<1>2. channel \in [Node -> Channel \cup {NoChannel}] /\ channel[n] \in Channel
  BY <1>1, OpenChannel DEF IInv, PaymentTypeOK
<1>3. /\ c \in Channel /\ c.era = channel[n].era /\ c.capacity = channel[n].capacity
      /\ c.nonce = channel[n].nonce /\ c.local_balance = channel[n].local_balance
      /\ c.remote_balance = channel[n].remote_balance /\ c.status = channel[n].status
  BY <1>2 DEF Channel
<1>4. channel' \in [Node -> Channel \cup {NoChannel}] /\ updates' \subseteq Signature
  BY <1>1, <1>2, <1>3 DEF IInv, PaymentTypeOK
<1>5. PaymentTypeOK' /\ InHandOK'
  BY <1>1, <1>4, StaysIInv DEF IInv, PaymentTypeOK
<1>6. QED
  BY <1>1, <1>3, <1>5, StatusIInv

LEMMA CloseMarksIInv ==
    ASSUME IInv, NEW t \in PayTask, CloseMarks(t)
    PROVE  IInv'
<1> DEFINE n == NodeOf[t]  c == [channel[n] EXCEPT !.status = "Closed"]
<1>1. /\ n \in Node /\ channel[n] # NoChannel
      /\ channel' = [channel EXCEPT ![n] = c]
      /\ payAt' = [payAt EXCEPT ![t] = "unindex"] /\ inHand' = [inHand EXCEPT ![t] = 0]
      /\ payWriter' = [payWriter EXCEPT ![n] = t]
      /\ UNCHANGED <<by_peer, escrowed, updates, readers, strays>>
  BY PaymentAssumption DEF CloseMarks, Starts
<1>2. channel \in [Node -> Channel \cup {NoChannel}] /\ channel[n] \in Channel
  BY <1>1, OpenChannel DEF IInv, PaymentTypeOK
<1>3. /\ c \in Channel /\ c.era = channel[n].era /\ c.capacity = channel[n].capacity
      /\ c.nonce = channel[n].nonce /\ c.local_balance = channel[n].local_balance
      /\ c.remote_balance = channel[n].remote_balance /\ c.status = "Closed"
  BY <1>2 DEF Channel
<1>4. PaymentTypeOK' /\ InHandOK'
  <2>1. /\ Escrows' /\ by_peer' \in [Node -> BOOLEAN]
        /\ payWriter' \in [Node -> PayTask \cup {NoHolder}] /\ readers' \in [Node -> SUBSET PayTask]
        /\ channel' \in [Node -> Channel \cup {NoChannel}] /\ updates' \subseteq Signature
    BY <1>1, <1>2, <1>3 DEF IInv, PaymentTypeOK, Escrows
  <2>2. \A m \in Node : escrowed[m] <= escrowed'[m]
    BY <1>1, PaymentAssumption DEF IInv, PaymentTypeOK
  <2>3. "unindex" \in Stage /\ 0 \in Nat
    BY DEF Stage
  <2>4. QED
    BY <1>1, <2>1, <2>2, <2>3, MovesIInv
<1>5. QED
  BY <1>1, <1>3, <1>4, StatusIInv

\* A payment, by its id or by its peer, keeps all that is said of the money.
LEMMA MakePaymentKeeps ==
    ASSUME IInv, NEW n \in Node, NEW a \in Nat, MakePayment(n, a), UNCHANGED <<escrowed, strays>>
    PROVE  /\ channel' \in [Node -> Channel \cup {NoChannel}] /\ updates' \subseteq Signature
           /\ Money'
<1>1. channel \in [Node -> Channel \cup {NoChannel}] /\ updates \subseteq Signature
  BY DEF IInv, PaymentTypeOK
<1>2. /\ channel[n] \in Channel /\ channel[n] # NoChannel /\ a <= channel[n].local_balance
      /\ channel[n].status = "Open" /\ channel[n].nonce < MaxNonce
  BY <1>1, OpenChannel DEF MakePayment, CanPay, Operational
<1>3. PICK c \in Channel :
        /\ c = Paid(channel[n], a)
        /\ c.era = channel[n].era /\ c.nonce = channel[n].nonce + 1
        /\ c.capacity = channel[n].capacity /\ c.status = channel[n].status
        /\ c.local_balance = channel[n].local_balance - a
        /\ c.remote_balance = Plus(channel[n].remote_balance, a)
  BY <1>2, Parts, PaidType
<1>4. /\ channel' = [channel EXCEPT ![n] = c] /\ channel'[n] = c
      /\ channel' \in [Node -> Channel \cup {NoChannel}]
      /\ \A m \in Node : m # n => channel'[m] = channel[m]
  <2>1. channel' = [channel EXCEPT ![n] = Paid(channel[n], a)]
    BY DEF MakePayment
  <2>2. channel' = [channel EXCEPT ![n] = c]
    BY <1>3, <2>1
  <2>3. QED
    BY <1>1, <2>2
<1>5. PICK x : x = Signed(n, c)
  OBVIOUS
<1>6. updates' = updates \cup {x} /\ x \in Signature
  BY <1>4, <1>5, SignedType DEF MakePayment
<1>7. /\ x.signer = n /\ x.era = c.era /\ x.update = StateOf(c) /\ x.update.nonce = c.nonce
      /\ x.update.local_balance = c.local_balance /\ x.update.remote_balance = c.remote_balance
  BY <1>5, SignedType
<1>8. /\ c.nonce \in Nat /\ channel[n].nonce \in Nat /\ c.era \in Nat
      /\ channel[n].local_balance \in Balance /\ channel[n].remote_balance \in Balance
      /\ channel[n].local_balance \in Nat /\ channel[n].remote_balance \in Nat
      /\ channel[n].capacity \in Balance /\ channel[n].capacity \in Nat
  BY <1>2, Parts
<1>9. \A s \in updates : s.signer = n /\ s.era = c.era => s.update.nonce < c.nonce
  <2> SUFFICES ASSUME NEW s \in updates, s.signer = n, s.era = c.era
               PROVE  s.update.nonce < c.nonce
    OBVIOUS
  <2>1. s.update.nonce < channel[n].nonce \/ s.update = StateOf(channel[n])
    BY <1>3 DEF IInv, Money, SignaturesBehind, Behind, Era
  <2>2. StateOf(channel[n]).nonce = channel[n].nonce
    BY <1>2, SignedType
  <2>3. s.update.nonce <= channel[n].nonce /\ s.update.nonce \in Nat
    BY <1>1, <1>8, <2>1, <2>2, Parts
  <2>4. QED
    BY <1>3, <1>8, <2>3
<1>10. SignaturesBehind'
  <2> SUFFICES ASSUME NEW s \in updates' PROVE Behind(s)'
    BY DEF SignaturesBehind
  <2>1. CASE s = x
    BY <1>4, <1>7, <1>8, <2>1 DEF Behind, Era, StateOf
  <2>2. CASE s \in updates
    <3>1. s.signer \in Node /\ Behind(s)
      BY <1>1, <2>2, Parts DEF IInv, Money, SignaturesBehind
    <3>2. CASE s.signer = n
      BY <1>3, <1>4, <1>9, <2>2, <3>1, <3>2 DEF Behind, Era
    <3>3. CASE s.signer # n
      BY <1>4, <3>1, <3>3 DEF Behind, Era, StateOf
    <3>4. QED
      BY <3>2, <3>3
  <2>3. QED
    BY <1>6, <2>1, <2>2
<1>11. Funded'
  BY <1>2, <1>3, <1>4 DEF IInv, Money, Funded
<1>12. /\ Plus(c.local_balance, c.remote_balance) = c.capacity
       /\ strays = 0 => c.local_balance + c.remote_balance = c.capacity /\ c.capacity < U64
  <2>1. /\ Plus(channel[n].local_balance, channel[n].remote_balance) = channel[n].capacity
        /\ strays = 0 => channel[n].local_balance + channel[n].remote_balance = channel[n].capacity
    BY <1>2 DEF IInv, Money, BalancesAddUp
  <2>2. Plus(c.local_balance, c.remote_balance) = c.capacity
    BY <1>2, <1>3, <1>8, <2>1, PlusLaws
  <2>3. a <= channel[n].local_balance /\ channel[n].capacity < U64
    BY <1>2, <1>8, PaymentAssumption DEF Balance
  <2>4. ASSUME strays = 0 PROVE c.remote_balance = channel[n].remote_balance + a
    <3>1. channel[n].remote_balance + a < U64
      BY <1>8, <2>1, <2>3, <2>4, PaymentAssumption
    <3>2. QED
      BY <1>3, <3>1 DEF Plus
  <2>5. QED
    BY <1>3, <1>8, <2>1, <2>2, <2>3, <2>4
<1>13. BalancesAddUp'
  BY <1>4, <1>12 DEF IInv, Money, BalancesAddUp
<1>14. Fits'
  BY <1>6, <1>7, <1>12 DEF IInv, Money, Fits
<1>15. Accounted'
  <2> SUFFICES ASSUME strays = 0, NEW m \in Node, channel'[m] # NoChannel, channel'[m].nonce > 0
               PROVE  SeenBy(m, channel[m])'
    BY DEF Accounted
  <2>1. CASE m = n
    BY <1>4, <1>6, <1>7, <2>1 DEF SeenBy, HasSigned, StateOf
  <2>2. CASE m # n
    <3>1. channel'[m] = channel[m] /\ SeenBy(m, channel[m])
      BY <1>4, <2>2 DEF IInv, Money, Accounted
    <3>2. QED
      BY <1>6, <3>1 DEF SeenBy, HasSigned, StateOf
  <2>3. QED
    BY <2>1, <2>2
<1>16. OneStatePerNonce'
  <2>1. \A s \in updates : s.signer = x.signer /\ s.update.nonce = x.update.nonce => s.era # x.era
    <3> SUFFICES ASSUME NEW s \in updates, s.signer = n, s.era = c.era, s.update.nonce = c.nonce
                 PROVE  FALSE
      BY <1>7
    <3>1. c.nonce < c.nonce
      BY <1>9
    <3>2. QED
      BY <1>8, <3>1
  <2>2. QED
    BY <1>6, <2>1 DEF IInv, Money, OneStatePerNonce
<1>17. QED
  BY <1>1, <1>4, <1>6, <1>10, <1>11, <1>13, <1>14, <1>15, <1>16 DEF Money

LEMMA PayIInv ==
    ASSUME IInv, NEW t \in PayTask, NEW a \in Amount, Pay(t, a)
    PROVE  IInv'
<1>1. /\ MakePayment(NodeOf[t], a)
      /\ UNCHANGED <<by_peer, escrowed, payAt, inHand, payWriter, readers, strays>>
      /\ NodeOf[t] \in Node /\ a \in Nat
  BY PaymentAssumption DEF Pay
<1>2. /\ channel' \in [Node -> Channel \cup {NoChannel}] /\ updates' \subseteq Signature
      /\ Money'
  BY <1>1, MakePaymentKeeps
<1>3. PaymentTypeOK' /\ InHandOK'
  BY <1>1, <1>2, StaysIInv DEF IInv, PaymentTypeOK
<1>4. QED
  BY <1>2, <1>3 DEF IInv

LEMMA PayPeerPaysIInv ==
    ASSUME IInv, NEW t \in PayTask, PayPeerPays(t)
    PROVE  IInv'
<1> DEFINE n == NodeOf[t]
<1>1. /\ n \in Node /\ inHand[t] \in Nat /\ Returns(t)
      /\ UNCHANGED <<by_peer, escrowed, payWriter, strays>>
  BY PaymentAssumption DEF PayPeerPays, IInv, PaymentTypeOK
<1>2. /\ by_peer' \in [Node -> BOOLEAN] /\ payWriter' \in [Node -> PayTask \cup {NoHolder}]
      /\ readers' \in [Node -> SUBSET PayTask]
  BY PaymentAssumption DEF PayPeerPays, IInv, PaymentTypeOK
<1>3. CASE MakePayment(n, inHand[t])
  <2>1. /\ channel' \in [Node -> Channel \cup {NoChannel}] /\ updates' \subseteq Signature
        /\ Money'
    BY <1>1, <1>3, MakePaymentKeeps
  <2>2. PaymentTypeOK' /\ InHandOK'
    BY <1>1, <1>2, <2>1, ReturnsIInv
  <2>3. QED
    BY <2>1, <2>2 DEF IInv
<1>4. CASE UNCHANGED <<channel, updates>>
  <2>1. channel' \in [Node -> Channel \cup {NoChannel}] /\ updates' \subseteq Signature
    BY <1>4 DEF IInv, PaymentTypeOK
  <2>2. PaymentTypeOK' /\ InHandOK'
    BY <1>1, <1>2, <2>1, ReturnsIInv
  <2>3. QED
    BY <1>1, <1>4, <2>2, TaskOnlyIInv
<1>5. QED
  BY <1>3, <1>4 DEF PayPeerPays

\* An update that is taken moves the end one nonce on, to balances that add up,
\* and to a state the other end signed, or it is counted as a stray.
LEMMA ReceiveIInv ==
    ASSUME IInv, NEW t \in PayTask, NEW u \in Update, Receive(t, u)
    PROVE  IInv'
<1> DEFINE n == NodeOf[t]
<1>1. /\ n \in Node /\ Acceptable(channel[n], u)
      /\ channel' = [channel EXCEPT ![n] = Received(channel[n], u)]
      /\ UNCHANGED <<by_peer, escrowed, updates, payAt, inHand, payWriter, readers>>
  BY PaymentAssumption DEF Receive
<1>2. channel \in [Node -> Channel \cup {NoChannel}] /\ updates \subseteq Signature
  BY DEF IInv, PaymentTypeOK
<1>3. /\ channel[n] \in Channel /\ channel[n] # NoChannel /\ u.nonce = channel[n].nonce + 1
      /\ Plus(u.local_balance, u.remote_balance) = channel[n].capacity
  BY <1>1, <1>2, OpenChannel DEF Acceptable, Operational
<1>4. PICK c \in Channel :
        /\ c = Received(channel[n], u)
        /\ c.era = channel[n].era /\ c.nonce = u.nonce
        /\ c.capacity = channel[n].capacity /\ c.status = channel[n].status
        /\ c.local_balance = u.remote_balance /\ c.remote_balance = u.local_balance
  BY <1>3, ReceivedType
<1>5. /\ channel'[n] = c /\ channel' \in [Node -> Channel \cup {NoChannel}]
      /\ \A m \in Node : m # n => channel'[m] = channel[m]
  BY <1>1, <1>2, <1>4
<1>6. /\ strays \in Nat /\ strays' \in 0..MaxStray
      /\ strays' = 0 => strays = 0 /\ \E m \in Node \ {n} : HasSigned(m, u)
  <2>1. strays \in 0..MaxStray
    BY DEF IInv, PaymentTypeOK
  <2>2. CASE UNCHANGED strays /\ \E m \in Node \ {n} : HasSigned(m, u)
    BY <2>1, <2>2, PaymentAssumption
  <2>3. CASE strays < MaxStray /\ strays' = strays + 1
    BY <2>1, <2>3, PaymentAssumption
  <2>4. QED
    BY <2>2, <2>3 DEF Receive
<1>7. PaymentTypeOK' /\ InHandOK'
  <2>1. updates' \subseteq Signature
    BY <1>1, <1>2
  <2>2. QED
    BY <1>1, <1>5, <1>6, <2>1, StaysIInv
<1>8. /\ u.local_balance \in Balance /\ u.remote_balance \in Balance /\ c.nonce > 0
      /\ u.local_balance \in Nat /\ u.remote_balance \in Nat /\ channel[n].nonce \in Nat
      /\ c.nonce = channel[n].nonce + 1
  <2>1. u.local_balance \in Balance /\ u.remote_balance \in Balance
    BY DEF Update
  <2>2. QED
    BY <1>3, <1>4, <2>1, Parts
<1>9. SignaturesBehind'
  <2> SUFFICES ASSUME NEW s \in updates PROVE Behind(s)'
    BY <1>1 DEF SignaturesBehind
  <2>1. s.signer \in Node /\ Behind(s) /\ s.update.nonce \in Nat
    BY <1>2, Parts DEF IInv, Money, SignaturesBehind
  <2>2. CASE s.signer = n
    <3>1. StateOf(channel[n]).nonce = channel[n].nonce
      BY <1>1, <1>3, SignedType
    <3>2. s.era = channel[n].era => s.update.nonce < c.nonce
      BY <1>8, <2>1, <2>2, <3>1 DEF Behind, Era
    <3>3. QED
      BY <1>4, <1>5, <2>1, <2>2, <3>2 DEF Behind, Era
  <2>3. CASE s.signer # n
    BY <1>5, <2>1, <2>3 DEF Behind, Era, StateOf
  <2>4. QED
    BY <2>2, <2>3
<1>10. Funded'
  BY <1>1, <1>3, <1>4, <1>5 DEF IInv, Money, Funded
<1>11. BalancesAddUp'
  <2>1. Plus(c.local_balance, c.remote_balance) = c.capacity
    BY <1>3, <1>4, <1>8, PlusLaws
  <2>2. ASSUME strays' = 0 PROVE c.local_balance + c.remote_balance = c.capacity
    <3>1. PICK s \in updates : s.update = u
      BY <1>6, <2>2 DEF HasSigned
    <3>2. u.local_balance + u.remote_balance < U64
      BY <1>6, <2>2, <3>1 DEF IInv, Money, Fits
    <3>3. QED
      BY <1>3, <1>4, <1>8, <3>2, PlusLaws
  <2>3. QED
    BY <1>5, <1>6, <2>1, <2>2 DEF IInv, Money, BalancesAddUp
<1>12. Accounted'
  <2> SUFFICES ASSUME strays' = 0, NEW m \in Node, channel'[m] # NoChannel, channel'[m].nonce > 0
               PROVE  SeenBy(m, channel[m])'
    BY DEF Accounted
  <2>1. CASE m = n
    <3>1. PICK s \in updates : s.signer # n /\ s.update = u
      BY <1>6 DEF HasSigned
    <3>2. QED
      BY <1>1, <1>4, <1>5, <2>1, <3>1 DEF SeenBy
  <2>2. CASE m # n
    <3>1. channel'[m] = channel[m] /\ SeenBy(m, channel[m])
      BY <1>5, <1>6, <2>2 DEF IInv, Money, Accounted
    <3>2. QED
      BY <1>1, <3>1 DEF SeenBy, HasSigned, StateOf
  <2>3. QED
    BY <2>1, <2>2
<1>13. Fits' /\ OneStatePerNonce'
  BY <1>1, <1>6 DEF IInv, Money, Fits, OneStatePerNonce
<1>14. QED
  BY <1>7, <1>9, <1>10, <1>11, <1>12, <1>13 DEF IInv, Money

LEMMA PaymentStepIInv == IInv /\ [PaymentNext]_paymentVars => IInv'
<1> SUFFICES ASSUME IInv, [PaymentNext]_paymentVars PROVE IInv'
  OBVIOUS
<1>1. ASSUME NEW t \in PayTask, Begin(t) PROVE IInv'
  BY <1>1, OpenLooksIInv, PayIInv, PayPeerLooksIInv, ReceiveIInv, ConfirmIInv, CloseMarksIInv
     DEF Begin
<1>2. ASSUME NEW t \in PayTask, Continue(t) PROVE IInv'
  BY <1>2, OpenLocksFundsIInv, OpenInsertsIInv, OpenIndexesIInv, PayPeerPaysIInv,
     CloseUnindexesIInv DEF Continue
<1>3. ASSUME NEW n \in Node, Expire(n) PROVE IInv'
  BY <1>3, ExpireIInv
<1>4. CASE UNCHANGED paymentVars
  <2>1. UNCHANGED <<channel, by_peer, escrowed, updates, payAt, inHand, payWriter, readers, strays>>
    BY <1>4 DEF paymentVars
  <2>2. PaymentTypeOK' /\ InHandOK'
    BY <2>1 DEF IInv, PaymentTypeOK, InHandOK
  <2>3. QED
    BY <2>1, <2>2, TaskOnlyIInv
<1>5. QED
  BY <1>1, <1>2, <1>3, <1>4 DEF PaymentNext

LEMMA PaymentInvariance == PaymentSpec => []IInv
BY PaymentInitIInv, PaymentStepIInv, PTL DEF PaymentSpec

\* At one nonce of their first openings, an end that mirrors what the other
\* signed mirrors the state the other stands on.
LEMMA EndsMeet == IInv => EndsAgree
<1> SUFFICES ASSUME IInv, NEW m \in Node, NEW n \in Node, m # n, strays = 0,
                    channel[m].era = 1, channel[n].era = 1,
                    channel[m].nonce = channel[n].nonce, channel[m].nonce > 0
             PROVE  \/ Mirrors(channel[m], channel[n])
                    \/ HasSigned(m, StateOf(channel[m])) /\ HasSigned(n, StateOf(channel[n]))
  BY DEF EndsAgree
<1>1. /\ channel[m] \in Channel /\ channel[n] \in Channel
      /\ channel[m] # NoChannel /\ channel[n] # NoChannel /\ updates \subseteq Signature
  BY OpenChannel DEF IInv, PaymentTypeOK
<1>2. SeenBy(m, channel[m]) /\ SeenBy(n, channel[n])
  BY <1>1 DEF IInv, Money, Accounted
<1>3. ASSUME NEW k \in Node, NEW l \in Node, NEW s \in updates, s.signer # k, k # l,
             channel[k].era = 1, channel[l].era = 1, channel[k].nonce = channel[l].nonce,
             channel[l] \in Channel,
             s.update.nonce = channel[k].nonce,
             s.update.local_balance = channel[k].remote_balance,
             s.update.remote_balance = channel[k].local_balance
      PROVE  Mirrors(channel[k], channel[l])
  <2>1. s.signer \in Node /\ s.era \in 1..MaxOpens /\ s.update.nonce \in Nat
    BY <1>1, Parts DEF Signature
  <2>2. s.signer = l
    BY <1>3, <2>1, PaymentAssumption
  <2>3. s.era = 1
    BY <1>3, <2>1, <2>2, PaymentAssumption DEF IInv, Money, SignaturesBehind, Behind, Era
  <2>4. s.update = StateOf(channel[l])
    BY <1>3, <2>1, <2>2, <2>3 DEF IInv, Money, SignaturesBehind, Behind, Era
  <2>5. QED
    BY <1>3, <2>4, SignedType DEF Mirrors
<1>4. CASE \E s \in updates : /\ s.signer # m /\ s.update.nonce = channel[m].nonce
                              /\ s.update.local_balance = channel[m].remote_balance
                              /\ s.update.remote_balance = channel[m].local_balance
  BY <1>1, <1>3, <1>4
<1>5. CASE \E s \in updates : /\ s.signer # n /\ s.update.nonce = channel[n].nonce
                              /\ s.update.local_balance = channel[n].remote_balance
                              /\ s.update.remote_balance = channel[n].local_balance
  <2>1. Mirrors(channel[n], channel[m])
    BY <1>1, <1>3, <1>5
  <2>2. QED
    BY <2>1 DEF Mirrors
<1>6. QED
  BY <1>2, <1>4, <1>5 DEF SeenBy

-----------------------------------------------------------------------------
(* The theorems. *)

\* Every state of the two managers is well formed (channel/mod.rs:110, 270).
THEOREM PaymentTypeCorrect == PaymentSpec => []PaymentTypeOK
<1>1. IInv => PaymentTypeOK
  BY DEF IInv
<1>2. QED
  BY <1>1, PaymentInvariance, PTL

\* However the calls of the two managers interleave and whatever updates arrive:
\* an end that is not closed is covered by its escrow, its balances add up to its
\* capacity, and nobody signs two states under one nonce of one opening; ends that
\* took only what the other signed agree at the nonce they share, or crossed
\* (open_channel, pay, receive_payment, close_channel).
THEOREM ChannelsAreSound == PaymentSpec => []ChannelsSound
<1>1. IInv => ChannelsSound
  BY EndsMeet DEF IInv, Money, ChannelsSound
<1>2. QED
  BY <1>1, PaymentInvariance, PTL

-----------------------------------------------------------------------------
(***************************************************************************)
(* JobOffers.  Whole numbers: what a truncation takes.                     *)
(***************************************************************************)

LEMMA TimesMonotone ==
    ASSUME NEW m \in Nat, NEW n \in Nat, NEW k \in Nat, m <= n
    PROVE  m * k <= n * k
OBVIOUS

LEMMA TimesCancels ==
    ASSUME NEW m \in Nat, NEW n \in Nat, NEW u \in Nat \ {0}, m * u <= n * u
    PROVE  m <= n
<1>1. SUFFICES ASSUME n + 1 <= m PROVE FALSE
  OBVIOUS
<1>2. (n + 1) * u <= m * u
  BY <1>1, TimesMonotone
<1>3. (n + 1) * u = n * u + u /\ n * u \in Nat /\ m * u \in Nat
  OBVIOUS
<1>4. QED
  BY <1>2, <1>3

\* A truncated quotient is the quotient, or less by no more than one.
LEMMA TruncatedBounds ==
    ASSUME NEW n \in Nat, NEW d \in Nat \ {0}, NEW t \in Truncated(n, d)
    PROVE  t \in Nat /\ t * d <= n /\ n <= (t + 1) * d
<1> DEFINE q == n \div d
           r == n % d
<1>1. q \in Nat /\ r \in 0..(d - 1) /\ n = d * q + r
  OBVIOUS
<1> HIDE DEF q, r
<1>2. t = q \/ (t = q - 1 /\ r = 0 /\ n > 0)
  BY DEF Truncated, q, r
<1>3. q * d = d * q /\ (q + 1) * d = d * q + d /\ (q - 1) * d = d * q - d /\ d * q \in Nat
  BY <1>1
<1>4. CASE t = q
  BY <1>1, <1>3, <1>4
<1>5. CASE t = q - 1 /\ r = 0 /\ n > 0
  <2>1. q # 0
    <3>1. SUFFICES ASSUME q = 0 PROVE FALSE
      OBVIOUS
    <3>2. d * q = 0
      BY <3>1
    <3>3. QED
      BY <3>2, <1>1, <1>5
  <2>2. (t + 1) * d = q * d /\ t * d = (q - 1) * d /\ t \in Nat
    BY <1>1, <1>5, <2>1
  <2>3. QED
    BY <1>1, <1>3, <1>5, <2>2
<1>6. QED
  BY <1>2, <1>4, <1>5

-----------------------------------------------------------------------------
\* What one price is made of: b the base price, a the adjusted, x over u what
\* the rate comes to, M the multiplier and D what the discount leaves.
Truncations(b, a, p, x, u, M, D) ==
    /\ b \in Nat /\ a \in Nat /\ p \in Nat
    /\ b * u <= x /\ x <= (b + 1) * u
    /\ a * 100 <= b * M /\ b * M <= (a + 1) * 100
    /\ p * 1000 <= a * D /\ a * D <= (p + 1) * 1000

\* The multiplier and the share the discount leaves are in their ranges.
Factors(M, D) == M \in 50..300 /\ D \in 900..1000

\* A price of 45 % to 300 % of what the rate comes to.
AsRated(p, x, u) == p * u <= 3 * x /\ (p + 3) * u * 100 > 45 * x

\* A price close to the sum of two others.
NearSum(p, p1, p2) == p - (p1 + p2) \in -5..10

LEMMA BaseBounds ==
    ASSUME NEW r \in Resource, NEW n \in Nat, NEW b \in BasePrice(r, n)
    PROVE  /\ b \in Nat
           /\ b * Unit[r] <= Rate[r] * n /\ Rate[r] * n <= (b + 1) * Unit[r]
<1> DEFINE x == Rate[r] * n
           u == Unit[r]
<1>1. x \in Nat /\ u \in Nat \ {0}
  BY OffersAssumption
<1>2. b \in Truncated(x, u)
  BY DEF BasePrice, Truncated
<1> HIDE DEF x, u
<1>3. b \in Nat /\ b * u <= x /\ x <= (b + 1) * u
  BY <1>1, <1>2, TruncatedBounds
<1>4. QED
  BY <1>3 DEF x, u

\* Every price goes through a base price and an adjusted one.
LEMMA PriceInStages ==
    ASSUME NEW r \in Resource, NEW n \in Nat, NEW p \in Prices(r, n),
           utilization_multiplier \in 50..300, reputation \in 0..100
    PROVE  \E b, a \in Nat :
             Truncations(b, a, p, Rate[r] * n, Unit[r], utilization_multiplier,
                         1000 - reputation)
<1>1. PICK b \in BasePrice(r, n) :
        \E a \in Truncated(b * utilization_multiplier, 100) : p \in Discounted(a)
  BY DEF Prices
<1>2. PICK a \in Truncated(b * utilization_multiplier, 100) :
        p \in Truncated(a * (1000 - reputation), 1000)
  BY <1>1 DEF Discounted
<1>3. /\ b \in Nat
      /\ b * Unit[r] <= Rate[r] * n /\ Rate[r] * n <= (b + 1) * Unit[r]
  BY BaseBounds
<1>4. b * utilization_multiplier \in Nat
  BY <1>3
<1>5. /\ a \in Nat
      /\ a * 100 <= b * utilization_multiplier
      /\ b * utilization_multiplier <= (a + 1) * 100
  BY <1>4, TruncatedBounds
<1>6. a * (1000 - reputation) \in Nat
  BY <1>5
<1>7. /\ p \in Nat
      /\ p * 1000 <= a * (1000 - reputation)
      /\ a * (1000 - reputation) <= (p + 1) * 1000
  BY <1>2, <1>6, TruncatedBounds
<1>8. QED
  BY <1>3, <1>5, <1>7 DEF Truncations

LEMMA PriceInRange ==
    ASSUME NEW b, NEW a, NEW p, NEW x \in Nat, NEW u \in Nat \ {0},
           NEW M, NEW D, Factors(M, D), Truncations(b, a, p, x, u, M, D)
    PROVE  AsRated(p, x, u)
<1> M \in 50..300 /\ D \in 900..1000
  BY DEF Factors
<1>1. b \in Nat /\ a \in Nat /\ p \in Nat
  BY DEF Truncations
<1>2. 50 * b <= b * M /\ b * M <= 300 * b /\ b * M \in Nat
  <2>1. 50 * b <= M * b /\ M * b <= 300 * b
    BY <1>1, TimesMonotone
  <2>2. M * b = b * M
    BY <1>1
  <2>3. QED
    BY <1>1, <2>1, <2>2
<1>3. 900 * a <= a * D /\ a * D <= 1000 * a /\ a * D \in Nat
  <2>1. 900 * a <= D * a /\ D * a <= 1000 * a
    BY <1>1, TimesMonotone
  <2>2. D * a = a * D
    BY <1>1
  <2>3. QED
    BY <1>1, <2>1, <2>2
<1>4. a <= 3 * b /\ b <= 2 * (a + 1)
  BY <1>1, <1>2 DEF Truncations
<1>5. p <= a /\ 9 * a <= 10 * (p + 1)
  BY <1>1, <1>3 DEF Truncations
<1>6. p <= 3 * b /\ 45 * (b + 1) <= 100 * p + 235
  BY <1>1, <1>4, <1>5
<1>7. p * u <= 3 * x
  <2>1. p * u <= (3 * b) * u
    BY <1>1, <1>6, TimesMonotone
  <2>2. (3 * b) * u = 3 * (b * u) /\ b * u \in Nat /\ p * u \in Nat
    BY <1>1
  <2>3. QED
    BY <2>1, <2>2 DEF Truncations
<1>8. (p + 3) * u * 100 > 45 * x
  <2>1. (45 * (b + 1)) * u <= (100 * p + 235) * u
    BY <1>1, <1>6, TimesMonotone
  <2>2. (45 * (b + 1)) * u = 45 * ((b + 1) * u) /\ (b + 1) * u \in Nat
    BY <1>1
  <2>3. (100 * p + 235) * u = 100 * (p * u) + 235 * u /\ p * u \in Nat
    BY <1>1
  <2>4. (p + 3) * u * 100 = 100 * (p * u) + 300 * u
    BY <1>1
  <2>5. 45 * x <= 45 * ((b + 1) * u)
    BY <2>2 DEF Truncations
  <2>6. QED
    BY <2>1, <2>2, <2>3, <2>4, <2>5
<1>9. QED
  BY <1>7, <1>8 DEF AsRated

\* The price of a sum lies close to the sum of the prices.
LEMMA PriceOfSum ==
    ASSUME NEW b1, NEW a1, NEW p1, NEW x1 \in Nat,
           NEW b2, NEW a2, NEW p2, NEW x2 \in Nat,
           NEW b, NEW a, NEW p,
           NEW u \in Nat \ {0}, NEW M, NEW D, Factors(M, D),
           Truncations(b1, a1, p1, x1, u, M, D), Truncations(b2, a2, p2, x2, u, M, D),
           Truncations(b, a, p, x1 + x2, u, M, D)
    PROVE  NearSum(p, p1, p2)
<1> M \in 50..300 /\ D \in 900..1000
  BY DEF Factors
<1>1. /\ b1 \in Nat /\ a1 \in Nat /\ p1 \in Nat /\ b2 \in Nat /\ a2 \in Nat
      /\ p2 \in Nat /\ b \in Nat /\ a \in Nat /\ p \in Nat
  BY DEF Truncations
<1>2. b <= b1 + b2 + 2 /\ b1 + b2 <= b + 1
  <2>1. b * u <= (b1 + b2 + 2) * u
    <3>1. (b1 + b2 + 2) * u = (b1 + 1) * u + (b2 + 1) * u
      BY <1>1
    <3>2. /\ b * u \in Nat /\ (b1 + 1) * u \in Nat /\ (b2 + 1) * u \in Nat
      BY <1>1
    <3>3. b * u <= x1 + x2 /\ x1 <= (b1 + 1) * u /\ x2 <= (b2 + 1) * u
      BY DEF Truncations
    <3>4. QED
      BY <3>1, <3>2, <3>3
  <2>2. (b1 + b2) * u <= (b + 1) * u
    <3>1. (b1 + b2) * u = b1 * u + b2 * u
      BY <1>1
    <3>2. b1 * u \in Nat /\ b2 * u \in Nat /\ (b + 1) * u \in Nat
      BY <1>1
    <3>3. b1 * u <= x1 /\ b2 * u <= x2 /\ x1 + x2 <= (b + 1) * u
      BY DEF Truncations
    <3>4. QED
      BY <3>1, <3>2, <3>3
  <2>3. QED
    BY <1>1, <2>1, <2>2, TimesCancels
<1>3. a <= a1 + a2 + 8 /\ a1 + a2 <= a + 4
  <2>1. b * M <= (b1 + b2 + 2) * M /\ (b1 + b2) * M <= (b + 1) * M
    BY <1>1, <1>2, TimesMonotone
  <2>2. /\ (b1 + b2 + 2) * M = b1 * M + b2 * M + 2 * M
        /\ (b1 + b2) * M = b1 * M + b2 * M /\ (b + 1) * M = b * M + M
    BY <1>1
  <2>3. b * M \in Nat /\ b1 * M \in Nat /\ b2 * M \in Nat
    BY <1>1
  <2>4. /\ a * 100 <= b * M /\ b * M <= (a + 1) * 100
        /\ a1 * 100 <= b1 * M /\ b1 * M <= (a1 + 1) * 100
        /\ a2 * 100 <= b2 * M /\ b2 * M <= (a2 + 1) * 100
    BY DEF Truncations
  <2>5. QED
    BY <1>1, <2>1, <2>2, <2>3, <2>4
<1>4. p <= p1 + p2 + 10 /\ p1 + p2 <= p + 5
  <2>1. a * D <= (a1 + a2 + 8) * D /\ (a1 + a2) * D <= (a + 4) * D
    BY <1>1, <1>3, TimesMonotone
  <2>2. /\ (a1 + a2 + 8) * D = a1 * D + a2 * D + 8 * D
        /\ (a1 + a2) * D = a1 * D + a2 * D /\ (a + 4) * D = a * D + 4 * D
    BY <1>1
  <2>3. a * D \in Nat /\ a1 * D \in Nat /\ a2 * D \in Nat
    BY <1>1
  <2>4. /\ p * 1000 <= a * D /\ a * D <= (p + 1) * 1000
        /\ p1 * 1000 <= a1 * D /\ a1 * D <= (p1 + 1) * 1000
        /\ p2 * 1000 <= a2 * D /\ a2 * D <= (p2 + 1) * 1000
    BY DEF Truncations
  <2>5. QED
    BY <1>1, <2>1, <2>2, <2>3, <2>4
<1>5. QED
  BY <1>1, <1>4 DEF NearSum

-----------------------------------------------------------------------------
\* The bid is at the present prices: what changes them takes it back.
BidPriced == bid.price \in Prices(bid.resource, bid.amount)

PriceIInv == PriceTypeOK /\ BidPriced

\* Zero is the price of nothing.
LEMMA NothingIsZero ==
    ASSUME NEW r \in Resource, NEW M \in Int, NEW D \in Int
    PROVE  0 \in UNION {UNION {Truncated(a * D, 1000) : a \in Truncated(b * M, 100)} :
                          b \in BasePrice(r, 0)}
<1>1. \A d \in Nat \ {0} : 0 \in Truncated(0, d)
  BY DEF Truncated
<1>2. Unit[r] \in Nat \ {0} /\ Rate[r] * 0 = 0
  BY OffersAssumption
<1>3. 0 \in BasePrice(r, 0)
  BY <1>1, <1>2 DEF BasePrice
<1>4. 0 * M = 0 /\ 0 * D = 0
  OBVIOUS
<1>5. 0 \in Truncated(0 * M, 100) /\ 0 \in Truncated(0 * D, 1000)
  BY <1>1, <1>4
<1>6. QED
  BY <1>3, <1>5

LEMMA NoBidType ==
    /\ NoBid.resource \in Resource /\ NoBid.amount = 0 /\ NoBid.max_budget = 0
    /\ NoBid.made = FALSE /\ NoBid.price = 0
BY OffersAssumption DEF NoBid

LEMMA PriceInitIInv == PriceInit => PriceIInv
<1> SUFFICES ASSUME PriceInit PROVE PriceIInv
  OBVIOUS
<1>1. utilization_multiplier = 100 /\ reputation = 50 /\ bid = NoBid
  BY DEF PriceInit
<1>2. PriceTypeOK
  <2>1. bid.made \in BOOLEAN
    BY <1>1, NoBidType
  <2>2. /\ bid.resource \in Resource /\ bid.amount = 0 /\ bid.max_budget = 0
        /\ bid.price = 0 /\ reputation \in NodeReputation
    BY <1>1, NoBidType, OffersAssumption
  <2>3. QED
    BY <1>1, <2>1, <2>2 DEF PriceTypeOK
<1>3. BidPriced
  <2> DEFINE r == bid.resource  M == utilization_multiplier  D == 1000 - reputation
  <2>1. r \in Resource /\ bid.amount = 0 /\ bid.price = 0
    BY <1>1, NoBidType
  <2>2. M \in Int /\ D \in Int
    BY <1>1
  <2>3. 0 \in UNION {UNION {Truncated(a * D, 1000) : a \in Truncated(b * M, 100)} :
                       b \in BasePrice(r, 0)}
    <3> HIDE DEF r, M, D
    <3> QED
      BY <2>1, <2>2, NothingIsZero
  <2>4. 0 \in Prices(r, 0)
    BY <2>3 DEF Prices, Discounted
  <2>5. QED
    BY <2>1, <2>4 DEF BidPriced
<1>4. QED
  BY <1>2, <1>3 DEF PriceIInv

LEMMA PriceStepIInv == PriceIInv /\ [PriceNext]_priceVars => PriceIInv'
<1> SUFFICES ASSUME PriceIInv, [PriceNext]_priceVars PROVE PriceIInv'
  OBVIOUS
<1> USE DEF PriceIInv
<1>1. ASSUME utilization_multiplier' \in 50..300, reputation' \in NodeReputation,
             bid' = NoBid
      PROVE  PriceIInv'
  <2>1. bid'.made \in BOOLEAN
    BY <1>1, NoBidType
  <2>2. /\ bid'.resource \in Resource /\ bid'.amount = 0 /\ bid'.max_budget = 0
        /\ bid'.price = 0
    BY <1>1, NoBidType
  <2>3. PriceTypeOK'
    BY <1>1, <2>1, <2>2 DEF PriceTypeOK
  <2>4. BidPriced'
    <3>1. utilization_multiplier' \in Int /\ 1000 - reputation' \in Int
      BY <1>1, OffersAssumption
    <3>2. QED
      BY <2>2, <3>1, NothingIsZero DEF BidPriced, Prices, Discounted
  <2>5. QED
    BY <2>3, <2>4
<1>2. CASE UpdateUtilization
  <2>1. PICK load \in NodeLoad :
          utilization_multiplier' =
            Clamped(utilization_multiplier + (load - target_utilization) \div 5)
    BY <1>2 DEF UpdateUtilization
  <2>2. load \in Int /\ utilization_multiplier \in Int
    BY OffersAssumption DEF PriceTypeOK
  <2>3. utilization_multiplier' \in 50..300
    BY <2>1, <2>2 DEF Clamped, target_utilization
  <2>4. QED
    BY <1>1, <1>2, <2>3 DEF UpdateUtilization, PriceTypeOK
<1>3. CASE SetReputation
  BY <1>1, <1>3 DEF SetReputation, PriceTypeOK
<1>4. CASE EvaluateRequest
  <2>1. PICK r \in Resource, n \in JobAmount, max \in Budget : \E price \in Prices(r, n) :
            bid' = [resource |-> r, amount |-> n, max_budget |-> max,
                    made |-> price <= max, price |-> price]
    BY <1>4 DEF EvaluateRequest
  <2>2. PICK price \in Prices(r, n) :
            bid' = [resource |-> r, amount |-> n, max_budget |-> max,
                    made |-> price <= max, price |-> price]
    BY <2>1
  <2>3. UNCHANGED <<utilization_multiplier, reputation>>
    BY <1>4 DEF EvaluateRequest
  <2>4. price \in Nat
    <3>1. n \in Nat /\ utilization_multiplier \in 50..300 /\ reputation \in 0..100
      BY OffersAssumption DEF PriceTypeOK
    <3>2. QED
      BY <3>1, PriceInStages DEF Truncations
  <2>5. /\ bid'.resource = r /\ bid'.amount = n /\ bid'.max_budget = max
        /\ bid'.made = (price <= max) /\ bid'.price = price
    BY <2>2
  <2>6. PriceTypeOK'
    BY <2>3, <2>4, <2>5 DEF PriceTypeOK
  <2>7. BidPriced'
    BY <2>3, <2>5 DEF BidPriced, Prices, Discounted
  <2>8. QED
    BY <2>6, <2>7
<1>5. CASE UNCHANGED priceVars
  BY <1>5 DEF priceVars, PriceTypeOK, BidPriced, Prices, Discounted
<1>6. QED
  BY <1>2, <1>3, <1>4, <1>5 DEF PriceNext

LEMMA PricesHold == PriceIInv => BidAsRated /\ PartsCostTheWhole
<1> SUFFICES ASSUME PriceIInv PROVE BidAsRated /\ PartsCostTheWhole
  OBVIOUS
<1> DEFINE r == bid.resource
           whole == bid.amount
           w == bid.price
           M == utilization_multiplier
           D == 1000 - reputation
<1>1. r \in Resource /\ M \in 50..300 /\ reputation \in 0..100
  BY OffersAssumption DEF PriceIInv, PriceTypeOK
<1>2. whole \in Nat
  <2>1. whole \in JobAmount \cup {0}
    BY DEF PriceIInv, PriceTypeOK
  <2> HIDE DEF whole
  <2>2. QED
    BY <2>1, OffersAssumption
<1>3. Factors(M, D)
  BY <1>1 DEF Factors
<1>4. w \in Prices(r, whole)
  BY DEF PriceIInv, BidPriced
<1>5. Unit[r] \in Nat \ {0} /\ Rate[r] \in Nat
  BY <1>1, OffersAssumption
<1>6. ASSUME NEW n \in Nat, NEW p \in Prices(r, n)
      PROVE  \E b, a \in Nat : Truncations(b, a, p, Rate[r] * n, Unit[r], M, D)
  BY <1>1, PriceInStages
<1>7. \A n \in Nat : Rate[r] * n \in Nat
  BY <1>5
<1> HIDE DEF r, whole, w, M, D
<1>8. PICK b, a \in Nat : Truncations(b, a, w, Rate[r] * whole, Unit[r], M, D)
  BY <1>2, <1>4, <1>6
<1>9. BidAsRated
  <2>1. AsRated(w, Rate[r] * whole, Unit[r])
    BY <1>2, <1>3, <1>5, <1>7, <1>8, PriceInRange, Zenon
  <2>2. QED
    BY <2>1 DEF BidAsRated, AsRated, r, whole, w
<1>10. ASSUME NEW m \in JobAmount, NEW n \in JobAmount, m + n = whole,
              NEW p \in Prices(r, m), NEW q \in Prices(r, n)
       PROVE  w - (p + q) \in -5..10
  <2>1. m \in Nat /\ n \in Nat
    BY OffersAssumption
  <2>2. Rate[r] * whole = Rate[r] * m + Rate[r] * n
    BY <1>5, <1>10, <2>1
  <2>3. PICK b1, a1 \in Nat : Truncations(b1, a1, p, Rate[r] * m, Unit[r], M, D)
    BY <1>6, <2>1
  <2>4. PICK b2, a2 \in Nat : Truncations(b2, a2, q, Rate[r] * n, Unit[r], M, D)
    BY <1>6, <2>1
  <2>5. Truncations(b, a, w, Rate[r] * m + Rate[r] * n, Unit[r], M, D)
    BY <1>8, <2>2
  <2>6. NearSum(w, p, q)
    BY <1>3, <1>5, <1>7, <2>1, <2>3, <2>4, <2>5, PriceOfSum, Zenon
  <2>7. QED
    BY <2>6 DEF NearSum
<1>11. PartsCostTheWhole
  BY <1>10 DEF PartsCostTheWhole, r, whole, w
<1>12. QED
  BY <1>9, <1>11

-----------------------------------------------------------------------------
(* Tasks sent to other nodes. *)

\* What the wallet paid out is the prices of the bids that won.
Spent ==
    /\ IsFiniteSet(Tokens(TaskPrice, Winners))
    /\ remoteFunds = TaskFunds - Total(TaskPrice, Winners)

\* Where an execution stands and what its job holds.
Tracked(x) ==
    /\ remoteEscrow[x] = "Active" <=> x \in remoteJobs \cup unstored
    /\ remoteEscrow[x] # "None" <=> x \in acceptedJobs \cup unstored
    /\ remoteEscrow[x] = "Released" => x \in winnersTold
    /\ x \in remoteRequests <=> remoteAt[x] # "new" /\ x \notin acceptedJobs
    /\ remoteAt[x] \in {"accepted", "waiting", "timeout"} => x \in acceptedJobs
    /\ x \in unstored => remoteAt[x] = "failed" /\ x \notin acceptedJobs
    /\ x \in remoteJobs => x \in acceptedJobs
    /\ remoteAt[x] \in {"new", "stored", "collecting", "selected"} => x \notin acceptedJobs

\* No execution takes the bid of another.
OwnBids == \A x \in RemoteTask : \A b \in remoteBids[x] \cup chosenBid[x] : TaskOf[b] = x

RemoteIInv == RemoteTypeOK /\ Spent /\ OwnBids /\ \A x \in RemoteTask : Tracked(x)

LEMMA RemoteInitIInv == RemoteInit => RemoteIInv
<1> SUFFICES ASSUME RemoteInit PROVE RemoteIInv
  OBVIOUS
<1> USE DEF RemoteInit
<1>1. RemoteTypeOK
  <2>1. {} \in {B \in SUBSET TaskBid : Cardinality(B) <= 1}
    BY FS_EmptySet
  <2>2. QED
    BY <2>1, OffersAssumption DEF RemoteTypeOK, RemoteStage
<1>2. Spent
  <2>1. Winners = {}
    BY DEF Winners
  <2>2. QED
    BY <2>1, TotalZero, OffersAssumption DEF Spent
<1>3. OwnBids
  BY DEF OwnBids
<1>4. \A x \in RemoteTask : Tracked(x)
  BY DEF Tracked
<1>5. QED
  BY <1>1, <1>2, <1>3, <1>4 DEF RemoteIInv

LEMMA SpentSame ==
    ASSUME Spent, Winners' = Winners, UNCHANGED remoteFunds
    PROVE  Spent'
BY DEF Spent

LEMMA WinnersSame ==
    ASSUME UNCHANGED <<chosenBid, acceptedJobs, unstored>>
    PROVE  Winners' = Winners
BY DEF Winners

\* The steps that neither choose nor accept a bid.
LEMMA QuietStepIInv ==
    ASSUME RemoteIInv, NEW x \in RemoteTask,
           \/ CreateRequest(x) \/ Publish(x) \/ Notify(x) \/ HandleResult(x)
           \/ RemoteTimeout(x)
    PROVE  RemoteIInv'
<1> USE DEF RemoteIInv
<1>1. Spent'
  BY SpentSame, WinnersSame
     DEF CreateRequest, Publish, Notify, HandleResult, RemoteTimeout
<1>2. CASE CreateRequest(x)
  <2>1. RemoteTypeOK'
    BY <1>2 DEF CreateRequest, RemoteGoes, RemoteTypeOK, RemoteStage
  <2>2. OwnBids'
    BY <1>2 DEF CreateRequest, OwnBids, RemoteTypeOK
  <2>3. ASSUME NEW y \in RemoteTask PROVE Tracked(y)'
    BY <1>2 DEF CreateRequest, RemoteGoes, Tracked, RemoteTypeOK
  <2>4. QED
    BY <1>1, <2>1, <2>2, <2>3
<1>3. CASE Publish(x)
  <2>1. RemoteTypeOK'
    BY <1>3 DEF Publish, RemoteGoes, RemoteTypeOK, RemoteStage
  <2>2. OwnBids'
    BY <1>3 DEF Publish, OwnBids, RemoteTypeOK
  <2>3. ASSUME NEW y \in RemoteTask PROVE Tracked(y)'
    BY <1>3 DEF Publish, RemoteGoes, Tracked, RemoteTypeOK
  <2>4. QED
    BY <1>1, <2>1, <2>2, <2>3
<1>4. CASE Notify(x)
  <2>1. RemoteTypeOK'
    BY <1>4 DEF Notify, RemoteGoes, RemoteTypeOK, RemoteStage
  <2>2. OwnBids'
    BY <1>4 DEF Notify, OwnBids, RemoteTypeOK
  <2>3. ASSUME NEW y \in RemoteTask PROVE Tracked(y)'
    BY <1>4 DEF Notify, RemoteGoes, Tracked, RemoteTypeOK
  <2>4. QED
    BY <1>1, <2>1, <2>2, <2>3
<1>5. CASE HandleResult(x)
  <2>1. RemoteTypeOK'
    BY <1>5 DEF HandleResult, RemoteTypeOK
  <2>2. OwnBids'
    BY <1>5 DEF HandleResult, OwnBids, RemoteTypeOK
  <2>3. ASSUME NEW y \in RemoteTask PROVE Tracked(y)'
    BY <1>5 DEF HandleResult, Tracked, RemoteTypeOK
  <2>4. QED
    BY <1>1, <2>1, <2>2, <2>3
<1>6. CASE RemoteTimeout(x)
  <2>1. RemoteTypeOK'
    BY <1>6 DEF RemoteTimeout, RemoteGoes, RemoteTypeOK, RemoteStage
  <2>2. OwnBids'
    BY <1>6 DEF RemoteTimeout, OwnBids, RemoteTypeOK
  <2>3. ASSUME NEW y \in RemoteTask PROVE Tracked(y)'
    BY <1>6 DEF RemoteTimeout, RemoteGoes, Tracked, RemoteTypeOK
  <2>4. QED
    BY <1>1, <2>1, <2>2, <2>3
<1>7. QED
  BY <1>2, <1>3, <1>4, <1>5, <1>6

LEMMA BidStepIInv ==
    ASSUME RemoteIInv, NEW b \in TaskBid, ReceiveBid(b) \/ ExpireBid(b)
    PROVE  RemoteIInv'
<1> USE DEF RemoteIInv
<1>1. Spent'
  BY SpentSame, WinnersSame DEF ReceiveBid, ExpireBid
<1>2. CASE ReceiveBid(b)
  <2> DEFINE x == TaskOf[b]
  <2>1. x \in RemoteTask
    BY OffersAssumption
  <2>2. remoteBids' = [remoteBids EXCEPT ![x] = @ \cup {b}]
    BY <1>2 DEF ReceiveBid
  <2>3. /\ UNCHANGED <<remoteRequests, remoteJobs, remoteEscrow, remoteFunds, remoteAt,
                        chosenBid, acceptedJobs, winnersTold, unstored, expiredBids>>
    BY <1>2 DEF ReceiveBid
  <2>4. RemoteTypeOK'
    BY <2>1, <2>2, <2>3 DEF RemoteTypeOK
  <2>5. ASSUME NEW y \in RemoteTask, NEW c \in (remoteBids[y] \cup chosenBid[y])'
        PROVE  TaskOf[c] = y
    BY <2>1, <2>2, <2>3, <2>5 DEF OwnBids, RemoteTypeOK
  <2>6. \A y \in RemoteTask : Tracked(y)'
    BY <2>3 DEF Tracked
  <2>7. QED
    BY <1>1, <2>4, <2>5, <2>6 DEF OwnBids
<1>3. CASE ExpireBid(b)
  <2>1. RemoteTypeOK'
    BY <1>3 DEF ExpireBid, RemoteTypeOK
  <2>2. OwnBids' /\ \A y \in RemoteTask : Tracked(y)'
    BY <1>3 DEF ExpireBid, OwnBids, Tracked
  <2>3. QED
    BY <1>1, <2>1, <2>2
<1>4. QED
  BY <1>2, <1>3

LEMMA CollectIInv ==
    ASSUME RemoteIInv, NEW x \in RemoteTask, Collect(x)
    PROVE  RemoteIInv'
<1> USE DEF RemoteIInv
<1>1. UNCHANGED <<remoteRequests, remoteBids, remoteJobs, remoteEscrow, remoteFunds,
                  acceptedJobs, winnersTold, unstored, expiredBids>>
  BY DEF Collect
<1>2. remoteAt[x] = "collecting" /\ x \notin acceptedJobs \cup unstored
  BY DEF Collect, RemoteGoes, Tracked
<1>3. CASE remoteBids[x] = {}
  <2>1. RemoteGoes(x, "collecting", "failed") /\ UNCHANGED chosenBid
    BY <1>3 DEF Collect
  <2>2. RemoteTypeOK'
    BY <1>1, <2>1 DEF RemoteGoes, RemoteTypeOK, RemoteStage
  <2>3. OwnBids'
    BY <1>1, <2>1 DEF OwnBids
  <2>4. ASSUME NEW y \in RemoteTask PROVE Tracked(y)'
    BY <1>1, <1>2, <2>1 DEF RemoteGoes, Tracked, RemoteTypeOK
  <2>5. Spent'
    BY <1>1, <2>1, SpentSame, WinnersSame
  <2>6. QED
    BY <2>2, <2>3, <2>4, <2>5
<1>4. CASE remoteBids[x] # {}
  <2>1. PICK b \in Best(remoteBids[x]) : chosenBid' = [chosenBid EXCEPT ![x] = {b}]
    BY <1>4 DEF Collect
  <2>2. RemoteGoes(x, "collecting", "selected")
    BY <1>4 DEF Collect
  <2>3. b \in remoteBids[x] /\ b \in TaskBid
    BY <2>1 DEF Best, RemoteTypeOK
  <2>4. {b} \in {B \in SUBSET TaskBid : Cardinality(B) <= 1}
    BY <2>3, FS_Singleton
  <2>5. chosenBid' \in [RemoteTask -> {B \in SUBSET TaskBid : Cardinality(B) <= 1}]
    BY <2>1, <2>4 DEF RemoteTypeOK
  <2>6. RemoteTypeOK'
    BY <1>1, <2>2, <2>5 DEF RemoteGoes, RemoteTypeOK, RemoteStage
  <2>7. OwnBids'
    BY <1>1, <2>1, <2>3 DEF OwnBids, RemoteTypeOK
  <2>8. ASSUME NEW y \in RemoteTask PROVE Tracked(y)'
    BY <1>1, <1>2, <2>2 DEF RemoteGoes, Tracked, RemoteTypeOK
  <2>9. \A y \in acceptedJobs \cup unstored : chosenBid'[y] = chosenBid[y]
    BY <1>2, <2>1 DEF RemoteTypeOK
  <2>10. Winners' = Winners
    BY <1>1, <2>9 DEF Winners
  <2>11. QED
    BY <1>1, <2>6, <2>7, <2>8, <2>10, SpentSame
<1>5. QED
  BY <1>3, <1>4

\* An execution's price, once taken, is among the prices taken.
LEMMA PriceTaken ==
    ASSUME RemoteIInv, NEW x \in RemoteTask, NEW b \in chosenBid[x],
           x \notin acceptedJobs \cup unstored, CanAccept(b), HoldPrice(x, b),
           UNCHANGED chosenBid, (acceptedJobs \cup unstored)' = acceptedJobs \cup unstored \cup {x}
    PROVE  remoteFunds' \in 0..TaskFunds /\ Spent'
<1> USE DEF RemoteIInv
<1>1. b \in TaskBid /\ TaskOf[b] = x /\ TaskPrice[b] \in Nat
  BY OffersAssumption DEF RemoteTypeOK, OwnBids
<1>2. remoteFunds' = remoteFunds - TaskPrice[b] /\ TaskPrice[b] <= remoteFunds
  BY DEF HoldPrice, CanAccept
<1>3. remoteFunds' \in 0..TaskFunds
  BY <1>1, <1>2, OffersAssumption DEF RemoteTypeOK
<1>4. chosenBid[x] = {b}
  <2>1. chosenBid[x] \subseteq TaskBid /\ Cardinality(chosenBid[x]) <= 1
    BY DEF RemoteTypeOK
  <2>2. IsFiniteSet(chosenBid[x])
    BY <2>1, OffersAssumption, FS_Subset
  <2>3. IsFiniteSet(chosenBid[x] \ {b})
        /\ Cardinality(chosenBid[x] \ {b}) = Cardinality(chosenBid[x]) - 1
    BY <2>2, FS_RemoveElement
  <2>4. Cardinality(chosenBid[x] \ {b}) = 0
    BY <2>1, <2>2, <2>3, FS_CardinalityType
  <2>5. chosenBid[x] \ {b} = {}
    BY <2>3, <2>4, FS_EmptySet
  <2>6. QED
    BY <2>5
<1>5. Winners' = Winners \cup {b}
  BY <1>4 DEF Winners
<1>6. b \notin Winners
  <2>1. \A y \in acceptedJobs \cup unstored : \A c \in chosenBid[y] : TaskOf[c] = y
    BY DEF OwnBids, RemoteTypeOK
  <2>2. QED
    BY <1>1, <2>1 DEF Winners
<1>7. /\ IsFiniteSet(Tokens(TaskPrice, Winners \cup {b}))
      /\ Total(TaskPrice, Winners \cup {b}) = Total(TaskPrice, Winners) + TaskPrice[b]
  BY <1>1, <1>6, TotalAdd DEF Spent
<1>8. Spent'
  <2>1. Total(TaskPrice, Winners) \in Nat
    BY TotalType DEF Spent
  <2>2. remoteFunds' = TaskFunds - (Total(TaskPrice, Winners) + TaskPrice[b])
    BY <1>1, <1>2, <2>1, OffersAssumption DEF Spent
  <2>3. QED
    BY <1>5, <1>7, <2>2 DEF Spent
<1>9. QED
  BY <1>3, <1>8

LEMMA AcceptIInv ==
    ASSUME RemoteIInv, NEW x \in RemoteTask, Accept(x)
    PROVE  RemoteIInv'
<1> USE DEF RemoteIInv
<1>1. UNCHANGED <<chosenBid, winnersTold, expiredBids>>
  BY DEF Accept
<1>2. PICK b \in chosenBid[x] : BidAccepted(x, b) \/ StoreFailed(x, b) \/ BidRefused(x)
  BY DEF Accept
<1>3. x \notin acceptedJobs \cup unstored
  BY <1>2 DEF BidAccepted, StoreFailed, BidRefused, RemoteGoes, Tracked
<1>4. CASE BidAccepted(x, b)
  <2>1. /\ RemoteGoes(x, "selected", "accepted") /\ HoldPrice(x, b) /\ AcceptBid(x, b)
        /\ CanAccept(b) /\ UNCHANGED unstored
    BY <1>4 DEF BidAccepted
  <2>2. (acceptedJobs \cup unstored)' = acceptedJobs \cup unstored \cup {x}
    BY <2>1 DEF AcceptBid
  <2>3. remoteFunds' \in 0..TaskFunds /\ Spent'
    BY <1>1, <1>3, <2>1, <2>2, PriceTaken
  <2>4. RemoteTypeOK'
    BY <1>1, <2>1, <2>3 DEF RemoteGoes, HoldPrice, AcceptBid, RemoteTypeOK, RemoteStage
  <2>5. OwnBids'
    BY <1>1, <2>1 DEF OwnBids, AcceptBid, RemoteTypeOK
  <2>6. ASSUME NEW y \in RemoteTask PROVE Tracked(y)'
    BY <1>1, <1>3, <2>1 DEF RemoteGoes, HoldPrice, AcceptBid, Tracked, RemoteTypeOK
  <2>7. QED
    BY <2>3, <2>4, <2>5, <2>6
<1>5. CASE StoreFailed(x, b)
  <2>1. /\ RemoteGoes(x, "selected", "failed") /\ HoldPrice(x, b) /\ CanAccept(b)
        /\ unstored' = unstored \cup {x}
        /\ UNCHANGED <<remoteRequests, remoteBids, remoteJobs, acceptedJobs>>
    BY <1>5 DEF StoreFailed
  <2>2. (acceptedJobs \cup unstored)' = acceptedJobs \cup unstored \cup {x}
    BY <2>1
  <2>3. remoteFunds' \in 0..TaskFunds /\ Spent'
    BY <1>1, <1>3, <2>1, <2>2, PriceTaken
  <2>4. RemoteTypeOK'
    BY <1>1, <2>1, <2>3 DEF RemoteGoes, HoldPrice, RemoteTypeOK, RemoteStage
  <2>5. OwnBids'
    BY <1>1, <2>1 DEF OwnBids
  <2>6. ASSUME NEW y \in RemoteTask PROVE Tracked(y)'
    BY <1>1, <1>3, <2>1 DEF RemoteGoes, HoldPrice, Tracked, RemoteTypeOK
  <2>7. QED
    BY <2>3, <2>4, <2>5, <2>6
<1>6. CASE BidRefused(x)
  <2>1. /\ RemoteGoes(x, "selected", "failed")
        /\ UNCHANGED <<remoteRequests, remoteBids, remoteJobs, remoteEscrow,
                       remoteFunds, acceptedJobs, unstored>>
    BY <1>6 DEF BidRefused
  <2>2. RemoteTypeOK'
    BY <1>1, <2>1 DEF RemoteGoes, RemoteTypeOK, RemoteStage
  <2>3. OwnBids'
    BY <1>1, <2>1 DEF OwnBids
  <2>4. ASSUME NEW y \in RemoteTask PROVE Tracked(y)'
    BY <1>1, <2>1 DEF RemoteGoes, Tracked, RemoteTypeOK
  <2>5. Spent'
    BY <1>1, <2>1, SpentSame, WinnersSame
  <2>6. QED
    BY <2>2, <2>3, <2>4, <2>5
<1>7. QED
  BY <1>2, <1>4, <1>5, <1>6

LEMMA RemoteStepIInv == RemoteIInv /\ [RemoteNext]_remoteVars => RemoteIInv'
<1> SUFFICES ASSUME RemoteIInv, [RemoteNext]_remoteVars PROVE RemoteIInv'
  OBVIOUS
<1>1. CASE RemoteNext
  BY <1>1, QuietStepIInv, BidStepIInv, CollectIInv, AcceptIInv DEF RemoteNext
<1>2. CASE UNCHANGED remoteVars
  <2> USE <1>2 DEF remoteVars, RemoteIInv
  <2>1. RemoteTypeOK' /\ OwnBids'
    BY DEF RemoteTypeOK, OwnBids
  <2>2. \A x \in RemoteTask : Tracked(x)'
    BY DEF Tracked
  <2>3. Spent'
    BY SpentSame, WinnersSame
  <2>4. QED
    BY <2>1, <2>2, <2>3
<1>3. QED
  BY <1>1, <1>2

-----------------------------------------------------------------------------
OffersIInv == PriceIInv /\ RemoteIInv

LEMMA OffersInvariance == OffersSpec => []OffersIInv
<1>1. OffersInit => OffersIInv
  BY PriceInitIInv, RemoteInitIInv DEF OffersInit, OffersIInv
<1>2. OffersIInv /\ [OffersNext]_offerVars => OffersIInv'
  <2> SUFFICES ASSUME OffersIInv, [OffersNext]_offerVars PROVE OffersIInv'
    OBVIOUS
  <2>1. [PriceNext]_priceVars /\ [RemoteNext]_remoteVars
    BY DEF OffersNext, offerVars
  <2>2. QED
    BY <2>1, PriceStepIInv, RemoteStepIInv DEF OffersIInv
<1>3. QED
  BY <1>1, <1>2, PTL DEF OffersSpec

\* Type correctness of both sides of an offer of work.
THEOREM OffersTypeCorrect == OffersSpec => []OffersTypeOK
<1>1. OffersIInv => OffersTypeOK
  BY DEF OffersIInv, OffersTypeOK, PriceIInv, RemoteIInv
<1>2. QED
  BY <1>1, OffersInvariance, PTL

\* For any rates and any history of loads and reputations, a bid is from 45 %
\* to 300 % of what its work comes to and within the truncations of the prices
\* of its parts; for any tasks sent out and any bids, the wallet is short of
\* just the prices of the bids that were accepted or whose escrow could not be
\* stored, each once, and an escrow is held for just the active jobs and, for
\* good, for those whose store failed (job/pricing.rs, executor/remote.rs).
THEOREM OffersAreAccounted == OffersSpec => []OffersAccounted
<1>1. OffersIInv => OffersAccounted
  <2> SUFFICES ASSUME OffersIInv PROVE OffersAccounted
    OBVIOUS
  <2>1. BidAsRated /\ PartsCostTheWhole
    BY PricesHold DEF OffersIInv
  <2>2. RemoteAccounted
    BY DEF OffersIInv, RemoteIInv, Spent, Tracked, RemoteAccounted
  <2>3. QED
    BY <2>1, <2>2 DEF OffersAccounted
<1>2. QED
  BY <1>1, OffersInvariance, PTL
=============================================================================
