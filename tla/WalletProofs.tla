---------------------------- MODULE WalletProofs ----------------------------
(***************************************************************************)
(* Proofs about Wallet, for every set of tasks, escrows, amounts, limits   *)
(* and bounds.  Every operation's effect Extends the state it is applied   *)
(* to (typed, balanced, no escrow moves back); since every write of memory *)
(* is such an effect and every write of the disk copies the memory, the    *)
(* disk is always a state memory Extends.                                  *)
(***************************************************************************)
EXTENDS Wallet, TotalsProofs

BalancedState(w) == w.credited = w.available + w.in_escrow + w.staked + w.paid

\* v is a state that operations may have led to from w.
Extends(w, v) ==
    /\ v \in WalletRecord
    /\ BalancedState(w) => BalancedState(v)
    /\ v.credited >= w.credited /\ v.paid >= w.paid /\ v.seq >= w.seq
    /\ \A e \in EscrowId : v.escrows[e].status \in Ledger!Later(w.escrows[e].status)

\* An outcome that state w holds, possibly superseded since.
Holds(w, fact) == w.escrows[fact[1]].status \in Ledger!Later(fact[2])

\* The inductive strengthening: the disk is behind memory, what a call in its
\* save phase will report is in memory, and what was reported is on disk.
DiskBehind == Extends(disk, mem)

PendingInMemory ==
    \A t \in Task : /\ call[t].seq <= mem.seq
                    /\ \A fact \in call[t].outcome : Holds(mem, fact)

ToldOnDisk == \A fact \in told : Holds(disk, fact)

IInv ==
    /\ TypeOK
    /\ Conserved
    /\ DiskBehind
    /\ PendingInMemory
    /\ ToldOnDisk
    /\ Durable

-----------------------------------------------------------------------------
LEMMA LaterReflexive == ASSUME NEW s PROVE s \in Ledger!Later(s)
BY DEF Ledger!Later

\* Only forward: Later composes.
LEMMA LaterTransitive ==
    ASSUME NEW r \in EscrowStatus, NEW s \in Ledger!Later(r), NEW u \in Ledger!Later(s)
    PROVE  u \in Ledger!Later(r)
BY DEF Ledger!Later, EscrowStatus

LEMMA ExtendsReflexive ==
    ASSUME NEW w \in WalletRecord PROVE Extends(w, w)
BY LaterReflexive DEF Extends, WalletRecord

LEMMA ExtendsTransitive ==
    ASSUME NEW w \in WalletRecord, NEW v \in WalletRecord, NEW u,
           Extends(w, v), Extends(v, u)
    PROVE  Extends(w, u)
<1>1. ASSUME NEW e \in EscrowId
      PROVE  u.escrows[e].status \in Ledger!Later(w.escrows[e].status)
  <2>1. w.escrows[e].status \in EscrowStatus
    BY DEF WalletRecord, Escrow
  <2>2. QED
    BY <2>1, LaterTransitive DEF Extends
<1>2. u.credited >= w.credited /\ u.paid >= w.paid /\ u.seq >= w.seq
  BY DEF Extends, WalletRecord
<1>3. QED
  BY <1>1, <1>2 DEF Extends

\* A held outcome stays held in every state reached from there.
LEMMA HoldsExtends ==
    ASSUME NEW w \in WalletRecord, NEW v, NEW fact \in Outcome,
           Extends(w, v), Holds(w, fact)
    PROVE  Holds(v, fact)
<1>1. fact[1] \in EscrowId /\ fact[2] \in EscrowStatus
  BY DEF Outcome, EscrowStatus
<1>2. QED
  BY <1>1, LaterTransitive DEF Holds, Extends

-----------------------------------------------------------------------------
(* Each operation's effect Extends the state it is applied to. *)

LEMMA CreditExtends ==
    ASSUME NEW w \in WalletRecord, NEW a \in Nat
    PROVE  Extends(w, AfterCredit(w, a))
<1>1. AfterCredit(w, a) \in WalletRecord
  <2>1. /\ w.available + a \in Nat /\ w.credited + a \in Nat
        /\ TrimmedHistory(w.transactions + 1) \in Nat /\ w.seq + 1 \in Nat
    BY ConfigAssumption DEF WalletRecord, TrimmedHistory
  <2>2. QED
    BY <2>1, Zenon DEF AfterCredit, WalletRecord
<1>2. QED
  BY <1>1, LaterReflexive DEF Extends, AfterCredit, WalletRecord, BalancedState

LEMMA StakeExtends ==
    ASSUME NEW w \in WalletRecord, NEW a \in Nat, a <= w.available
    PROVE  Extends(w, AfterStake(w, a))
<1>1. AfterStake(w, a) \in WalletRecord
  <2>1. /\ w.available - a \in Nat /\ w.staked + a \in Nat
        /\ w.transactions + 1 \in Nat /\ w.seq + 1 \in Nat
    BY DEF WalletRecord
  <2>2. QED
    BY <2>1, Zenon DEF AfterStake, WalletRecord
<1>2. QED
  BY <1>1, LaterReflexive DEF Extends, AfterStake, WalletRecord, BalancedState

LEMMA UnstakeExtends ==
    ASSUME NEW w \in WalletRecord, NEW a \in Nat, a <= w.staked
    PROVE  Extends(w, AfterUnstake(w, a))
<1>1. AfterUnstake(w, a) \in WalletRecord
  <2>1. /\ w.staked - a \in Nat /\ w.available + a \in Nat
        /\ w.transactions + 1 \in Nat /\ w.seq + 1 \in Nat
    BY DEF WalletRecord
  <2>2. QED
    BY <2>1, Zenon DEF AfterUnstake, WalletRecord
<1>2. QED
  BY <1>1, LaterReflexive DEF Extends, AfterUnstake, WalletRecord, BalancedState

LEMMA EffectiveAvailableBound ==
    ASSUME NEW w \in WalletRecord
    PROVE  EffectiveAvailable(w) \in Nat /\ EffectiveAvailable(w) <= w.available
BY ConfigAssumption DEF EffectiveAvailable, WalletRecord

LEMMA SpendRecordedType ==
    ASSUME NEW w \in WalletRecord, NEW h \in Hour, NEW a \in Nat
    PROVE  SpendRecorded(w, h, a) \in WalletRecord
<1> DEFINE hourly == [k \in Hour |-> IF k > h - HourWindow
                                     THEN w.hourly_spend[k] + (IF k = h THEN a ELSE 0) ELSE 0]
           daily == [d \in Day |-> IF d > DayOf(h) - DayWindow
                                   THEN w.daily_spend[d] + (IF d = DayOf(h) THEN a ELSE 0) ELSE 0]
<1>1. hourly \in [Hour -> Nat] /\ daily \in [Day -> Nat]
  BY DEF WalletRecord
<1>2. SpendRecorded(w, h, a) = [w EXCEPT !.hourly_spend = hourly, !.daily_spend = daily]
  BY DEF SpendRecorded
<1> HIDE DEF hourly, daily
<1>3. QED
  BY <1>1, <1>2, Zenon DEF WalletRecord

LEMMA DebitExtends ==
    ASSUME NEW w \in WalletRecord, NEW h \in Hour, NEW a \in Nat, a <= w.available
    PROVE  Extends(w, AfterDebit(w, h, a))
<1> DEFINE s == SpendRecorded(w, h, a)
<1>1. s \in WalletRecord
  BY SpendRecordedType
<1>2. /\ s.available = w.available /\ s.in_escrow = w.in_escrow /\ s.staked = w.staked
      /\ s.escrows = w.escrows /\ s.transactions = w.transactions
      /\ s.credited = w.credited /\ s.paid = w.paid /\ s.seq = w.seq
  BY DEF SpendRecorded, WalletRecord
<1>3. AfterDebit(w, h, a) =
        [s EXCEPT !.available = s.available - a, !.paid = s.paid + a,
                  !.debited = [s.debited EXCEPT ![h] = s.debited[h] + a],
                  !.transactions = s.transactions + 1, !.seq = s.seq + 1]
  BY DEF AfterDebit
<1> HIDE DEF s
<1>4. AfterDebit(w, h, a) \in WalletRecord
  <2>1. /\ s.available - a \in Nat /\ s.paid + a \in Nat
        /\ [s.debited EXCEPT ![h] = s.debited[h] + a] \in [Hour -> Nat]
        /\ s.transactions + 1 \in Nat /\ s.seq + 1 \in Nat
    BY <1>1, <1>2 DEF WalletRecord
  <2>2. QED
    BY <1>1, <1>3, <2>1, Zenon DEF WalletRecord
<1>5. /\ AfterDebit(w, h, a).available = w.available - a
      /\ AfterDebit(w, h, a).paid = w.paid + a
      /\ AfterDebit(w, h, a).seq = w.seq + 1
      /\ AfterDebit(w, h, a).credited = w.credited
      /\ AfterDebit(w, h, a).in_escrow = w.in_escrow
      /\ AfterDebit(w, h, a).staked = w.staked
      /\ AfterDebit(w, h, a).escrows = w.escrows
  BY <1>1, <1>2, <1>3 DEF WalletRecord
<1>6. QED
  BY <1>4, <1>5, LaterReflexive DEF Extends, WalletRecord, BalancedState

LEMMA CreateEscrowExtends ==
    ASSUME NEW w \in WalletRecord, NEW e \in EscrowId, NEW a \in Nat, a <= w.available,
           w.escrows[e].status = "None"
    PROVE  /\ Extends(w, AfterCreateEscrow(w, e, a))
           /\ Holds(AfterCreateEscrow(w, e, a), <<e, "Active">>)
<1> DEFINE v == AfterCreateEscrow(w, e, a)
<1>1. v \in WalletRecord
  <2>1. /\ w.available - a \in Nat /\ w.in_escrow + a \in Int
        /\ [w.escrows EXCEPT ![e] = [status |-> "Active", amount |-> a]] \in [EscrowId -> Escrow]
        /\ w.transactions + 1 \in Nat /\ w.seq + 1 \in Nat
    BY DEF WalletRecord, Escrow, EscrowStatus
  <2>2. QED
    BY <2>1, Zenon DEF AfterCreateEscrow, WalletRecord
<1>2. \A d \in EscrowId : v.escrows[d].status \in Ledger!Later(w.escrows[d].status)
  BY DEF AfterCreateEscrow, WalletRecord, Ledger!Later
<1>3. Holds(v, <<e, "Active">>)
  BY DEF AfterCreateEscrow, WalletRecord, Holds, Ledger!Later
<1>4. /\ v.credited = w.credited /\ v.seq = w.seq + 1
      /\ BalancedState(w) => BalancedState(v)
  BY DEF AfterCreateEscrow, WalletRecord, BalancedState
<1>5. v.paid >= w.paid
  BY DEF AfterCreateEscrow, WalletRecord
<1>6. v.credited >= w.credited /\ v.seq >= w.seq
  BY <1>4 DEF WalletRecord
<1>7. QED
  BY <1>1, <1>2, <1>3, <1>4, <1>5, <1>6, Zenon DEF Extends

LEMMA ReleaseExtends ==
    ASSUME NEW w \in WalletRecord, NEW e \in EscrowId, CanResolve(w, e)
    PROVE  /\ Extends(w, AfterRelease(w, e))
           /\ Holds(AfterRelease(w, e), <<e, "Released">>)
<1> DEFINE v == AfterRelease(w, e)
<1>1. v \in WalletRecord
  <2>1. /\ w.in_escrow - w.escrows[e].amount \in Int /\ w.paid + w.escrows[e].amount \in Nat
        /\ [w.escrows EXCEPT ![e].status = "Released"] \in [EscrowId -> Escrow]
        /\ w.transactions + 1 \in Nat /\ w.seq + 1 \in Nat
    BY DEF WalletRecord, Escrow, EscrowStatus
  <2>2. QED
    BY <2>1, Zenon DEF AfterRelease, WalletRecord
<1>2. \A d \in EscrowId : v.escrows[d].status \in Ledger!Later(w.escrows[d].status)
  BY DEF AfterRelease, CanResolve, WalletRecord, Escrow, Ledger!Later
<1>3. Holds(v, <<e, "Released">>)
  BY DEF AfterRelease, WalletRecord, Escrow, Holds, Ledger!Later
<1>4. w.escrows[e].amount \in Nat
  BY DEF WalletRecord, Escrow
<1>5. /\ v.credited = w.credited /\ v.seq = w.seq + 1
      /\ BalancedState(w) => BalancedState(v)
  BY <1>4 DEF AfterRelease, WalletRecord, BalancedState
<1>6. v.paid >= w.paid
  BY <1>4 DEF AfterRelease, WalletRecord
<1>7. v.credited >= w.credited /\ v.seq >= w.seq
  BY <1>5 DEF WalletRecord
<1>8. QED
  BY <1>1, <1>2, <1>3, <1>5, <1>6, <1>7, Zenon DEF Extends

LEMMA RefundExtends ==
    ASSUME NEW w \in WalletRecord, NEW e \in EscrowId, CanResolve(w, e)
    PROVE  /\ Extends(w, AfterRefund(w, e))
           /\ Holds(AfterRefund(w, e), <<e, "Refunded">>)
<1> DEFINE v == AfterRefund(w, e)
<1>1. v \in WalletRecord
  <2>1. /\ w.in_escrow - w.escrows[e].amount \in Int
        /\ w.available + w.escrows[e].amount \in Nat
        /\ [w.escrows EXCEPT ![e].status = "Refunded"] \in [EscrowId -> Escrow]
        /\ w.transactions + 1 \in Nat /\ w.seq + 1 \in Nat
    BY DEF WalletRecord, Escrow, EscrowStatus
  <2>2. QED
    BY <2>1, Zenon DEF AfterRefund, WalletRecord
<1>2. \A d \in EscrowId : v.escrows[d].status \in Ledger!Later(w.escrows[d].status)
  BY DEF AfterRefund, CanResolve, WalletRecord, Escrow, Ledger!Later
<1>3. Holds(v, <<e, "Refunded">>)
  BY DEF AfterRefund, WalletRecord, Escrow, Holds, Ledger!Later
<1>4. w.escrows[e].amount \in Nat
  BY DEF WalletRecord, Escrow
<1>5. /\ v.credited = w.credited /\ v.seq = w.seq + 1
      /\ BalancedState(w) => BalancedState(v)
  BY <1>4 DEF AfterRefund, WalletRecord, BalancedState
<1>6. v.paid >= w.paid
  BY <1>4 DEF AfterRefund, WalletRecord
<1>7. v.credited >= w.credited /\ v.seq >= w.seq
  BY <1>5 DEF WalletRecord
<1>8. QED
  BY <1>1, <1>2, <1>3, <1>5, <1>6, <1>7, Zenon DEF Extends

-----------------------------------------------------------------------------
(* The invariant is inductive. *)

LEMMA InitIInv == Init => IInv
<1> SUFFICES ASSUME Init PROVE IInv
  OBVIOUS
<1>1. DefaultWallet \in WalletRecord
  <2>1. /\ [e \in EscrowId |-> NoEscrow] \in [EscrowId -> Escrow]
        /\ [h \in Hour |-> 0] \in [Hour -> Nat] /\ [d \in Day |-> 0] \in [Day -> Nat]
        /\ 0 \in Nat /\ 0 \in Int
    BY DEF NoEscrow, Escrow, EscrowStatus
  <2>2. QED
    BY <2>1, Zenon DEF DefaultWallet, WalletRecord
<1>2. TypeOK
  BY <1>1, WalletAssumption DEF Init, TypeOK, Idle, Call
<1>3. Conserved
  BY DEF Init, Conserved, DefaultWallet
<1>4. DiskBehind
  BY <1>1, ExtendsReflexive DEF Init, DiskBehind
<1>5. PendingInMemory /\ ToldOnDisk /\ Durable
  BY DEF Init, PendingInMemory, ToldOnDisk, Durable, Idle, DefaultWallet
<1>6. QED
  BY <1>2, <1>3, <1>4, <1>5 DEF IInv

\* One argument for all seven operations: an effect that Extends memory keeps
\* the invariant.
LEMMA MutateIInv ==
    ASSUME IInv, NEW t \in Task, NEW w, NEW outcome \in SUBSET Outcome,
           Mutate(t, w, outcome), Extends(mem, w),
           \A fact \in outcome : Holds(w, fact)
    PROVE  IInv'
<1>1. /\ mem' = w /\ w \in WalletRecord /\ mem \in WalletRecord /\ disk \in WalletRecord
      /\ UNCHANGED <<disk, hour, told, acked>>
      /\ call \in [Task -> Call]
      /\ w.seq \in Nat /\ mem.seq \in Nat /\ w.seq >= mem.seq
  BY DEF IInv, TypeOK, Mutate, Extends, WalletRecord
<1> DEFINE c == [pc |-> "saving", op |-> "none", amount |-> 0, seq |-> w.seq, outcome |-> outcome]
<1>2. call' = [call EXCEPT ![t] = c] /\ c \in Call
  BY <1>1 DEF Mutate, Call
<1>3. TypeOK'
  BY <1>1, <1>2 DEF IInv, TypeOK
<1>4. Conserved'
  BY <1>1 DEF IInv, Conserved, Extends, BalancedState
<1>5. DiskBehind'
  BY <1>1, ExtendsTransitive DEF IInv, DiskBehind
<1>6. PendingInMemory'
  <2>1. ASSUME NEW s \in Task
        PROVE  call'[s].seq <= mem'.seq /\ \A fact \in call'[s].outcome : Holds(mem', fact)
    <3>1. CASE s = t
      BY <1>1, <1>2, <3>1
    <3>2. CASE s # t
      <4>1. call'[s] = call[s] /\ call[s].seq \in Nat /\ call[s].outcome \subseteq Outcome
        BY <1>1, <1>2, <3>2 DEF Call
      <4>2. call[s].seq <= mem.seq /\ \A fact \in call[s].outcome : Holds(mem, fact)
        BY DEF IInv, PendingInMemory
      <4>3. QED
        BY <1>1, <4>1, <4>2, HoldsExtends
    <3>3. QED
      BY <3>1, <3>2
  <2>2. QED
    BY <2>1 DEF PendingInMemory, Holds
<1>7. ToldOnDisk' /\ Durable'
  BY <1>1 DEF IInv, ToldOnDisk, Durable, Holds
<1>8. QED
  BY <1>3, <1>4, <1>5, <1>6, <1>7 DEF IInv

\* Steps that only answer or forget a call leave both states alone.
LEMMA CallOnlyIInv ==
    ASSUME IInv, NEW t \in Task, NEW c \in Call, c.seq = 0, c.outcome = {},
           call' = [call EXCEPT ![t] = c], UNCHANGED <<mem, disk, hour, told, acked>>
    PROVE  IInv'
<1>1. TypeOK'
  BY DEF IInv, TypeOK
<1>2. PendingInMemory'
  BY DEF IInv, TypeOK, PendingInMemory, Holds, WalletRecord
<1>3. Conserved' /\ DiskBehind' /\ ToldOnDisk' /\ Durable'
  BY DEF IInv, Conserved, DiskBehind, ToldOnDisk, Durable, Extends, BalancedState, Holds
<1>4. QED
  BY <1>1, <1>2, <1>3 DEF IInv

LEMMA IdleType == Idle \in Call
BY DEF Idle, Call

LEMMA SaveIInv ==
    ASSUME IInv, NEW t \in Task, Save(t)
    PROVE  IInv'
<1>1. /\ disk' = mem /\ mem' = mem /\ hour' = hour /\ call' = [call EXCEPT ![t] = Idle]
      /\ told' = told \cup call[t].outcome
      /\ acked' = IF call[t].seq > acked THEN call[t].seq ELSE acked
      /\ mem \in WalletRecord /\ disk \in WalletRecord /\ call \in [Task -> Call]
      /\ told \subseteq Outcome /\ acked \in Nat
      /\ call[t].seq \in Nat /\ call[t].outcome \subseteq Outcome
      /\ call[t].seq <= mem.seq /\ \A fact \in call[t].outcome : Holds(mem, fact)
  BY DEF IInv, TypeOK, Save, Call, PendingInMemory
<1>2. TypeOK'
  BY <1>1, IdleType DEF IInv, TypeOK
<1>3. Conserved'
  BY <1>1 DEF IInv, Conserved
<1>4. DiskBehind'
  BY <1>1, ExtendsReflexive DEF DiskBehind
<1>5. PendingInMemory'
  BY <1>1 DEF IInv, PendingInMemory, Holds, Idle, WalletRecord
<1>6. ToldOnDisk'
  <2>1. \A fact \in told : Holds(mem, fact)
    BY <1>1, HoldsExtends DEF IInv, ToldOnDisk, DiskBehind
  <2>2. QED
    BY <1>1, <2>1 DEF ToldOnDisk, Holds
<1>7. Durable'
  BY <1>1 DEF IInv, Durable, DiskBehind, Extends, WalletRecord
<1>8. QED
  BY <1>2, <1>3, <1>4, <1>5, <1>6, <1>7 DEF IInv

LEMMA CrashIInv ==
    ASSUME IInv, CrashAndReload
    PROVE  IInv'
<1>1. /\ mem' = disk /\ disk' = disk /\ call' = [t \in Task |-> Idle]
      /\ UNCHANGED <<hour, told, acked>> /\ disk \in WalletRecord
  BY DEF IInv, TypeOK, CrashAndReload
<1>2. TypeOK'
  BY <1>1, IdleType DEF IInv, TypeOK
<1>3. Conserved' /\ ToldOnDisk' /\ Durable'
  BY <1>1 DEF IInv, Conserved, ToldOnDisk, Durable, Holds
<1>4. DiskBehind'
  BY <1>1, ExtendsReflexive DEF DiskBehind
<1>5. PendingInMemory'
  BY <1>1 DEF PendingInMemory, Idle, WalletRecord
<1>6. QED
  BY <1>2, <1>3, <1>4, <1>5 DEF IInv

\* Every step preserves the invariant: one case per action.
LEMMA NextIInv == IInv /\ [Next]_vars => IInv'
<1> SUFFICES ASSUME IInv, [Next]_vars PROVE IInv'
  OBVIOUS
<1>0. /\ mem \in WalletRecord /\ hour \in Hour /\ Amount \subseteq Nat
      /\ \A t \in Task : call[t].amount \in Nat
  BY WalletAssumption DEF IInv, TypeOK, Call
<1>1. ASSUME NEW t \in Task, NEW a \in Amount, Credit(t, a) PROVE IInv'
  BY <1>0, <1>1, CreditExtends, MutateIInv DEF Credit
<1>2. ASSUME NEW t \in Task, NEW a \in Amount, Stake(t, a) PROVE IInv'
  BY <1>0, <1>2, StakeExtends, MutateIInv DEF Stake
<1>3. ASSUME NEW t \in Task, NEW a \in Amount, Unstake(t, a) PROVE IInv'
  BY <1>0, <1>3, UnstakeExtends, MutateIInv DEF Unstake
<1>4. ASSUME NEW t \in Task, NEW a \in Amount, NEW op \in {"debit", "create_escrow"},
             CheckLimits(t, op, a)
      PROVE  IInv'
  <2> DEFINE c == [Idle EXCEPT !.pc = "checked", !.op = op, !.amount = a]
  <2>1. c \in Call /\ c.seq = 0 /\ c.outcome = {}
    BY <1>0 DEF Idle, Call
  <2>2. QED
    BY <1>4, <2>1, CallOnlyIInv DEF CheckLimits
<1>5. ASSUME NEW t \in Task, Debit(t) PROVE IInv'
  <2>1. call[t].amount <= mem.available
    BY <1>0, <1>5, EffectiveAvailableBound DEF Debit, WalletRecord
  <2>2. QED
    BY <1>0, <1>5, <2>1, DebitExtends, MutateIInv DEF Debit
<1>6. ASSUME NEW t \in Task, Refuse(t) PROVE IInv'
  <2>1. Idle.seq = 0 /\ Idle.outcome = {}
    BY DEF Idle
  <2>2. QED
    BY <1>6, <2>1, IdleType, CallOnlyIInv DEF Refuse
<1>7. ASSUME NEW t \in Task, NEW e \in EscrowId, CreateEscrow(t, e) PROVE IInv'
  <2>1. call[t].amount <= mem.available
    BY <1>0, <1>7, EffectiveAvailableBound DEF CreateEscrow, WalletRecord
  <2>2. <<e, "Active">> \in Outcome
    BY DEF Outcome
  <2>3. QED
    BY <1>0, <1>7, <2>1, <2>2, CreateEscrowExtends, MutateIInv DEF CreateEscrow
<1>8. ASSUME NEW t \in Task, NEW e \in EscrowId, ReleaseEscrow(t, e) PROVE IInv'
  <2>1. <<e, "Released">> \in Outcome
    BY DEF Outcome
  <2>2. QED
    BY <1>0, <1>8, <2>1, ReleaseExtends, MutateIInv DEF ReleaseEscrow
<1>9. ASSUME NEW t \in Task, NEW e \in EscrowId, RefundEscrow(t, e) PROVE IInv'
  <2>1. <<e, "Refunded">> \in Outcome
    BY DEF Outcome
  <2>2. QED
    BY <1>0, <1>9, <2>1, RefundExtends, MutateIInv DEF RefundEscrow
<1>10. ASSUME NEW t \in Task, Save(t) PROVE IInv'
  BY <1>10, SaveIInv
<1>11. ASSUME NEW t \in Task, SaveFails(t) PROVE IInv'
  <2>1. Idle.seq = 0 /\ Idle.outcome = {}
    BY DEF Idle
  <2>2. QED
    BY <1>11, <2>1, IdleType, CallOnlyIInv DEF SaveFails
<1>12. CASE CrashAndReload
  BY <1>12, CrashIInv
<1>13. CASE NextHour
  BY <1>13 DEF NextHour, IInv, TypeOK, Conserved, DiskBehind, PendingInMemory, ToldOnDisk,
               Durable, Holds, Extends, BalancedState
<1>14. CASE UNCHANGED vars
  BY <1>14 DEF vars, IInv, TypeOK, Conserved, DiskBehind, PendingInMemory, ToldOnDisk,
               Durable, Holds, Extends, BalancedState
<1>15. QED
  BY <1>1, <1>2, <1>3, <1>4, <1>5, <1>6, <1>7, <1>8, <1>9, <1>10, <1>11, <1>12, <1>13, <1>14
     DEF Next

LEMMA Invariance == Spec => []IInv
BY InitIInv, NextIInv, PTL DEF Spec

\* The wallet's memory, its saved copy and every call in flight keep their types:
\* no balance but in_escrow can go below zero, whatever the interleaving.
THEOREM TypeCorrect == Spec => []TypeOK
<1>1. IInv => TypeOK
  BY DEF IInv
<1>2. QED
  BY <1>1, Invariance, PTL

\* impl Wallet never creates or destroys a token, in memory or on disk, across
\* refused calls, failed stores and crashes.
THEOREM Conservation == Spec => []Conserved
<1>1. IInv => Conserved
  BY DEF IInv
<1>2. QED
  BY <1>1, Invariance, PTL

\* An Ok from any operation of impl Wallet means the operation survives a crash.
THEOREM Durability == Spec => []Durable
<1>1. IInv => Durable
  BY DEF IInv
<1>2. QED
  BY <1>1, Invariance, PTL

-----------------------------------------------------------------------------
(* The disk implements the ledger. *)

LEMMA InitLedger == Init => Ledger!Init
BY DEF Init, Ledger!Init, DefaultWallet, NoEscrow

\* Only Save writes the disk or reports an outcome; it commits.
LEMMA SaveCommits ==
    ASSUME IInv, IInv', NEW t \in Task, Save(t)
    PROVE  Ledger!Commit
<1>1. disk' = mem /\ told \subseteq told' /\ disk \in WalletRecord /\ mem \in WalletRecord
  BY DEF IInv, TypeOK, Save
<1>2. Ledger!Balanced'
  BY DEF IInv, Conserved, Ledger!Balanced
<1>3. \A fact \in told' : Ledger!Kept(fact)'
  BY DEF IInv, TypeOK, ToldOnDisk, Holds, Outcome, Ledger!Kept
<1>4. /\ disk'.credited >= disk.credited /\ disk'.paid >= disk.paid
      /\ \A e \in EscrowId : disk'.escrows[e].status \in Ledger!Later(disk.escrows[e].status)
  BY <1>1 DEF IInv, DiskBehind, Extends
<1>5. QED
  BY <1>1, <1>2, <1>3, <1>4 DEF Ledger!Commit

LEMMA StepLedger ==
    ASSUME IInv, IInv', [Next]_vars
    PROVE  [Ledger!Commit]_(Ledger!ledgerVars)
<1>1. ASSUME NEW t \in Task, Save(t) PROVE Ledger!Commit
  BY <1>1, SaveCommits
<1>2. ASSUME UNCHANGED <<disk, told>> PROVE UNCHANGED Ledger!ledgerVars
  BY <1>2 DEF Ledger!ledgerVars
<1>3. (\E t \in Task : Save(t)) \/ UNCHANGED <<disk, told>>
  BY DEF Next, vars, Credit, Stake, Unstake, CheckLimits, Debit, Refuse, CreateEscrow,
         ReleaseEscrow, RefundEscrow, SaveFails, CrashAndReload, NextHour, Mutate
<1>4. QED
  BY <1>1, <1>2, <1>3

\* Over all operations, failed stores and crashes, the saved wallet is a ledger
\* on which an escrow is resolved at most once and no reported outcome is lost.
THEOREM WalletImplementsLedger == Spec => LedgerSpec
<1>1. Init => Ledger!Init
  BY InitLedger
<1>2. IInv /\ IInv' /\ [Next]_vars => [Ledger!Commit]_(Ledger!ledgerVars)
  BY StepLedger
<1>3. QED
  BY <1>1, <1>2, Invariance, PTL DEF Spec, LedgerSpec, Ledger!Spec

-----------------------------------------------------------------------------
(* The tokens held are those of the Active escrows. *)

BackedState(w) ==
    /\ IsFiniteSet(Tokens(Amounts(w), Active(w)))
    /\ w.in_escrow = Held(w)

Backed == BackedState(mem) /\ BackedState(disk)

\* What moves no escrow leaves it backed.
LEMMA SameEscrowsBacked ==
    ASSUME NEW w, NEW v, BackedState(w), v.escrows = w.escrows, v.in_escrow = w.in_escrow
    PROVE  BackedState(v)
<1>1. Amounts(v) = Amounts(w) /\ Active(v) = Active(w)
  BY DEF Amounts, Active
<1>2. QED
  BY <1>1, Zenon DEF BackedState, Held

LEMMA CreateBacks ==
    ASSUME NEW w \in WalletRecord, NEW e \in EscrowId, NEW a \in Nat,
           w.escrows[e].status = "None", BackedState(w)
    PROVE  BackedState(AfterCreateEscrow(w, e, a))
<1> DEFINE v == AfterCreateEscrow(w, e, a)
<1>1. /\ v.escrows = [w.escrows EXCEPT ![e] = [status |-> "Active", amount |-> a]]
      /\ v.in_escrow = w.in_escrow + a /\ w.escrows \in [EscrowId -> Escrow]
  BY DEF AfterCreateEscrow, WalletRecord
<1> HIDE DEF v
<1>2. Active(v) = Active(w) \cup {e} /\ e \notin Active(w)
  BY <1>1 DEF Active
<1>3. Amounts(v)[e] = a /\ \A d \in Active(w) : Amounts(v)[d] = Amounts(w)[d]
  BY <1>1, <1>2 DEF Amounts, Active
<1>4. Tokens(Amounts(v), Active(w)) = Tokens(Amounts(w), Active(w))
      /\ Total(Amounts(v), Active(w)) = Total(Amounts(w), Active(w))
  BY <1>3, TotalSame
<1>5. IsFiniteSet(Tokens(Amounts(v), Active(w)))
  BY <1>4, Zenon DEF BackedState
<1>6. /\ IsFiniteSet(Tokens(Amounts(v), Active(v)))
      /\ Total(Amounts(v), Active(v)) = Total(Amounts(v), Active(w)) + a
  BY <1>2, <1>3, <1>5, TotalAdd
<1>7. v.in_escrow = Held(v)
  BY <1>1, <1>4, <1>6 DEF BackedState, Held
<1>8. QED
  BY <1>6, <1>7, Zenon DEF BackedState, v

\* Release and refund: one Active escrow is resolved, its amount not held any more.
LEMMA ResolveBacks ==
    ASSUME NEW w \in WalletRecord, NEW v, NEW e \in EscrowId, NEW status \in EscrowStatus,
           CanResolve(w, e), BackedState(w), status # "Active",
           v.escrows = [w.escrows EXCEPT ![e].status = status],
           v.in_escrow = w.in_escrow - w.escrows[e].amount
    PROVE  BackedState(v)
<1>1. /\ w.escrows \in [EscrowId -> Escrow] /\ w.escrows[e].amount \in Nat
      /\ w.in_escrow \in Int
  BY DEF WalletRecord, Escrow
<1>2. Active(v) = Active(w) \ {e} /\ e \in Active(w)
  BY <1>1 DEF Active, CanResolve, Escrow
<1>3. Amounts(v) = Amounts(w)
  <2>1. \A d \in EscrowId : v.escrows[d].amount = w.escrows[d].amount
    BY <1>1 DEF Escrow
  <2>2. QED
    BY <2>1 DEF Amounts
<1>4. Amounts(w)[e] = w.escrows[e].amount
  BY DEF Amounts
<1>5. /\ IsFiniteSet(Tokens(Amounts(w), Active(v)))
      /\ Total(Amounts(w), Active(v)) \in Nat
      /\ Total(Amounts(w), Active(w)) = Total(Amounts(w), Active(v)) + w.escrows[e].amount
  <2>1. IsFiniteSet(Tokens(Amounts(w), Active(w))) /\ Amounts(w)[e] \in Nat
    BY <1>1, <1>4, Zenon DEF BackedState
  <2>2. /\ IsFiniteSet(Tokens(Amounts(w), Active(w) \ {e}))
        /\ Total(Amounts(w), Active(w) \ {e}) \in Nat
        /\ Total(Amounts(w), Active(w)) = Total(Amounts(w), Active(w) \ {e}) + Amounts(w)[e]
    BY <1>2, <2>1, TotalRemove
  <2>3. QED
    BY <1>2, <1>4, <2>2, Zenon
<1>6. v.in_escrow = Held(v)
  BY <1>1, <1>3, <1>5 DEF BackedState, Held
<1>7. QED
  BY <1>3, <1>5, <1>6, Zenon DEF BackedState

LEMMA InitBacked == Init => Backed
<1> SUFFICES ASSUME Init PROVE Backed
  OBVIOUS
<1>1. Active(DefaultWallet) = {} /\ DefaultWallet.in_escrow = 0
  BY DEF Active, DefaultWallet, NoEscrow
<1>2. IsFiniteSet(Tokens(Amounts(DefaultWallet), {})) /\ Total(Amounts(DefaultWallet), {}) = 0
  BY TotalZero
<1>3. DefaultWallet.in_escrow = Held(DefaultWallet)
  BY <1>1, <1>2 DEF Held
<1>4. BackedState(DefaultWallet)
  BY <1>1, <1>2, <1>3, Zenon DEF BackedState
<1>5. mem = DefaultWallet /\ disk = DefaultWallet
  BY DEF Init
<1>6. QED
  BY <1>4, <1>5, Zenon DEF Backed

LEMMA MutateBacked ==
    ASSUME Backed, NEW t \in Task, NEW w, NEW outcome, Mutate(t, w, outcome), BackedState(w)
    PROVE  Backed'
<1>1. mem' = w /\ disk' = disk
  BY DEF Mutate
<1>2. QED
  BY <1>1 DEF Backed, BackedState, Held, Amounts, Active

\* Every step keeps memory and disk backed: one case per action.
LEMMA NextBacked == IInv /\ Backed /\ [Next]_vars => Backed'
<1> SUFFICES ASSUME IInv, Backed, [Next]_vars PROVE Backed'
  OBVIOUS
<1>0. /\ mem \in WalletRecord /\ hour \in Hour /\ \A t \in Task : call[t].amount \in Nat
      /\ BackedState(mem)
  BY DEF IInv, TypeOK, Call, Backed
<1>1. ASSUME NEW t \in Task, NEW a \in Amount, Credit(t, a) PROVE Backed'
  <2>1. /\ AfterCredit(mem, a).escrows = mem.escrows
        /\ AfterCredit(mem, a).in_escrow = mem.in_escrow
    BY <1>0 DEF AfterCredit, WalletRecord
  <2>2. QED
    BY <1>0, <1>1, <2>1, SameEscrowsBacked, MutateBacked DEF Credit
<1>2. ASSUME NEW t \in Task, NEW a \in Amount, Stake(t, a) PROVE Backed'
  <2>1. /\ AfterStake(mem, a).escrows = mem.escrows
        /\ AfterStake(mem, a).in_escrow = mem.in_escrow
    BY <1>0 DEF AfterStake, WalletRecord
  <2>2. QED
    BY <1>0, <1>2, <2>1, SameEscrowsBacked, MutateBacked DEF Stake
<1>3. ASSUME NEW t \in Task, NEW a \in Amount, Unstake(t, a) PROVE Backed'
  <2>1. /\ AfterUnstake(mem, a).escrows = mem.escrows
        /\ AfterUnstake(mem, a).in_escrow = mem.in_escrow
    BY <1>0 DEF AfterUnstake, WalletRecord
  <2>2. QED
    BY <1>0, <1>3, <2>1, SameEscrowsBacked, MutateBacked DEF Unstake
<1>4. ASSUME NEW t \in Task, Debit(t) PROVE Backed'
  <2>1. /\ AfterDebit(mem, hour, call[t].amount).escrows = mem.escrows
        /\ AfterDebit(mem, hour, call[t].amount).in_escrow = mem.in_escrow
    BY <1>0 DEF AfterDebit, SpendRecorded, WalletRecord
  <2>2. QED
    BY <1>0, <1>4, <2>1, SameEscrowsBacked, MutateBacked DEF Debit
<1>5. ASSUME NEW t \in Task, NEW e \in EscrowId, CreateEscrow(t, e) PROVE Backed'
  BY <1>0, <1>5, CreateBacks, MutateBacked DEF CreateEscrow
<1>6. ASSUME NEW t \in Task, NEW e \in EscrowId, ReleaseEscrow(t, e) PROVE Backed'
  <2>1. /\ AfterRelease(mem, e).escrows = [mem.escrows EXCEPT ![e].status = "Released"]
        /\ AfterRelease(mem, e).in_escrow = mem.in_escrow - mem.escrows[e].amount
    BY <1>0 DEF AfterRelease, WalletRecord
  <2>2. BackedState(AfterRelease(mem, e))
    BY <1>0, <1>6, <2>1, ResolveBacks DEF ReleaseEscrow, EscrowStatus
  <2>3. QED
    BY <1>6, <2>2, MutateBacked DEF ReleaseEscrow
<1>7. ASSUME NEW t \in Task, NEW e \in EscrowId, RefundEscrow(t, e) PROVE Backed'
  <2>1. /\ AfterRefund(mem, e).escrows = [mem.escrows EXCEPT ![e].status = "Refunded"]
        /\ AfterRefund(mem, e).in_escrow = mem.in_escrow - mem.escrows[e].amount
    BY <1>0 DEF AfterRefund, WalletRecord
  <2>2. BackedState(AfterRefund(mem, e))
    BY <1>0, <1>7, <2>1, ResolveBacks DEF RefundEscrow, EscrowStatus
  <2>3. QED
    BY <1>7, <2>2, MutateBacked DEF RefundEscrow
<1>8. ASSUME mem' \in {mem, disk}, disk' \in {mem, disk} PROVE Backed'
  BY <1>8 DEF Backed, BackedState, Held, Amounts, Active
<1>9. \/ mem' \in {mem, disk} /\ disk' \in {mem, disk}
      \/ \E t \in Task :
            \/ \E a \in Amount : Credit(t, a) \/ Stake(t, a) \/ Unstake(t, a)
            \/ Debit(t)
            \/ \E e \in EscrowId : CreateEscrow(t, e) \/ ReleaseEscrow(t, e) \/ RefundEscrow(t, e)
  BY DEF Next, vars, CheckLimits, Refuse, Save, SaveFails, CrashAndReload, NextHour
<1>10. QED
  BY <1>1, <1>2, <1>3, <1>4, <1>5, <1>6, <1>7, <1>8, <1>9

\* In memory and on disk in_escrow is the sum of the Active escrows, so the
\* subtractions of release_escrow and refund_escrow never wrap (wallet/mod.rs).
THEOREM EscrowsBacked == Spec => []EscrowBacked
<1>1. Backed => EscrowBacked
  BY DEF Backed, BackedState, EscrowBacked
<1>2. QED
  BY <1>1, Invariance, InitBacked, NextBacked, PTL DEF Spec

-----------------------------------------------------------------------------
(* How far concurrent debits pass the limits. *)

\* The spend trackers of w, and what was debited, agree from this hour on.
Tracked(w, now) ==
    /\ \A h \in Hour : h >= now => w.hourly_spend[h] = w.debited[h]
    /\ \A h \in Hour : h > now => w.debited[h] = 0
    /\ \A d \in Day : d >= DayOf(now) =>
          /\ IsFiniteSet(Tokens(w.debited, HoursOf(d)))
          /\ w.daily_spend[d] = Total(w.debited, HoursOf(d))

\* What the debits in flight have had checked.
Checked == [t \in Task |-> IF call[t].op = "debit" THEN call[t].amount ELSE 0]

CallsChecked ==
    \A t \in Task : /\ call[t].pc # "checked" => call[t].op = "none"
                    /\ Checked[t] <= max_spend_per_tx

\* A checked debit is as good as made: with those in flight, too, the limits
\* are passed by no more.
SpendBounded ==
    /\ mem.debited[hour] + Total(Checked, Task) <= Overshoot(max_spend_per_hour)
    /\ Total(mem.debited, HoursOf(DayOf(hour))) + Total(Checked, Task)
          <= Overshoot(max_spend_per_day)

SInv ==
    /\ Tracked(mem, hour) /\ Tracked(disk, hour)
    /\ \A h \in Hour : disk.debited[h] <= mem.debited[h]
    /\ CallsChecked /\ SpendBounded

-----------------------------------------------------------------------------
LEMMA DayLater ==
    ASSUME NEW h \in Hour, NEW g \in Hour, h <= g
    PROVE  DayOf(h) \in Day /\ DayOf(g) \in Day /\ DayOf(h) \in Nat /\ DayOf(g) \in Nat
           /\ DayOf(h) <= DayOf(g)
<1> DEFINE k == HoursPerDay
           a == h \div k
           b == g \div k
<1>1. k \in Nat \ {0} /\ h \in Nat /\ g \in Nat
  BY WindowAssumption
<1>2. a \in Int /\ b \in Int
  BY <1>1
<1>3. k * a <= h /\ h < k * a + k /\ k * b <= g /\ g < k * b + k
  BY <1>1, SMTT(30)
<1>4. DayOf(h) = a /\ DayOf(g) = b
  BY DEF DayOf
<1> HIDE DEF a, b, k
<1>5. a >= 0 /\ b >= 0
  BY <1>1, <1>2, <1>3, SMTT(30)
<1>6. a <= b
  BY <1>1, <1>2, <1>3, SMTT(30)
<1>7. DayOf(h) \in Day /\ DayOf(g) \in Day
  BY DEF Day
<1>8. QED
  BY <1>2, <1>4, <1>5, <1>6, <1>7

LEMMA CheckedType ==
    ASSUME TypeOK, CallsChecked
    PROVE  /\ \A t \in Task : Checked[t] \in Nat
           /\ IsFiniteSet(Tokens(Checked, Task)) /\ Total(Checked, Task) \in Nat
<1>1. \A t \in Task : Checked[t] \in Nat /\ Checked[t] <= max_spend_per_tx
  BY DEF TypeOK, Call, Checked, CallsChecked
<1>2. QED
  BY <1>1, WalletAssumption, ConfigAssumption, TotalBounded

LEMMA OthersBounded ==
    ASSUME TypeOK, CallsChecked, NEW t \in Task
    PROVE  /\ IsFiniteSet(Tokens(Checked, Task \ {t})) /\ Total(Checked, Task \ {t}) \in Nat
           /\ Total(Checked, Task \ {t}) <= (Cardinality(Task) - 1) * max_spend_per_tx
<1>1. IsFiniteSet(Task \ {t}) /\ Cardinality(Task \ {t}) = Cardinality(Task) - 1
  BY WalletAssumption, FS_RemoveElement
<1>2. max_spend_per_tx \in Nat
  BY ConfigAssumption
<1>3. \A u \in Task \ {t} : Checked[u] \in Nat /\ Checked[u] <= max_spend_per_tx
  BY DEF TypeOK, Call, Checked, CallsChecked
<1>4. QED
  BY <1>1, <1>2, <1>3, TotalBounded

\* Sums over the hours of a day, from today on.
LEMMA DaySum ==
    ASSUME NEW w \in WalletRecord, Tracked(w, hour), hour \in Hour, NEW d \in Day, d >= DayOf(hour)
    PROVE  /\ IsFiniteSet(Tokens(w.debited, HoursOf(d)))
           /\ Total(w.debited, HoursOf(d)) \in Nat
           /\ w.daily_spend[d] = Total(w.debited, HoursOf(d))
BY TotalType DEF Tracked

LEMMA OvershootType ==
    ASSUME NEW n \in Nat
    PROVE  Overshoot(n) \in Nat /\ Overshoot(n) >= n
<1>1. Cardinality(Task) \in Nat \ {0}
  BY WalletAssumption, FS_EmptySet, FS_CardinalityType
<1>2. (Cardinality(Task) - 1) * max_spend_per_tx \in Nat
  BY <1>1, ConfigAssumption
<1>3. QED
  BY <1>2 DEF Overshoot

-----------------------------------------------------------------------------
(* What a step does to what is checked and in flight. *)

\* One call changes: what the others have checked stays.
LEMMA CheckedChanges ==
    ASSUME TypeOK, CallsChecked, NEW t \in Task, NEW c, c.amount \in Nat,
           call' = [call EXCEPT ![t] = c]
    PROVE  /\ Total(Checked, Task \ {t}) \in Nat /\ Checked[t] \in Nat /\ Checked'[t] \in Nat
           /\ Total(Checked, Task) = Total(Checked, Task \ {t}) + Checked[t]
           /\ Total(Checked, Task)' = Total(Checked, Task \ {t}) + Checked'[t]
           /\ \A u \in Task \ {t} : Checked'[u] = Checked[u]
<1>1. call \in [Task -> Call]
  BY DEF TypeOK
<1>2. Checked'[t] \in Nat /\ \A u \in Task \ {t} : Checked'[u] = Checked[u]
  BY <1>1 DEF Checked
<1>3. Checked[t] \in Nat /\ IsFiniteSet(Tokens(Checked, Task))
  BY CheckedType
<1>4. Total(Checked, Task)' = Total(Checked', Task)
  BY DEF Total, Tokens
<1>5. ASSUME NEW g, g[t] \in Nat, \A u \in Task \ {t} : Checked[u] = g[u]
      PROVE  DifferAt(Checked, g, Task, t)
  BY <1>3, <1>5, TotalChange
<1>6. /\ Total(Checked, Task \ {t}) \in Nat
      /\ Total(Checked, Task) = Total(Checked, Task \ {t}) + Checked[t]
      /\ Total(Checked', Task) = Total(Checked, Task \ {t}) + Checked'[t]
  BY <1>2, <1>5 DEF DifferAt
<1>7. QED
  BY <1>2, <1>3, <1>4, <1>6

\* A call that ends, or goes on to save, has nothing checked any more.
LEMMA CheckedDrops ==
    ASSUME TypeOK, CallsChecked, NEW t \in Task, NEW c, c.op = "none", c.amount \in Nat,
           call' = [call EXCEPT ![t] = c]
    PROVE  /\ CallsChecked'
           /\ Total(Checked, Task \ {t}) \in Nat /\ Checked[t] \in Nat
           /\ Total(Checked, Task) = Total(Checked, Task \ {t}) + Checked[t]
           /\ Total(Checked, Task)' = Total(Checked, Task \ {t})
<1>0. Checked'[t] = 0
  BY DEF TypeOK, Checked
<1>1. /\ Total(Checked, Task \ {t}) \in Nat /\ Checked[t] \in Nat
      /\ Total(Checked, Task) = Total(Checked, Task \ {t}) + Checked[t]
      /\ Total(Checked, Task)' = Total(Checked, Task \ {t}) + Checked'[t]
      /\ \A u \in Task \ {t} : Checked'[u] = Checked[u]
  BY CheckedChanges
<1>2. CallsChecked'
  <2> SUFFICES ASSUME NEW u \in Task
               PROVE  /\ call'[u].pc # "checked" => call'[u].op = "none"
                      /\ Checked'[u] <= max_spend_per_tx
    BY DEF CallsChecked
  <2>1. CASE u = t
    BY <1>0, <2>1, ConfigAssumption DEF TypeOK
  <2>2. CASE u # t
    BY <1>1, <2>2 DEF CallsChecked, TypeOK
  <2>3. QED
    BY <2>1, <2>2
<1>3. QED
  BY <1>0, <1>1, <1>2

\* Nothing but the spends, the hour and the calls matters to the invariant.
LEMMA SameSpends ==
    ASSUME IInv, SInv, CallsChecked', SpendBounded',
           mem'.hourly_spend = mem.hourly_spend, mem'.daily_spend = mem.daily_spend,
           mem'.debited = mem.debited, hour' = hour, disk' \in {mem, disk}
    PROVE  SInv'
<1>1. /\ mem \in WalletRecord /\ hour \in Hour /\ Total(Checked, Task) \in Nat
      /\ mem.debited \in [Hour -> Nat]
  BY CheckedType DEF IInv, TypeOK, SInv, WalletRecord
<1>2. Tracked(mem, hour)'
  BY DEF SInv, Tracked
<1>3. Tracked(disk, hour)'
  BY DEF SInv, Tracked
<1>4. \A h \in Hour : disk'.debited[h] <= mem'.debited[h]
  BY <1>1 DEF SInv
<1>5. QED
  BY <1>2, <1>3, <1>4 DEF SInv

\* What the bound is made of.
LEMMA SpendTypes ==
    ASSUME IInv, SInv
    PROVE  /\ mem \in WalletRecord /\ disk \in WalletRecord /\ hour \in Hour /\ hour \in Nat
           /\ call \in [Task -> Call] /\ mem.debited \in [Hour -> Nat]
           /\ disk.debited \in [Hour -> Nat]
           /\ DayOf(hour) \in Day /\ DayOf(hour) \in Nat /\ hour \in HoursOf(DayOf(hour))
           /\ mem.debited[hour] \in Nat /\ Total(Checked, Task) \in Nat
           /\ IsFiniteSet(Tokens(mem.debited, HoursOf(DayOf(hour))))
           /\ Total(mem.debited, HoursOf(DayOf(hour))) \in Nat
           /\ Overshoot(max_spend_per_hour) \in Nat /\ Overshoot(max_spend_per_day) \in Nat
<1>1. /\ mem \in WalletRecord /\ disk \in WalletRecord /\ hour \in Hour /\ hour \in Nat
      /\ call \in [Task -> Call]
  BY WindowAssumption DEF IInv, TypeOK
<1>2. mem.debited \in [Hour -> Nat] /\ disk.debited \in [Hour -> Nat]
  BY <1>1 DEF WalletRecord
<1>3. DayOf(hour) \in Day /\ DayOf(hour) \in Nat
  BY <1>1, DayLater
<1>4. hour \in HoursOf(DayOf(hour)) /\ mem.debited[hour] \in Nat
  BY <1>1, <1>2 DEF HoursOf
<1>5. Total(Checked, Task) \in Nat
  BY CheckedType DEF IInv, SInv
<1>6. /\ IsFiniteSet(Tokens(mem.debited, HoursOf(DayOf(hour))))
      /\ Total(mem.debited, HoursOf(DayOf(hour))) \in Nat
  BY <1>1, <1>3, DaySum DEF SInv
<1>7. Overshoot(max_spend_per_hour) \in Nat /\ Overshoot(max_spend_per_day) \in Nat
  BY OvershootType, ConfigAssumption
<1>8. QED
  BY <1>1, <1>2, <1>3, <1>4, <1>5, <1>6, <1>7, Zenon

\* The spends stay and no more is in flight than before.
LEMMA FewerInFlight ==
    ASSUME IInv, SInv, Total(Checked, Task)' \in Nat,
           Total(Checked, Task)' <= Total(Checked, Task),
           mem'.debited = mem.debited, hour' = hour
    PROVE  SpendBounded'
<1>1. /\ mem.debited[hour] \in Nat /\ Total(Checked, Task) \in Nat
      /\ Total(mem.debited, HoursOf(DayOf(hour))) \in Nat
      /\ Overshoot(max_spend_per_hour) \in Nat /\ Overshoot(max_spend_per_day) \in Nat
  BY SpendTypes
<1>2. Total(mem.debited, HoursOf(DayOf(hour)))' = Total(mem.debited, HoursOf(DayOf(hour)))
  BY DEF HoursOf
<1>3. mem.debited[hour]' = mem.debited[hour]
  OBVIOUS
<1>4. mem.debited[hour]' + Total(Checked, Task)' <= Overshoot(max_spend_per_hour)
  BY <1>1, <1>3 DEF SInv, SpendBounded
<1>5. Total(mem.debited, HoursOf(DayOf(hour)))' + Total(Checked, Task)'
         <= Overshoot(max_spend_per_day)
  BY <1>1, <1>2 DEF SInv, SpendBounded
<1>6. QED
  BY <1>4, <1>5 DEF SpendBounded, Overshoot

LEMMA InitSInv == Init => SInv
<1> SUFFICES ASSUME Init PROVE SInv
  OBVIOUS
<1>1. /\ mem = DefaultWallet /\ disk = DefaultWallet /\ hour \in Hour /\ hour \in Nat
      /\ \A t \in Task : call[t] = Idle
  BY WalletAssumption, WindowAssumption DEF Init
<1>2. \A h \in Hour : DefaultWallet.hourly_spend[h] = 0 /\ DefaultWallet.debited[h] = 0
  BY DEF DefaultWallet
<1>3. \A d \in Day : DefaultWallet.daily_spend[d] = 0
  BY DEF DefaultWallet
<1>4. ASSUME NEW d
      PROVE  /\ IsFiniteSet(Tokens(DefaultWallet.debited, HoursOf(d)))
             /\ Total(DefaultWallet.debited, HoursOf(d)) = 0
  BY <1>2, TotalZero DEF HoursOf
<1>5. Tracked(DefaultWallet, hour)
  BY <1>2, <1>3, <1>4 DEF Tracked
<1>6. \A t \in Task : Checked[t] = 0
  BY <1>1 DEF Checked, Idle
<1>7. Total(Checked, Task) = 0
  BY <1>6, TotalZero
<1>8. Overshoot(max_spend_per_hour) \in Nat /\ Overshoot(max_spend_per_day) \in Nat
  BY OvershootType, ConfigAssumption
<1>9. SpendBounded
  BY <1>1, <1>2, <1>4, <1>7, <1>8 DEF SpendBounded
<1>10. CallsChecked
  BY <1>1, <1>6, ConfigAssumption DEF CallsChecked, Idle
<1>11. Tracked(mem, hour) /\ Tracked(disk, hour) /\ \A h \in Hour : disk.debited[h] <= mem.debited[h]
  BY <1>1, <1>2, <1>5
<1>12. QED
  BY <1>9, <1>10, <1>11 DEF SInv

\* A call ends, or goes on to save, without having spent.
LEMMA CallDrops ==
    ASSUME IInv, SInv, NEW t \in Task, NEW c, c.op = "none", c.amount \in Nat,
           call' = [call EXCEPT ![t] = c],
           mem'.hourly_spend = mem.hourly_spend, mem'.daily_spend = mem.daily_spend,
           mem'.debited = mem.debited, hour' = hour, disk' \in {mem, disk}
    PROVE  SInv'
<1>1. /\ CallsChecked'
      /\ Total(Checked, Task \ {t}) \in Nat /\ Checked[t] \in Nat
      /\ Total(Checked, Task) = Total(Checked, Task \ {t}) + Checked[t]
      /\ Total(Checked, Task)' = Total(Checked, Task \ {t})
  BY CheckedDrops DEF IInv, SInv
<1>2. Total(Checked, Task)' \in Nat /\ Total(Checked, Task)' <= Total(Checked, Task)
  BY <1>1
<1>3. SpendBounded'
  BY <1>2, FewerInFlight
<1>4. QED
  BY <1>1, <1>3, SameSpends

LEMMA MutateSInv ==
    ASSUME IInv, SInv, NEW t \in Task, NEW w, NEW outcome, Mutate(t, w, outcome),
           w.hourly_spend = mem.hourly_spend, w.daily_spend = mem.daily_spend,
           w.debited = mem.debited
    PROVE  SInv'
<1> DEFINE c == [pc |-> "saving", op |-> "none", amount |-> 0, seq |-> w.seq, outcome |-> outcome]
<1>1. c.op = "none" /\ c.amount \in Nat
  OBVIOUS
<1>2. call' = [call EXCEPT ![t] = c] /\ mem' = w /\ hour' = hour /\ disk' = disk
  BY DEF Mutate
<1> HIDE DEF c
<1>3. QED
  BY <1>1, <1>2, CallDrops

\* A limit that held with the amount is passed by what the others have checked.
LEMMA CheckLimitsSInv ==
    ASSUME IInv, SInv, NEW t \in Task, NEW a \in Amount, NEW op \in {"debit", "create_escrow"},
           CheckLimits(t, op, a)
    PROVE  SInv'
<1> DEFINE c == [Idle EXCEPT !.pc = "checked", !.op = op, !.amount = a]
           n == IF op = "debit" THEN a ELSE 0
           rest == Total(Checked, Task \ {t})
<1>1. a \in Nat /\ c.op = op /\ c.amount = a /\ c.pc = "checked"
  BY WalletAssumption DEF Idle
<1>2. /\ call' = [call EXCEPT ![t] = c] /\ mem' = mem /\ disk' = disk /\ hour' = hour
      /\ WithinLimits(mem, hour, a) /\ call[t].pc = "idle"
  BY DEF CheckLimits
<1> HIDE DEF c
<1>3. /\ rest \in Nat /\ Checked[t] \in Nat /\ Checked'[t] \in Nat
      /\ Total(Checked, Task) = rest + Checked[t]
      /\ Total(Checked, Task)' = rest + Checked'[t]
      /\ \A u \in Task \ {t} : Checked'[u] = Checked[u]
  <2>1. TypeOK /\ CallsChecked /\ c.amount \in Nat
    BY <1>1 DEF IInv, SInv
  <2>2. QED
    BY <1>2, <2>1, CheckedChanges
<1>4. Checked[t] = 0
  BY <1>2 DEF SInv, CallsChecked, Checked
<1>5. /\ Checked'[t] = n /\ n \in Nat
      /\ n <= a /\ a <= max_spend_per_tx /\ max_spend_per_tx \in Nat
  BY <1>1, <1>2, SpendTypes, ConfigAssumption DEF WithinLimits, Checked
<1> HIDE DEF n
<1>6. CallsChecked'
  <2> SUFFICES ASSUME NEW u \in Task
               PROVE  /\ call'[u].pc # "checked" => call'[u].op = "none"
                      /\ Checked'[u] <= max_spend_per_tx
    BY DEF CallsChecked
  <2>1. CASE u = t
    BY <1>1, <1>2, <1>5, <2>1, SpendTypes
  <2>2. CASE u # t
    BY <1>2, <1>3, <2>2, SpendTypes DEF SInv, CallsChecked
  <2>3. QED
    BY <2>1, <2>2
<1>7. rest <= (Cardinality(Task) - 1) * max_spend_per_tx
  BY OthersBounded DEF IInv, SInv
<1>8. (Cardinality(Task) - 1) * max_spend_per_tx \in Nat
  <2>1. Cardinality(Task) \in Nat \ {0}
    BY WalletAssumption, FS_EmptySet, FS_CardinalityType
  <2>2. QED
    BY <1>5, <2>1
<1>9. mem.debited[hour] + n <= max_spend_per_hour
  <2>1. mem.hourly_spend[hour] = mem.debited[hour] /\ mem.debited[hour] \in Nat
    BY SpendTypes DEF SInv, Tracked
  <2>2. QED
    BY <1>1, <1>2, <1>3, <1>5, <2>1, ConfigAssumption DEF WithinLimits
<1>10. Total(mem.debited, HoursOf(DayOf(hour))) + n <= max_spend_per_day
  <2>1. /\ mem.daily_spend[DayOf(hour)] = Total(mem.debited, HoursOf(DayOf(hour)))
        /\ Total(mem.debited, HoursOf(DayOf(hour))) \in Nat
    BY SpendTypes, DaySum DEF SInv
  <2>2. QED
    BY <1>1, <1>2, <1>3, <1>5, <2>1, ConfigAssumption DEF WithinLimits
<1>11. SpendBounded'
  <2>1. /\ mem.debited[hour] \in Nat /\ Total(mem.debited, HoursOf(DayOf(hour))) \in Nat
        /\ max_spend_per_hour \in Nat /\ max_spend_per_day \in Nat
    BY SpendTypes, ConfigAssumption
  <2>2. mem.debited[hour] + (rest + n) <= Overshoot(max_spend_per_hour)
    BY <1>3, <1>5, <1>7, <1>8, <1>9, <2>1 DEF Overshoot
  <2>3. Total(mem.debited, HoursOf(DayOf(hour))) + (rest + n) <= Overshoot(max_spend_per_day)
    BY <1>3, <1>5, <1>7, <1>8, <1>10, <2>1 DEF Overshoot
  <2>4. /\ Total(mem.debited, HoursOf(DayOf(hour)))' = Total(mem.debited, HoursOf(DayOf(hour)))
        /\ mem.debited[hour]' = mem.debited[hour]
    BY <1>2 DEF HoursOf
  <2>5. QED
    BY <1>3, <1>5, <2>2, <2>3, <2>4 DEF SpendBounded, Overshoot
<1>12. QED
  BY <1>2, <1>6, <1>11, SameSpends

\* A debit spends what it had checked: the sum of the two stays.
LEMMA DebitSInv ==
    ASSUME IInv, SInv, NEW t \in Task, Debit(t)
    PROVE  SInv'
<1> DEFINE a == call[t].amount
           w == AfterDebit(mem, hour, a)
           c == [pc |-> "saving", op |-> "none", amount |-> 0, seq |-> w.seq, outcome |-> {}]
           D == DayOf(hour)
           rest == Total(Checked, Task \ {t})
<1>1. a \in Nat /\ call[t].op = "debit" /\ mem' = w /\ disk' = disk /\ hour' = hour
  BY SpendTypes DEF Debit, Mutate, Call
<1>2. call' = [call EXCEPT ![t] = c] /\ c.op = "none" /\ c.amount \in Nat
  BY DEF Debit, Mutate
<1>3. /\ w.debited = [mem.debited EXCEPT ![hour] = mem.debited[hour] + a]
      /\ w.hourly_spend = SpendRecorded(mem, hour, a).hourly_spend
      /\ w.daily_spend = SpendRecorded(mem, hour, a).daily_spend
  <2>1. SpendRecorded(mem, hour, a).debited = mem.debited
    BY SpendTypes DEF SpendRecorded, WalletRecord
  <2>2. SpendRecorded(mem, hour, a) \in WalletRecord
    BY <1>1, SpendTypes, SpendRecordedType
  <2> DEFINE s == SpendRecorded(mem, hour, a)
  <2>3. w = [s EXCEPT !.available = s.available - a, !.paid = s.paid + a,
                      !.debited = [s.debited EXCEPT ![hour] = s.debited[hour] + a],
                      !.transactions = s.transactions + 1, !.seq = s.seq + 1]
    BY DEF AfterDebit
  <2> HIDE DEF s, w, a
  <2>4. QED
    BY <2>1, <2>2, <2>3 DEF s, WalletRecord
<1>4. \A h \in Hour : h >= hour =>
         w.hourly_spend[h] = mem.hourly_spend[h] + (IF h = hour THEN a ELSE 0)
  <2>1. \A h \in Hour : h \in Nat /\ (h >= hour => h > hour - HourWindow)
    <3>1. Hour \subseteq Nat /\ hour \in Nat /\ HourWindow \in Nat \ {0}
      BY SpendTypes, WindowAssumption
    <3>2. QED
      BY <3>1
  <2>2. \A h \in Hour : SpendRecorded(mem, hour, a).hourly_spend[h] =
           IF h > hour - HourWindow THEN mem.hourly_spend[h] + (IF h = hour THEN a ELSE 0) ELSE 0
    BY SpendTypes DEF SpendRecorded, WalletRecord
  <2>3. QED
    BY <1>3, <2>1, <2>2
<1>5. \A d \in Day : d >= D =>
         w.daily_spend[d] = mem.daily_spend[d] + (IF d = D THEN a ELSE 0)
  <2>1. \A d \in Day : d \in Nat /\ (d >= D => d > D - DayWindow)
    <3>1. \A h \in Hour : DayOf(h) \in Nat
      BY DayLater, WindowAssumption
    <3>2. D \in Nat /\ DayWindow \in Nat \ {0}
      BY SpendTypes, WindowAssumption
    <3>3. \A d \in Day : d \in Nat
      BY <3>1 DEF Day
    <3> HIDE DEF D
    <3>4. QED
      BY <3>2, <3>3
  <2>2. \A d \in Day : SpendRecorded(mem, hour, a).daily_spend[d] =
           IF d > D - DayWindow THEN mem.daily_spend[d] + (IF d = D THEN a ELSE 0) ELSE 0
    BY SpendTypes DEF SpendRecorded, WalletRecord
  <2> HIDE DEF D
  <2>3. QED
    BY <1>3, <2>1, <2>2
<1> HIDE DEF w, c, a
<1>6. /\ CallsChecked' /\ rest \in Nat
      /\ Total(Checked, Task) = rest + a /\ Total(Checked, Task)' = rest
  <2>1. TypeOK /\ CallsChecked
    BY DEF IInv, SInv
  <2>2. Checked[t] = a
    BY <1>1 DEF Checked, a
  <2>3. QED
    BY <1>2, <2>1, <2>2, CheckedDrops
<1>7. /\ w.debited[hour] = mem.debited[hour] + a
      /\ \A h \in Hour : h # hour => w.debited[h] = mem.debited[h]
      /\ \A h \in Hour : mem.debited[h] \in Nat /\ mem.debited[h] <= w.debited[h]
      /\ w.debited[hour] \in Nat
  BY <1>1, <1>3, SpendTypes
<1>8. /\ IsFiniteSet(Tokens(w.debited, HoursOf(D)))
      /\ Total(w.debited, HoursOf(D)) = Total(mem.debited, HoursOf(D)) + a
  <2>1. \A h \in HoursOf(D) \ {hour} : mem.debited[h] = w.debited[h]
    BY <1>7 DEF HoursOf
  <2>2. /\ IsFiniteSet(Tokens(mem.debited, HoursOf(D))) /\ hour \in HoursOf(D)
        /\ mem.debited[hour] \in Nat
    BY SpendTypes
  <2>3. DifferAt(mem.debited, w.debited, HoursOf(D), hour)
    BY <1>7, <2>1, <2>2, TotalChange
  <2>4. QED
    BY <1>1, <1>7, <2>2, <2>3 DEF DifferAt
<1>9. ASSUME NEW d \in Day, d > D
      PROVE  /\ IsFiniteSet(Tokens(w.debited, HoursOf(d)))
             /\ Total(w.debited, HoursOf(d)) = Total(mem.debited, HoursOf(d))
  <2>1. hour \notin HoursOf(d)
    BY <1>9, SpendTypes DEF HoursOf
  <2>2. \A h \in HoursOf(d) : w.debited[h] = mem.debited[h]
    BY <1>7, <2>1 DEF HoursOf
  <2>3. /\ Tokens(w.debited, HoursOf(d)) = Tokens(mem.debited, HoursOf(d))
        /\ Total(w.debited, HoursOf(d)) = Total(mem.debited, HoursOf(d))
    BY <2>2, TotalSame
  <2>4. IsFiniteSet(Tokens(mem.debited, HoursOf(d)))
    <3>1. d \in Nat /\ D \in Nat
      BY SpendTypes, DayLater, WindowAssumption DEF Day
    <3>2. d >= DayOf(hour)
      BY <1>9, <3>1
    <3>3. QED
      BY <3>2, SpendTypes, DaySum DEF SInv
  <2>5. QED
    BY <2>3, <2>4, Zenon
<1>10. Tracked(w, hour)
  <2>1. ASSUME NEW h \in Hour, h >= hour PROVE w.hourly_spend[h] = w.debited[h]
    BY <1>1, <1>4, <1>7, <2>1, SpendTypes DEF SInv, Tracked
  <2>2. ASSUME NEW h \in Hour, h > hour PROVE w.debited[h] = 0
    BY <1>7, <2>2, SpendTypes DEF SInv, Tracked
  <2>3. ASSUME NEW d \in Day, d >= D
        PROVE  /\ IsFiniteSet(Tokens(w.debited, HoursOf(d)))
               /\ w.daily_spend[d] = Total(w.debited, HoursOf(d))
    <3>1. /\ mem.daily_spend[d] = Total(mem.debited, HoursOf(d))
          /\ Total(mem.debited, HoursOf(d)) \in Nat
      BY <2>3, SpendTypes, DaySum DEF SInv
    <3>2. CASE d = D
      <4>1. w.daily_spend[d] = mem.daily_spend[d] + a
        BY <1>5, <2>3, <3>2
      <4>2. w.daily_spend[d] = Total(w.debited, HoursOf(d))
        BY <1>8, <3>1, <3>2, <4>1, Zenon
      <4>3. QED
        BY <1>8, <3>2, <4>2, Zenon
    <3>3. CASE d # D
      <4>1. d > D
        <5>1. d \in Nat /\ D \in Nat
          BY SpendTypes, DayLater, WindowAssumption DEF Day
        <5> HIDE DEF D
        <5>2. QED
          BY <2>3, <3>3, <5>1
      <4>2. w.daily_spend[d] = mem.daily_spend[d]
        BY <1>5, <2>3, <3>1, <3>3
      <4>3. QED
        BY <1>9, <3>1, <4>1, <4>2, Zenon
    <3>4. QED
      BY <3>2, <3>3, Zenon
  <2>4. QED
    BY <2>1, <2>2, <2>3, Zenon DEF Tracked
<1>11. Tracked(mem, hour)' /\ Tracked(disk, hour)'
  BY <1>1, <1>10 DEF SInv, Tracked
<1>12. \A h \in Hour : disk'.debited[h] <= mem'.debited[h]
  BY <1>1, <1>7, SpendTypes DEF SInv
<1>13. SpendBounded'
  <2>1. /\ mem.debited[hour] \in Nat /\ Total(mem.debited, HoursOf(D)) \in Nat
        /\ mem.debited[hour] + Total(Checked, Task) <= Overshoot(max_spend_per_hour)
        /\ Total(mem.debited, HoursOf(D)) + Total(Checked, Task) <= Overshoot(max_spend_per_day)
    BY SpendTypes DEF SInv, SpendBounded
  <2>2. /\ mem.debited[hour]' = mem.debited[hour] + a
        /\ Total(mem.debited, HoursOf(DayOf(hour)))' = Total(mem.debited, HoursOf(D)) + a
    BY <1>1, <1>7, <1>8 DEF HoursOf
  <2>3. mem.debited[hour]' + Total(Checked, Task)' <= Overshoot(max_spend_per_hour)
    BY <1>1, <1>6, <2>1, <2>2
  <2>4. Total(mem.debited, HoursOf(DayOf(hour)))' + Total(Checked, Task)'
           <= Overshoot(max_spend_per_day)
    BY <1>1, <1>6, <2>1, <2>2
  <2>5. QED
    BY <2>3, <2>4 DEF SpendBounded, Overshoot
<1>14. QED
  BY <1>6, <1>11, <1>12, <1>13 DEF SInv

\* After a crash nothing is in flight, and no more was saved than was spent.
LEMMA CrashSInv ==
    ASSUME IInv, SInv, CrashAndReload
    PROVE  SInv'
<1> DEFINE D == DayOf(hour)
<1>1. mem' = disk /\ disk' = disk /\ hour' = hour /\ call' = [t \in Task |-> Idle]
  BY DEF CrashAndReload
<1>2. \A t \in Task : call'[t].op = "none" /\ Checked'[t] = 0
  BY <1>1 DEF Idle, Checked
<1>3. Total(Checked, Task)' = 0
  <2>1. Total(Checked', Task) = 0
    BY <1>2, TotalZero
  <2>2. QED
    BY <2>1 DEF Total, Tokens
<1>4. CallsChecked'
  BY <1>2, ConfigAssumption DEF CallsChecked
<1>5. Tracked(mem, hour)' /\ Tracked(disk, hour)' /\ \A h \in Hour : disk'.debited[h] <= mem'.debited[h]
  BY <1>1, SpendTypes DEF SInv, Tracked
<1>6. disk.debited[hour] \in Nat /\ disk.debited[hour] <= mem.debited[hour]
  BY SpendTypes DEF SInv
<1>7. /\ Total(disk.debited, HoursOf(D)) \in Nat
      /\ Total(disk.debited, HoursOf(D)) <= Total(mem.debited, HoursOf(D))
  <2>1. \A h \in HoursOf(D) : /\ disk.debited[h] \in Nat /\ mem.debited[h] \in Nat
                             /\ disk.debited[h] <= mem.debited[h]
    BY SpendTypes DEF SInv, HoursOf
  <2>2. IsFiniteSet(Tokens(mem.debited, HoursOf(D)))
    BY SpendTypes
  <2> HIDE DEF D
  <2>3. QED
    BY <2>1, <2>2, TotalMonotone
<1>8. SpendBounded'
  <2>1. /\ mem.debited[hour] \in Nat /\ Total(mem.debited, HoursOf(D)) \in Nat
        /\ Total(Checked, Task) \in Nat
        /\ Overshoot(max_spend_per_hour) \in Nat /\ Overshoot(max_spend_per_day) \in Nat
        /\ mem.debited[hour] + Total(Checked, Task) <= Overshoot(max_spend_per_hour)
        /\ Total(mem.debited, HoursOf(D)) + Total(Checked, Task) <= Overshoot(max_spend_per_day)
    BY SpendTypes DEF SInv, SpendBounded
  <2>2. /\ mem.debited[hour]' = disk.debited[hour]
        /\ Total(mem.debited, HoursOf(DayOf(hour)))' = Total(disk.debited, HoursOf(D))
    BY <1>1 DEF HoursOf
  <2>3. mem.debited[hour]' + Total(Checked, Task)' <= Overshoot(max_spend_per_hour)
    BY <1>3, <1>6, <2>1, <2>2
  <2>4. Total(mem.debited, HoursOf(DayOf(hour)))' + Total(Checked, Task)'
           <= Overshoot(max_spend_per_day)
    BY <1>3, <1>7, <2>1, <2>2
  <2>5. QED
    BY <2>3, <2>4 DEF SpendBounded, Overshoot
<1>9. QED
  BY <1>4, <1>5, <1>8 DEF SInv

\* In a new hour, and on a new day, nothing is spent yet but what is in flight.
LEMMA NextHourSInv ==
    ASSUME IInv, SInv, NextHour
    PROVE  SInv'
<1> DEFINE D == DayOf(hour)
           E == DayOf(hour')
<1>1. /\ mem' = mem /\ disk' = disk /\ call' = call /\ hour' = hour + 1 /\ hour' \in Hour
      /\ hour \in Hour /\ hour \in Nat /\ \A h \in Hour : h \in Nat
  BY SpendTypes, WindowAssumption DEF NextHour
<1>2. Total(Checked, Task)' = Total(Checked, Task) /\ CallsChecked'
  BY <1>1 DEF SInv, CallsChecked, Checked
<1>3. D \in Nat /\ E \in Nat /\ D \in Day /\ E \in Day /\ D <= E
  BY <1>1, DayLater
<1>4. ASSUME NEW w, Tracked(w, hour) PROVE Tracked(w, hour')
  <2>1. \A d \in Day : d \in Nat
    BY <1>1, DayLater DEF Day
  <2> HIDE DEF D, E
  <2>2. \A d \in Day : d >= E => d >= D
    BY <1>3, <2>1
  <2>3. \A h \in Hour : (h >= hour' => h >= hour) /\ (h > hour' => h > hour)
    BY <1>1
  <2>4. QED
    BY <1>4, <2>2, <2>3 DEF Tracked, HoursOf, D, E
<1>5. Tracked(mem, hour)' /\ Tracked(disk, hour)'
  <2>1. Tracked(mem, hour') /\ Tracked(disk, hour')
    BY <1>4 DEF SInv
  <2>2. QED
    BY <1>1, <2>1
<1>6. mem.debited[hour'] = 0
  BY <1>1 DEF SInv, Tracked
<1>7. \/ E = D
      \/ Total(mem.debited, HoursOf(E)) = 0
  <2>1. ASSUME E # D, NEW h \in HoursOf(E) PROVE mem.debited[h] = 0
    <3>1. h \in Hour /\ DayOf(h) = E
      BY DEF HoursOf
    <3>2. h > hour
      <4>1. CASE h <= hour
        <5>1. DayOf(h) <= D /\ DayOf(h) \in Nat
          BY <1>1, <3>1, <4>1, DayLater
        <5> HIDE DEF D, E
        <5>2. QED
          BY <1>3, <2>1, <3>1, <5>1
      <4>2. QED
        BY <1>1, <3>1, <4>1
    <3>3. QED
      BY <3>1, <3>2 DEF SInv, Tracked
  <2> HIDE DEF E, D
  <2>2. QED
    BY <2>1, TotalZero
<1>8. SpendBounded'
  <2>1. /\ mem.debited[hour] \in Nat /\ Total(mem.debited, HoursOf(D)) \in Nat
        /\ Total(Checked, Task) \in Nat
        /\ Overshoot(max_spend_per_hour) \in Nat /\ Overshoot(max_spend_per_day) \in Nat
        /\ mem.debited[hour] + Total(Checked, Task) <= Overshoot(max_spend_per_hour)
        /\ Total(mem.debited, HoursOf(D)) + Total(Checked, Task) <= Overshoot(max_spend_per_day)
    BY SpendTypes DEF SInv, SpendBounded
  <2>2. /\ mem.debited[hour]' = 0
        /\ Total(mem.debited, HoursOf(DayOf(hour)))' = Total(mem.debited, HoursOf(E))
    BY <1>1, <1>6 DEF HoursOf
  <2>3. mem.debited[hour]' + Total(Checked, Task)' <= Overshoot(max_spend_per_hour)
    BY <1>2, <2>1, <2>2
  <2> HIDE DEF D, E
  <2>4. Total(mem.debited, HoursOf(E)) + Total(Checked, Task) <= Overshoot(max_spend_per_day)
    BY <1>7, <2>1
  <2>5. Total(mem.debited, HoursOf(DayOf(hour)))' + Total(Checked, Task)'
           <= Overshoot(max_spend_per_day)
    BY <1>2, <2>2, <2>4, Zenon
  <2>6. QED
    BY <2>3, <2>5 DEF SpendBounded, Overshoot
<1>9. \A h \in Hour : disk'.debited[h] <= mem'.debited[h]
  BY <1>1 DEF SInv
<1>10. QED
  BY <1>2, <1>5, <1>8, <1>9 DEF SInv

\* Every step keeps the bound: one case per action.
LEMMA NextSInv == IInv /\ SInv /\ [Next]_vars => SInv'
<1> SUFFICES ASSUME IInv, SInv, [Next]_vars PROVE SInv'
  OBVIOUS
<1>0. mem \in WalletRecord
  BY SpendTypes
<1>1. ASSUME NEW t \in Task, NEW a \in Amount, Credit(t, a) \/ Stake(t, a) \/ Unstake(t, a)
      PROVE  SInv'
  <2>1. \A w \in {AfterCredit(mem, a), AfterStake(mem, a), AfterUnstake(mem, a)} :
           /\ w.hourly_spend = mem.hourly_spend /\ w.daily_spend = mem.daily_spend
           /\ w.debited = mem.debited
    BY <1>0 DEF AfterCredit, AfterStake, AfterUnstake, WalletRecord
  <2>2. QED
    BY <1>1, <2>1, MutateSInv DEF Credit, Stake, Unstake
<1>2. ASSUME NEW t \in Task, NEW e \in EscrowId,
             CreateEscrow(t, e) \/ ReleaseEscrow(t, e) \/ RefundEscrow(t, e)
      PROVE  SInv'
  <2>1. \A w \in {AfterCreateEscrow(mem, e, call[t].amount), AfterRelease(mem, e),
                  AfterRefund(mem, e)} :
           /\ w.hourly_spend = mem.hourly_spend /\ w.daily_spend = mem.daily_spend
           /\ w.debited = mem.debited
    BY <1>0 DEF AfterCreateEscrow, AfterRelease, AfterRefund, WalletRecord
  <2>2. QED
    BY <1>2, <2>1, MutateSInv DEF CreateEscrow, ReleaseEscrow, RefundEscrow
<1>3. ASSUME NEW t \in Task, Refuse(t) \/ Save(t) \/ SaveFails(t) PROVE SInv'
  <2>1. /\ call' = [call EXCEPT ![t] = Idle] /\ mem' = mem /\ hour' = hour
        /\ disk' \in {mem, disk} /\ Idle.op = "none" /\ Idle.amount \in Nat
    BY <1>3 DEF Refuse, Save, SaveFails, Idle
  <2>2. QED
    BY <2>1, CallDrops
<1>4. ASSUME UNCHANGED vars PROVE SInv'
  BY <1>4 DEF vars, SInv, Tracked, CallsChecked, SpendBounded, Checked, Overshoot, HoursOf
<1>5. QED
  BY <1>1, <1>2, <1>3, <1>4, CheckLimitsSInv, DebitSInv, CrashSInv, NextHourSInv DEF Next

\* However many debits are checked before any of them is made, the hour's and
\* the day's limits are passed by one transaction per other task at most
\* (check_spending_limits and debit, wallet/mod.rs).
THEOREM OvershootIsBounded == Spec => []OvershootBounded
<1>1. IInv /\ SInv => OvershootBounded
  <2> SUFFICES ASSUME IInv, SInv PROVE OvershootBounded
    OBVIOUS
  <2>1. /\ mem.debited[hour] \in Nat /\ Total(mem.debited, HoursOf(DayOf(hour))) \in Nat
        /\ Total(Checked, Task) \in Nat
        /\ Overshoot(max_spend_per_hour) \in Nat /\ Overshoot(max_spend_per_day) \in Nat
    BY SpendTypes
  <2>2. QED
    BY <2>1 DEF SInv, SpendBounded, OvershootBounded
<1>2. QED
  BY <1>1, Invariance, InitSInv, NextSInv, PTL DEF Spec
=============================================================================
