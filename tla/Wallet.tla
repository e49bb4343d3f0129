------------------------------- MODULE Wallet -------------------------------
(***************************************************************************)
(* One Wallet shared by the tasks of a node (wallet/mod.rs).               *)
(*                                                                         *)
(* Every operation is the same three steps, and other tasks run between    *)
(* them: (1) debit and create_escrow read the spend trackers under a read  *)
(* lock; (2) the operation mutates the state under the write lock and      *)
(* drops it; (3) save_state stores the whole current state under a read    *)
(* lock, and only then the caller gets Ok.  The store may fail (the caller *)
(* gets Err, the mutation stays in memory) and the process may crash       *)
(* anywhere (Wallet::new reloads the last saved state).                    *)
(***************************************************************************)
EXTENDS WalletState, Totals

CONSTANTS
    Task,           \* tokio tasks holding the Arc<Wallet>
    Amount,         \* amounts callers ask for
    FirstHour,      \* the hour the run starts in
    MaxCredited,    \* bound: tokens ever credited
    MaxOps          \* bound: mutations applied to one state

ASSUME WalletAssumption ==
    /\ Amount \subseteq Nat \ {0}     \* credit refuses 0; spending 0 moves nothing
    /\ FirstHour \in Hour
    /\ IsFiniteSet(Task) /\ Task # {}
    /\ MaxCredited \in Nat /\ MaxOps \in Nat

VARIABLES
    mem,      \* Wallet.state, behind its RwLock
    disk,     \* the "wallet_state" setting in the database
    call,     \* per task: where its current call is
    hour,     \* now / 3600
    told,     \* history: the escrow outcomes callers got Ok for
    acked     \* history: the newest mutation a caller got Ok for

vars == <<mem, disk, call, hour, told, acked>>

Outcome == EscrowId \X {"Active", "Released", "Refunded"}

\* checked: between check_spending_limits and the write lock;
\* saving: between drop(state) and the end of save_state.
Call == [pc : {"idle", "checked", "saving"}, op : {"none", "debit", "create_escrow"},
         amount : Nat, seq : Nat, outcome : SUBSET Outcome]

Idle == [pc |-> "idle", op |-> "none", amount |-> 0, seq |-> 0, outcome |-> {}]

TypeOK ==
    /\ mem \in WalletRecord
    /\ disk \in WalletRecord
    /\ call \in [Task -> Call]
    /\ hour \in Hour
    /\ told \subseteq Outcome
    /\ acked \in Nat

Init ==
    /\ mem = DefaultWallet
    /\ disk = DefaultWallet
    /\ call = [t \in Task |-> Idle]
    /\ hour = FirstHour
    /\ told = {}
    /\ acked = 0

-----------------------------------------------------------------------------
\* The write lock is held for exactly this step; save_state comes next.
Mutate(t, w, outcome) ==
    /\ mem.seq < MaxOps
    /\ mem' = w
    /\ call' = [call EXCEPT ![t] = [pc |-> "saving", op |-> "none", amount |-> 0,
                                    seq |-> w.seq, outcome |-> outcome]]
    /\ UNCHANGED <<disk, hour, told, acked>>

Credit(t, amount) ==
    /\ call[t].pc = "idle"
    /\ mem.credited + amount <= MaxCredited
    /\ Mutate(t, AfterCredit(mem, amount), {})

\* debit and create_escrow open with check_spending_limits; a refusal returns
\* Err and changes nothing.
CheckLimits(t, op, amount) ==
    /\ call[t].pc = "idle"
    /\ WithinLimits(mem, hour, amount)
    /\ call' = [call EXCEPT ![t] = [Idle EXCEPT !.pc = "checked", !.op = op, !.amount = amount]]
    /\ UNCHANGED <<mem, disk, hour, told, acked>>

Debit(t) ==
    /\ call[t].pc = "checked" /\ call[t].op = "debit"
    /\ call[t].amount <= EffectiveAvailable(mem)
    /\ Mutate(t, AfterDebit(mem, hour, call[t].amount), {})

CreateEscrow(t, e) ==
    /\ call[t].pc = "checked" /\ call[t].op = "create_escrow"
    /\ call[t].amount <= EffectiveAvailable(mem)
    /\ mem.escrows[e].status = "None"      \* a fresh uuid
    /\ Mutate(t, AfterCreateEscrow(mem, e, call[t].amount), {<<e, "Active">>})

\* InsufficientBalance: the balance is read again under the write lock.
Refuse(t) ==
    /\ call[t].pc = "checked"
    /\ call[t].amount > EffectiveAvailable(mem)
    /\ call' = [call EXCEPT ![t] = Idle]
    /\ UNCHANGED <<mem, disk, hour, told, acked>>

ReleaseEscrow(t, e) ==
    /\ call[t].pc = "idle"
    /\ CanResolve(mem, e)
    /\ Mutate(t, AfterRelease(mem, e), {<<e, "Released">>})

RefundEscrow(t, e) ==
    /\ call[t].pc = "idle"
    /\ CanResolve(mem, e)
    /\ Mutate(t, AfterRefund(mem, e), {<<e, "Refunded">>})

\* stake compares with the whole available balance, not the effective one.
Stake(t, amount) ==
    /\ call[t].pc = "idle"
    /\ amount <= mem.available
    /\ Mutate(t, AfterStake(mem, amount), {})

Unstake(t, amount) ==
    /\ call[t].pc = "idle"
    /\ amount <= mem.staked
    /\ Mutate(t, AfterUnstake(mem, amount), {})

\* A mutation: the caller is answered from memory before the store.
Save_AnswersFirst(t) ==
    /\ call[t].pc = "saving"
    /\ call' = [call EXCEPT ![t] = Idle]
    /\ told' = told \cup call[t].outcome
    /\ acked' = IF call[t].seq > acked THEN call[t].seq ELSE acked
    /\ UNCHANGED <<mem, disk, hour>>

\* save_state: the store and the Ok.  The read lock makes the stored snapshot
\* the memory of this very moment, later mutations of other tasks included.
Save(t) ==
    /\ call[t].pc = "saving"
    /\ disk' = mem
    /\ call' = [call EXCEPT ![t] = Idle]
    /\ told' = told \cup call[t].outcome
    /\ acked' = IF call[t].seq > acked THEN call[t].seq ELSE acked
    /\ UNCHANGED <<mem, hour>>

\* store_setting returned an error: the caller gets it, memory stays changed.
SaveFails(t) ==
    /\ call[t].pc = "saving"
    /\ call' = [call EXCEPT ![t] = Idle]
    /\ UNCHANGED <<mem, disk, hour, told, acked>>

\* The process dies and Wallet::new loads what was stored last.
CrashAndReload ==
    /\ mem' = disk
    /\ call' = [t \in Task |-> Idle]
    /\ UNCHANGED <<disk, hour, told, acked>>

NextHour ==
    /\ hour + 1 \in Hour
    /\ hour' = hour + 1
    /\ UNCHANGED <<mem, disk, call, told, acked>>

Next ==
    \/ \E t \in Task :
        \/ \E a \in Amount : Credit(t, a) \/ Stake(t, a) \/ Unstake(t, a)
        \/ \E a \in Amount, op \in {"debit", "create_escrow"} : CheckLimits(t, op, a)
        \/ Debit(t) \/ Refuse(t)
        \/ \E e \in EscrowId : CreateEscrow(t, e) \/ ReleaseEscrow(t, e) \/ RefundEscrow(t, e)
        \/ Save(t) \/ SaveFails(t)
    \/ CrashAndReload
    \/ NextHour

Spec == Init /\ [][Next]_vars

-----------------------------------------------------------------------------
(* Properties *)

\* No operation, refusal, failed store or crash creates or destroys tokens: in
\* memory and on disk, what was credited is what is available, held, staked or
\* was paid out (debited, or released from an escrow).
Conserved ==
    \A w \in {mem, disk} : w.credited = w.available + w.in_escrow + w.staked + w.paid

\* in_escrow is exactly what the Active escrows hold, in memory and on disk, so
\* the unchecked subtractions of release_escrow and refund_escrow never wrap.
Active(w) == {e \in EscrowId : w.escrows[e].status = "Active"}
Amounts(w) == [e \in EscrowId |-> w.escrows[e].amount]
Held(w) == Total(Amounts(w), Active(w))

EscrowBacked == \A w \in {mem, disk} : w.in_escrow = Held(w)

\* How far concurrent debits can pass a limit checked outside the write lock:
\* by what the other tasks had in flight, and no further, even when a check
\* made in one hour is used in the next (check_spending_limits, mod.rs:235).
Overshoot(limit) == limit + (Cardinality(Task) - 1) * max_spend_per_tx

HoursOf(d) == {h \in Hour : DayOf(h) = d}

OvershootBounded ==
    /\ mem.debited[hour] <= Overshoot(max_spend_per_hour)
    /\ Total(mem.debited, HoursOf(DayOf(hour))) <= Overshoot(max_spend_per_day)

\* An operation a caller got Ok for is on disk, whatever crashes or fails later:
\* the answer comes after a store of a state that includes the operation.
Durable == acked <= disk.seq

\* The disk implements the ledger of EscrowLedger: an escrow is released or
\* refunded at most once over all crashes, and an outcome reported to a caller
\* is never lost.
Ledger == INSTANCE EscrowLedger WITH
    free <- disk.available, held <- disk.in_escrow, bonded <- disk.staked,
    credited <- disk.credited, paid <- disk.paid,
    status <- [e \in EscrowId |-> disk.escrows[e].status], promised <- told

LedgerSpec == Ledger!Spec
=============================================================================
