---------------------------- MODULE WalletState ----------------------------
(***************************************************************************)
(* The persistent state of a wallet (struct WalletState) and what each     *)
(* operation of impl Wallet does to it while it holds the write lock.      *)
(* Everything here is a function from a state to a state: who calls it,    *)
(* and what happens between the check, the mutation and the save, is       *)
(* Wallet's business (and Marketplace's).                                  *)
(*                                                                         *)
(* Three fields are history, not fields of the Rust struct: `credited`,    *)
(* `paid` and `debited` add up what the transactions vector records, and   *)
(* `seq` counts the mutations applied.                                     *)
(***************************************************************************)
EXTENDS Integers, FiniteSets

CONSTANTS
    EscrowId,            \* the uuids an instance may draw
    Hour,                \* the hour keys (unix time / 3600) of the run
    HoursPerDay,         \* 24 in the code
    HourWindow,          \* hours of hourly_spend kept: 24 in the code
    DayWindow,           \* days of daily_spend kept: 30 in the code
    max_spend_per_tx, max_spend_per_hour, max_spend_per_day, reserve_balance,
    HistoryLimit         \* transactions credit keeps: 1000 in the code

ASSUME WindowAssumption ==
    /\ Hour \subseteq Nat
    /\ HoursPerDay \in Nat \ {0} /\ HourWindow \in Nat \ {0} /\ DayWindow \in Nat \ {0}

ASSUME ConfigAssumption ==
    /\ {max_spend_per_tx, max_spend_per_hour, max_spend_per_day} \subseteq Nat
    /\ reserve_balance \in Nat /\ HistoryLimit \in Nat

DayOf(h) == h \div HoursPerDay

Day == {DayOf(h) : h \in Hour}

EscrowStatus == {"None", "Active", "Released", "Refunded"}

Escrow == [status : EscrowStatus, amount : Nat]

NoEscrow == [status |-> "None", amount |-> 0]

\* in_escrow is a u64 the code decrements unchecked; that it never goes below
\* zero is a consequence of EscrowBacked in Wallet, not of the types.
WalletRecord ==
    [available : Nat, in_escrow : Int, staked : Nat,
     escrows : [EscrowId -> Escrow], transactions : Nat,
     hourly_spend : [Hour -> Nat], daily_spend : [Day -> Nat],
     credited : Nat, paid : Nat, debited : [Hour -> Nat], seq : Nat]

DefaultWallet ==
    [available |-> 0, in_escrow |-> 0, staked |-> 0,
     escrows |-> [e \in EscrowId |-> NoEscrow], transactions |-> 0,
     hourly_spend |-> [h \in Hour |-> 0], daily_spend |-> [d \in Day |-> 0],
     credited |-> 0, paid |-> 0, debited |-> [h \in Hour |-> 0], seq |-> 0]

-----------------------------------------------------------------------------
\* A mutation: what is held counts as available.
EffectiveAvailable_CountsHeld(w) ==
    IF w.available + w.in_escrow > reserve_balance
    THEN w.available + w.in_escrow - reserve_balance ELSE 0

\* available.saturating_sub(reserve_balance)
EffectiveAvailable(w) ==
    IF w.available > reserve_balance THEN w.available - reserve_balance ELSE 0

\* A mutation (a plausible bug the runs must notice): the hourly check forgets the new amount.
WithinLimits_ForgetsAmount(w, h, amount) ==
    /\ amount <= max_spend_per_tx
    /\ w.hourly_spend[h] <= max_spend_per_hour
    /\ w.daily_spend[DayOf(h)] + amount <= max_spend_per_day

\* check_spending_limits: the three limits, read from one snapshot.
WithinLimits(w, h, amount) ==
    /\ amount <= max_spend_per_tx
    /\ w.hourly_spend[h] + amount <= max_spend_per_hour
    /\ w.daily_spend[DayOf(h)] + amount <= max_spend_per_day

\* The trim that only credit performs.
TrimmedHistory(n) == IF n > HistoryLimit THEN HistoryLimit ELSE n

AfterCredit(w, amount) ==
    [w EXCEPT !.available = @ + amount, !.credited = @ + amount,
              !.transactions = TrimmedHistory(@ + 1), !.seq = @ + 1]

\* A mutation: the clean-up of daily_spend drops the entry just written when
\* the window is measured from the wrong end.
SpendRecorded_DropsToday(w, h, amount) ==
    [w EXCEPT
        !.hourly_spend = [k \in Hour |-> IF k > h - HourWindow
                                         THEN @[k] + (IF k = h THEN amount ELSE 0) ELSE 0],
        !.daily_spend = [d \in Day |-> IF d < DayOf(h) THEN @[d] ELSE 0]]

\* A spend enters both trackers, then entries older than the windows go.
SpendRecorded(w, h, amount) ==
    [w EXCEPT
        !.hourly_spend = [k \in Hour |-> IF k > h - HourWindow
                                         THEN @[k] + (IF k = h THEN amount ELSE 0) ELSE 0],
        !.daily_spend = [d \in Day |-> IF d > DayOf(h) - DayWindow
                                       THEN @[d] + (IF d = DayOf(h) THEN amount ELSE 0) ELSE 0]]

AfterDebit(w, h, amount) ==
    [SpendRecorded(w, h, amount) EXCEPT
        !.available = @ - amount, !.paid = @ + amount, !.debited[h] = @ + amount,
        !.transactions = @ + 1, !.seq = @ + 1]

\* create_escrow moves the funds; it does not touch the spend trackers.
AfterCreateEscrow(w, e, amount) ==
    [w EXCEPT !.available = @ - amount, !.in_escrow = @ + amount,
              !.escrows[e] = [status |-> "Active", amount |-> amount],
              !.transactions = @ + 1, !.seq = @ + 1]

\* A mutation: the status is changed after an await, so a second resolver
\* passes the Active check too.
CanResolve_Known(w, e) == w.escrows[e].status # "None"

\* Both resolvers return EscrowNotFound or EscrowAlreadyResolved otherwise.
CanResolve(w, e) == w.escrows[e].status = "Active"

\* A mutation: the release forgets the status.
AfterRelease_KeepsStatus(w, e) ==
    [w EXCEPT !.in_escrow = @ - w.escrows[e].amount, !.paid = @ + w.escrows[e].amount,
              !.transactions = @ + 1, !.seq = @ + 1]

AfterRelease(w, e) ==
    [w EXCEPT !.escrows[e].status = "Released",
              !.in_escrow = @ - w.escrows[e].amount, !.paid = @ + w.escrows[e].amount,
              !.transactions = @ + 1, !.seq = @ + 1]

\* A mutation: the refund forgets to lower in_escrow.
AfterRefund_KeepsHeld(w, e) ==
    [w EXCEPT !.escrows[e].status = "Refunded",
              !.available = @ + w.escrows[e].amount,
              !.transactions = @ + 1, !.seq = @ + 1]

AfterRefund(w, e) ==
    [w EXCEPT !.escrows[e].status = "Refunded",
              !.in_escrow = @ - w.escrows[e].amount,
              !.available = @ + w.escrows[e].amount,
              !.transactions = @ + 1, !.seq = @ + 1]

AfterStake(w, amount) ==
    [w EXCEPT !.available = @ - amount, !.staked = @ + amount,
              !.transactions = @ + 1, !.seq = @ + 1]

AfterUnstake(w, amount) ==
    [w EXCEPT !.staked = @ - amount, !.available = @ + amount,
              !.transactions = @ + 1, !.seq = @ + 1]
=============================================================================
