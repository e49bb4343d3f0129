---------------------------- MODULE EscrowLedger ----------------------------
(***************************************************************************)
(* What a wallet promises its owner across crashes: one ledger on disk     *)
(* that conserves tokens, on which an escrow only moves forward (held,     *)
(* then released or refunded, once), and which never takes back an outcome *)
(* a caller has been told.  Wallet implements it with its saved state.     *)
(***************************************************************************)
EXTENDS Integers

CONSTANT EscrowId

VARIABLES
    free, held, bonded,   \* where the owner's tokens are
    credited, paid,       \* what ever came in and went out
    status,               \* [EscrowId -> "None", "Active", "Released", "Refunded"]
    promised              \* the <<escrow, outcome>> pairs callers were told

ledgerVars == <<free, held, bonded, credited, paid, status, promised>>

\* The statuses an escrow seen with status s may have from then on.
Later(s) ==
    CASE s = "None"   -> {"None", "Active", "Released", "Refunded"}
      [] s = "Active" -> {"Active", "Released", "Refunded"}
      [] OTHER        -> {s}

Balanced == credited = free + held + bonded + paid

Kept(fact) == status[fact[1]] \in Later(fact[2])

Init ==
    /\ free = 0 /\ held = 0 /\ bonded = 0 /\ credited = 0 /\ paid = 0
    /\ status = [e \in EscrowId |-> "None"]
    /\ promised = {}

\* One save: any number of operations reach the disk together, and callers
\* are told of outcomes that are on it.
Commit ==
    /\ Balanced'
    /\ credited' >= credited /\ paid' >= paid
    /\ \A e \in EscrowId : status'[e] \in Later(status[e])
    /\ promised \subseteq promised'
    /\ \A fact \in promised' : Kept(fact)'

Spec == Init /\ [][Commit]_ledgerVars
=============================================================================
