------------------------------- MODULE Ledger -------------------------------
(***************************************************************************)
(* What an account with a log promises: its value is never negative, it    *)
(* changes only together with the log, one account at a time, and the log  *)
(* holds at most one entry for each reference.  The balances of Wallet     *)
(* implement it.                                                           *)
(***************************************************************************)
EXTENDS Integers

CONSTANTS Holders, References

VARIABLES
    value,      \* value[h]: what the account holds
    logged,     \* logged[h]: the sum of its log entries
    entries     \* the references that have an entry

LedgerInit ==
    /\ value = [h \in Holders |-> 0]
    /\ logged = [h \in Holders |-> 0]
    /\ entries = {}

(* One account changes, by an amount of any size, and the log with it. *)
Move(h) ==
    /\ value'[h] >= 0
    /\ value' = [value EXCEPT ![h] = value'[h]]
    /\ logged' = [logged EXCEPT ![h] = @ + value'[h] - value[h]]

(* An entry that names what it is for... *)
Post(h, ref) ==
    /\ ref \notin entries
    /\ entries' = entries \cup {ref}
    /\ Move(h)

(* ... and one that does not (refOrder is null). *)
Adjust(h) == Move(h) /\ UNCHANGED entries

LedgerNext == \E h \in Holders :
    Adjust(h) \/ \E ref \in References : Post(h, ref)

LedgerSpec == LedgerInit /\ [][LedgerNext]_<<value, logged, entries>>
=============================================================================
