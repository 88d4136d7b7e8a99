----------------------------- MODULE DailyCredit -----------------------------
(* What crediting return on investment promises: an investment is credited   *)
(* at most once for a date, in one step that adds the bonus to its owner's   *)
(* wallet and writes it on the owner's statement over the balance before.    *)
(* RoiCredit implements it as long as one job runs at a time.                *)
EXTENDS Integers, Sequences

CONSTANTS Users, Investments, Dates, Owner, Bonuses

VARIABLES
  statement,  \* statement[u]: u's transactions, oldest first
  balance     \* balance[u]: the balance of u's wallet

vars == <<statement, balance>>

Credited(i, d) ==
  \E k \in DOMAIN statement[Owner[i]] :
    LET entry == statement[Owner[i]][k] IN entry.inv = i /\ entry.date = d

Init ==
  /\ statement = [u \in Users |-> <<>>]
  /\ balance = [u \in Users |-> 0]

Credit(i, d, bonus) ==
  LET u == Owner[i] IN
  /\ bonus > 0
  /\ ~Credited(i, d)
  /\ statement' = [statement EXCEPT ![u] =
       Append(@, [inv |-> i, date |-> d, amount |-> bonus, before |-> balance[u]])]
  /\ balance' = [balance EXCEPT ![u] = @ + bonus]

Next == \E i \in Investments, d \in Dates, bonus \in Bonuses : Credit(i, d, bonus)

Spec == Init /\ [][Next]_vars
=============================================================================
