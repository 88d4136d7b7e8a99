------------------------------ MODULE RoiCredit ------------------------------
(* Crediting the daily return on an investment.                              *)
(*                                                                           *)
(* A RoiWorker job loads the investment, its owner and the owner's wallet    *)
(* and cycle, looks whether the investment was credited for the date, and    *)
(* then writes the sums it computed from what it had loaded, and a           *)
(* transaction row, in one database transaction.  The loads and the look are *)
(* not part of that transaction.                                             *)
EXTENDS Integers, Sequences, FiniteSets, FiniteSetsExt, Bags

CONSTANTS
  Users, Investments,
  Owner,       \* the user of each investment
  Workers,     \* job processes that may run at once
  None,        \* a job without a date
  Bonuses,     \* what a job may compute; 0 when nothing qualifies
  LastDay,     \* bound: the dates are 1 .. LastDay
  MaxJobs,     \* bound: jobs pushed
  MaxCrashes   \* bound: processes that die with their listener

Dates == 1 .. LastDay

ASSUME ConstantsOK ==
  /\ Owner \in [Investments -> Users]
  /\ IsFiniteSet(Investments)
  /\ None \notin Nat
  /\ Bonuses \subseteq Nat
  /\ LastDay \in Nat \ {0}
  /\ MaxJobs \in Nat /\ MaxCrashes \in Nat

VARIABLES
  queue,      \* the bag of jobs pushed and not taken
  job,        \* job[w]: the job process w runs
  active,     \* active[i]: the investment's status is INVESTMENT_ACTIVE
  statement,  \* statement[u]: u's ROI rows of user_transactions, oldest first
  wallet,     \* wallet[u]: balance of the main wallet
  cycle,      \* cycle[u]: total_earnings of the current cycle
  earned,     \* earned[i]: earnings (and roi_income) of the investment
  today,
  pushed, crashes

vars == <<queue, job, active, statement, wallet, cycle, earned, today, pushed, crashes>>

Message == [inv : Investments, date : Dates \cup {None}]
Job == [pc : {"check", "pay", "ack"}, msg : Message, date : Dates, bonus : Bonuses,
        wallet : Nat, cycle : Nat, earned : Nat]   \* as the job loaded them
Idle == [pc |-> "idle"]
Entry == [inv : Investments, date : Dates, amount : Nat, before : Nat]

TypeOK ==
  /\ IsABag(queue) /\ BagToSet(queue) \subseteq Message
  /\ job \in [Workers -> Job \cup {Idle}]
  /\ active \in [Investments -> BOOLEAN]
  /\ statement \in [Users -> Seq(Entry)]
  /\ wallet \in [Users -> Nat]
  /\ cycle \in [Users -> Nat]
  /\ earned \in [Investments -> Nat]
  /\ today \in Dates
  /\ pushed \in Nat /\ crashes \in Nat

Init ==
  /\ queue = EmptyBag
  /\ job = [w \in Workers |-> Idle]
  /\ active = [i \in Investments |-> TRUE]
  /\ statement = [u \in Users |-> <<>>]
  /\ wallet = [u \in Users |-> 0]
  /\ cycle = [u \in Users |-> 0]
  /\ earned = [i \in Investments |-> 0]
  /\ today = 1
  /\ pushed = 0 /\ crashes = 0

------------------------------------------------------------------------------
InvOf(w) == job[w].msg.inv
UserOf(w) == Owner[InvOf(w)]
At(w, pc) == job[w].pc = pc
accounts == <<statement, wallet, cycle, earned>>

\* duplicate_check
Credited(i, d) ==
  \E k \in DOMAIN statement[Owner[i]] :
    LET entry == statement[Owner[i]][k] IN entry.inv = i /\ entry.date = d

\* Jobs come from outside; nothing keeps two from being the same.
Push(m) ==
  /\ pushed < MaxJobs
  /\ queue' = queue (+) SetToBag({m})
  /\ pushed' = pushed + 1
  /\ UNCHANGED <<job, active, accounts, today, crashes>>

\* Mutant of DateOf: a job without a date keeps none.
DateAsPushed(m) == m.date

\* A job that was pushed without a date is for the day on which it runs; the
\* message keeps no date.
DateOf(m) == IF m.date = None THEN today ELSE m.date

\* execute, as far as the duplicate check.
Load(w, m, bonus) ==
  LET u == Owner[m.inv] IN
  /\ At(w, "idle")
  /\ BagIn(m, queue)
  /\ queue' = queue (-) SetToBag({m})
  /\ job' = [job EXCEPT ![w] =
       [pc |-> IF active[m.inv] THEN "check" ELSE "ack", msg |-> m,
        date |-> DateOf(m), bonus |-> bonus,
        wallet |-> wallet[u], cycle |-> cycle[u], earned |-> earned[m.inv]]]
  /\ UNCHANGED <<active, accounts, today, pushed, crashes>>

\* isApplicableForROI says no.
NotApplicable(w, m) ==
  /\ At(w, "idle")
  /\ BagIn(m, queue)
  /\ queue' = queue (-) SetToBag({m})
  /\ UNCHANGED <<job, active, accounts, today, pushed, crashes>>

\* Mutant of CheckDuplicate: nothing is looked up.
CheckNothing(w) ==
  /\ At(w, "check")
  /\ job' = [job EXCEPT ![w].pc = "pay"]
  /\ UNCHANGED <<queue, active, accounts, today, pushed, crashes>>

CheckDuplicate(w) ==
  /\ At(w, "check")
  /\ job' = [job EXCEPT ![w].pc = IF Credited(InvOf(w), job[w].date) THEN "ack" ELSE "pay"]
  /\ UNCHANGED <<queue, active, accounts, today, pushed, crashes>>

\* Mutant of RowOf: before_balance is read after the bonus was added.
RowAfter(w) == [inv |-> InvOf(w), date |-> job[w].date, amount |-> job[w].bonus,
                before |-> job[w].wallet + job[w].bonus]

\* The row that addTransaction writes.
RowOf(w) == [inv |-> InvOf(w), date |-> job[w].date, amount |-> job[w].bonus,
             before |-> job[w].wallet]

\* Each sum that w writes differs from the one stored; a statement that
\* changes no row is taken for a failure.
Changes(w) ==
  /\ job[w].bonus > 0
  /\ job[w].wallet + job[w].bonus # wallet[UserOf(w)]
  /\ job[w].cycle + job[w].bonus # cycle[UserOf(w)]
  /\ job[w].earned + job[w].bonus # earned[InvOf(w)]

\* Mutant of Pay: committed without the update of the cycle.
PayPartly(w) ==
  LET u == UserOf(w) IN
  /\ At(w, "pay")
  /\ Changes(w)
  /\ wallet' = [wallet EXCEPT ![u] = job[w].wallet + job[w].bonus]
  /\ earned' = [earned EXCEPT ![InvOf(w)] = job[w].earned + job[w].bonus]
  /\ statement' = [statement EXCEPT ![u] = Append(@, RowOf(w))]
  /\ job' = [job EXCEPT ![w].pc = "ack"]
  /\ UNCHANGED <<queue, active, cycle, today, pushed, crashes>>

\* The database transaction.  It writes what was loaded plus the bonus, and is
\* committed only if each update changed its row: not with a bonus of 0, and
\* not when another worker has written the same sum already.
Pay(w) ==
  LET u == UserOf(w) IN
  /\ At(w, "pay")
  /\ Changes(w)
  /\ wallet' = [wallet EXCEPT ![u] = job[w].wallet + job[w].bonus]
  /\ cycle' = [cycle EXCEPT ![u] = job[w].cycle + job[w].bonus]
  /\ earned' = [earned EXCEPT ![InvOf(w)] = job[w].earned + job[w].bonus]
  /\ statement' = [statement EXCEPT ![u] = Append(@, RowOf(w))]
  /\ job' = [job EXCEPT ![w].pc = "ack"]
  /\ UNCHANGED <<queue, active, today, pushed, crashes>>

\* One of its statements changes no row or throws: the transaction is rolled
\* back and the job ends, not to be tried again.
RollBack(w) ==
  /\ At(w, "pay")
  /\ job' = [job EXCEPT ![w].pc = "ack"]
  /\ UNCHANGED <<queue, active, accounts, today, pushed, crashes>>

Acknowledge(w) ==
  /\ At(w, "ack")
  /\ job' = [job EXCEPT ![w] = Idle]
  /\ UNCHANGED <<queue, active, accounts, today, pushed, crashes>>

\* The process dies; its message is delivered again.
Crash(w) ==
  /\ ~At(w, "idle")
  /\ crashes < MaxCrashes
  /\ crashes' = crashes + 1
  /\ queue' = queue (+) SetToBag({job[w].msg})
  /\ job' = [job EXCEPT ![w] = Idle]
  /\ UNCHANGED <<active, accounts, today, pushed>>

\* An investment ends, or is taken up again.
ChangeStatus(i) ==
  /\ active' = [active EXCEPT ![i] = ~@]
  /\ UNCHANGED <<queue, job, accounts, today, pushed, crashes>>

Midnight ==
  /\ today < LastDay
  /\ today' = today + 1
  /\ UNCHANGED <<queue, job, active, accounts, pushed, crashes>>

Work(w) ==
  \/ \E m \in BagToSet(queue) :
       NotApplicable(w, m) \/ \E bonus \in Bonuses : Load(w, m, bonus)
  \/ CheckDuplicate(w) \/ Pay(w) \/ RollBack(w) \/ Acknowledge(w) \/ Crash(w)

Next ==
  \/ \E m \in Message : Push(m)
  \/ \E w \in Workers : Work(w)
  \/ \E i \in Investments : ChangeStatus(i)
  \/ Midnight

Spec == Init /\ [][Next]_vars

------------------------------------------------------------------------------
\* "check if not already credited": no investment has two rows for one date.
CreditedOnce ==
  \A u \in Users : \A k, l \in DOMAIN statement[u] :
    statement[u][k].inv = statement[u][l].inv /\ statement[u][k].date = statement[u][l].date
      => k = l

\* A statement reads as one: every row starts from the balance that the row
\* before it left, the first from 0, and the last leaves the wallet's balance.
After(entry) == entry.before + entry.amount
StatementAdds ==
  \A u \in Users :
    LET s == statement[u] IN
    /\ \A k \in DOMAIN s : s[k].before = IF k = 1 THEN 0 ELSE After(s[k - 1])
    /\ wallet[u] = IF s = <<>> THEN 0 ELSE After(s[Len(s)])

\* The wallet, the cycle and the investments of a user account for the same
\* money, whatever died or was rolled back between loading and paying.
BooksBalance ==
  \A u \in Users :
    /\ cycle[u] = wallet[u]
    /\ MapThenSumSet(LAMBDA i : earned[i], {i \in Investments : Owner[i] = u}) = wallet[u]

DC == INSTANCE DailyCredit WITH balance <- wallet

\* Jobs that are pushed twice, delivered twice, cut off or rolled back credit
\* each investment once for a date, each time from the balance as it is.
CreditsDaily == DC!Spec
=============================================================================
