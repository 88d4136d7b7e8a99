--------------------------- MODULE RoiCreditProofs ---------------------------
(* Proofs about RoiCredit: its types, and what it promises while no two jobs *)
(* of one user are under way at the same time, for any workers, users,       *)
(* investments, dates, bonuses, duplicate jobs and crashes.                  *)
EXTENDS RoiCredit, SumTheorems, TLAPS

LEMMA PutInBag ==
  ASSUME NEW B, IsABag(B), NEW m
  PROVE  IsABag(B (+) SetToBag({m})) /\ BagToSet(B (+) SetToBag({m})) = BagToSet(B) \cup {m}
  BY DEF IsABag, BagToSet, SetToBag, (+)

LEMMA TakeFromBag ==
  ASSUME NEW B, IsABag(B), NEW m
  PROVE  IsABag(B (-) SetToBag({m})) /\ BagToSet(B (-) SetToBag({m})) \subseteq BagToSet(B)
  BY DEF IsABag, BagToSet, SetToBag, (-)

LEMMA JobKinds ==
  ASSUME TypeOK, NEW w \in Workers, job[w].pc # "idle"
  PROVE  /\ job[w] \in Job /\ job[w].msg \in Message /\ job[w].date \in Dates
         /\ job[w].bonus \in Nat /\ job[w].wallet \in Nat /\ job[w].cycle \in Nat
         /\ job[w].earned \in Nat /\ InvOf(w) \in Investments /\ UserOf(w) \in Users
         /\ \A pc \in {"check", "pay", "ack"} : [job[w] EXCEPT !.pc = pc] \in Job
  <1>1. job[w] \in Job
    BY DEF TypeOK, Idle
  <1>2. job[w].msg \in Message /\ InvOf(w) \in Investments
    BY <1>1 DEF Job, Message, InvOf
  <1>3. UserOf(w) \in Users
    BY <1>2, ConstantsOK DEF UserOf
  <1>4. \A pc \in {"check", "pay", "ack"} : [job[w] EXCEPT !.pc = pc] \in Job
    BY <1>1 DEF Job
  <1>. QED
    BY <1>1, <1>2, <1>3, <1>4, ConstantsOK DEF Job

LEMMA TypeInit == Init => TypeOK
  <1>. SUFFICES ASSUME Init PROVE TypeOK
    OBVIOUS
  <1>1. IsABag(queue) /\ BagToSet(queue) = {}
    BY DEF Init, EmptyBag, SetToBag, IsABag, BagToSet
  <1>2. today \in Dates
    BY ConstantsOK DEF Init, Dates
  <1>. QED
    BY <1>1, <1>2 DEF Init, TypeOK

LEMMA TypeNext == TypeOK /\ [Next]_vars => TypeOK'
  <1>. SUFFICES ASSUME TypeOK, [Next]_vars PROVE TypeOK'
    OBVIOUS
  <1>. USE DEF TypeOK, accounts
  <1>1. ASSUME NEW m \in Message, Push(m) PROVE TypeOK'
    <2>1. queue' = queue (+) SetToBag({m})
          /\ UNCHANGED <<job, active, accounts, today, crashes>>
          /\ pushed' \in Nat
      BY <1>1 DEF Push
    <2>2. IsABag(queue') /\ BagToSet(queue') = BagToSet(queue) \cup {m}
      BY <2>1, PutInBag, Zenon
    <2>. QED
      BY <2>1, <2>2
  <1>2. ASSUME NEW w \in Workers, NEW m \in BagToSet(queue), NEW bonus \in Bonuses, Load(w, m, bonus)
        PROVE  TypeOK'
    <2>. DEFINE j == [pc |-> IF active[m.inv] THEN "check" ELSE "ack", msg |-> m,
                      date |-> DateOf(m), bonus |-> bonus, wallet |-> wallet[Owner[m.inv]],
                      cycle |-> cycle[Owner[m.inv]], earned |-> earned[m.inv]]
    <2>1. IsABag(queue') /\ BagToSet(queue') \subseteq Message
      BY <1>2, TakeFromBag DEF Load
    <2>2. m \in Message /\ m.inv \in Investments /\ DateOf(m) \in Dates
      BY DEF Message, DateOf
    <2>3. j \in Job
      BY <2>2, ConstantsOK DEF Job
    <2>4. job' = [job EXCEPT ![w] = j]
          /\ UNCHANGED <<active, accounts, today, pushed, crashes>>
      BY <1>2 DEF Load
    <2>. HIDE DEF j
    <2>. QED
      BY <2>1, <2>3, <2>4
  <1>3. ASSUME NEW w \in Workers, NEW m \in BagToSet(queue), NotApplicable(w, m) PROVE TypeOK'
    <2>1. IsABag(queue') /\ BagToSet(queue') \subseteq Message
      BY <1>3, TakeFromBag DEF NotApplicable
    <2>. QED
      BY <1>3, <2>1 DEF NotApplicable
  <1>4. ASSUME NEW w \in Workers, CheckDuplicate(w) PROVE TypeOK'
    <2>1. \A pc \in {"check", "pay", "ack"} : [job[w] EXCEPT !.pc = pc] \in Job
      BY <1>4, JobKinds DEF CheckDuplicate, At
    <2>. DEFINE j == [job[w] EXCEPT !.pc =
                        IF Credited(InvOf(w), job[w].date) THEN "ack" ELSE "pay"]
    <2>2. j \in Job
      BY <2>1
    <2>3. job' = [job EXCEPT ![w] = j]
      BY <1>4 DEF CheckDuplicate
    <2>4. UNCHANGED <<queue, active, accounts, today, pushed, crashes>>
      BY <1>4 DEF CheckDuplicate
    <2>. HIDE DEF j
    <2>. QED
      BY <2>2, <2>3, <2>4
  <1>5. ASSUME NEW w \in Workers, Pay(w) PROVE TypeOK'
    <2>1. /\ [job[w] EXCEPT !.pc = "ack"] \in Job /\ RowOf(w) \in Entry
          /\ InvOf(w) \in Investments /\ UserOf(w) \in Users
          /\ job[w].wallet + job[w].bonus \in Nat /\ job[w].cycle + job[w].bonus \in Nat
          /\ job[w].earned + job[w].bonus \in Nat
      <3>1. job[w].pc # "idle"
        BY <1>5 DEF Pay, At
      <3>2. /\ job[w].bonus \in Nat /\ job[w].wallet \in Nat /\ job[w].cycle \in Nat
            /\ job[w].earned \in Nat /\ job[w].date \in Dates
            /\ InvOf(w) \in Investments /\ UserOf(w) \in Users
        BY <3>1, JobKinds
      <3>3. RowOf(w) \in Entry
        BY <3>2 DEF RowOf, Entry
      <3>4. [job[w] EXCEPT !.pc = "ack"] \in Job
        BY <3>1, JobKinds
      <3>5. /\ job[w].wallet + job[w].bonus \in Nat /\ job[w].cycle + job[w].bonus \in Nat
            /\ job[w].earned + job[w].bonus \in Nat
        BY <3>2
      <3>. QED
        BY <3>2, <3>3, <3>4, <3>5, Zenon
    <2>2. job' = [job EXCEPT ![w] = [job[w] EXCEPT !.pc = "ack"]]
      BY <1>5 DEF Pay
    <2>3. statement' \in [Users -> Seq(Entry)]
      <3>1. Append(statement[UserOf(w)], RowOf(w)) \in Seq(Entry)
        BY <2>1
      <3>2. statement' = [statement EXCEPT ![UserOf(w)] = Append(@, RowOf(w))]
        BY <1>5 DEF Pay
      <3>. QED
        BY <3>1, <3>2
    <2>. QED
      BY <1>5, <2>1, <2>2, <2>3 DEF Pay
  <1>6. ASSUME NEW w \in Workers, RollBack(w) PROVE TypeOK'
    <2>1. [job[w] EXCEPT !.pc = "ack"] \in Job
      BY <1>6, JobKinds DEF RollBack, At
    <2>2. job' = [job EXCEPT ![w] = [job[w] EXCEPT !.pc = "ack"]]
      BY <1>6 DEF RollBack
    <2>. QED
      BY <1>6, <2>1, <2>2 DEF RollBack
  <1>7. ASSUME NEW w \in Workers, Acknowledge(w) PROVE TypeOK'
    BY <1>7 DEF Acknowledge
  <1>8. ASSUME NEW w \in Workers, Crash(w) PROVE TypeOK'
    <2>1. job[w].msg \in Message
      BY <1>8, JobKinds DEF Crash, At
    <2>2. queue' = queue (+) SetToBag({job[w].msg})
          /\ job' = [job EXCEPT ![w] = Idle] /\ crashes' \in Nat
          /\ UNCHANGED <<active, accounts, today, pushed>>
      BY <1>8 DEF Crash
    <2>3. IsABag(queue') /\ BagToSet(queue') = BagToSet(queue) \cup {job[w].msg}
      BY <2>2, PutInBag, Zenon
    <2>. QED
      BY <2>1, <2>2, <2>3
  <1>9. ASSUME NEW i \in Investments, ChangeStatus(i) PROVE TypeOK'
    BY <1>9 DEF ChangeStatus
  <1>10. CASE Midnight
    <2>1. today + 1 \in Dates
      BY <1>10, ConstantsOK DEF Midnight, Dates
    <2>. QED
      BY <1>10, <2>1 DEF Midnight
  <1>11. CASE UNCHANGED vars
    BY <1>11 DEF vars
  <1>. QED
    BY <1>1, <1>2, <1>3, <1>4, <1>5, <1>6, <1>7, <1>8, <1>9, <1>10, <1>11 DEF Next, Work

LEMMA TypeInvariant == Spec => []TypeOK
  BY TypeInit, TypeNext, PTL DEF Spec

\* TypeOK: every job has a date once it runs, and all sums are natural numbers.
THEOREM TypeCorrect == Spec => []TypeOK
  BY TypeInvariant

------------------------------------------------------------------------------
\* No two jobs of one user are between loading and paying, as when jobs run one
\* at a time.  What a job loaded is then still so when it pays, and what it did
\* not find has not been credited since.

Paying(w) == job[w].pc \in {"check", "pay"}

UsersApart ==
  \A v, w \in Workers : v # w /\ Paying(v) /\ Paying(w) => UserOf(v) # UserOf(w)

OneWorker == \A v, w \in Workers : v = w

LoadedIsCurrent ==
  \A w \in Workers : Paying(w) =>
    /\ job[w].wallet = wallet[UserOf(w)]
    /\ job[w].cycle = cycle[UserOf(w)]
    /\ job[w].earned = earned[InvOf(w)]
    /\ job[w].pc = "pay" => ~Credited(InvOf(w), job[w].date)

LEMMA LoadedInit == Init => LoadedIsCurrent
  BY DEF Init, LoadedIsCurrent, Paying, Idle

LEMMA LoadedNext == TypeOK /\ UsersApart /\ LoadedIsCurrent /\ [Next]_vars => LoadedIsCurrent'
  <1>. SUFFICES ASSUME TypeOK, UsersApart, LoadedIsCurrent, [Next]_vars,
                       NEW w \in Workers, job'[w].pc \in {"check", "pay"}
                PROVE  /\ job'[w].wallet = wallet'[UserOf(w)']
                       /\ job'[w].cycle = cycle'[UserOf(w)']
                       /\ job'[w].earned = earned'[InvOf(w)']
                       /\ job'[w].pc = "pay" => ~Credited(InvOf(w), job[w].date)'
    BY DEF LoadedIsCurrent, Paying
  <1>. USE DEF accounts
  <1>1. job \in [Workers -> Job \cup {Idle}]
    BY DEF TypeOK
  <1>2. CASE Work(w)
    <2>1. ASSUME NEW m \in BagToSet(queue), NEW bonus \in Bonuses, Load(w, m, bonus)
          PROVE  /\ job'[w].pc # "pay" /\ job'[w].wallet = wallet'[UserOf(w)']
                 /\ job'[w].cycle = cycle'[UserOf(w)'] /\ job'[w].earned = earned'[InvOf(w)']
      BY <1>1, <2>1 DEF Load, UserOf, InvOf
    <2>2. ASSUME NEW m \in BagToSet(queue), NotApplicable(w, m)
          PROVE  FALSE
      BY <2>2 DEF NotApplicable, At
    <2>3. CASE CheckDuplicate(w)
      <3>1. /\ job[w].pc = "check" /\ job[w] \in Job
            /\ job'[w] = [job[w] EXCEPT !.pc =
                            IF Credited(InvOf(w), job[w].date) THEN "ack" ELSE "pay"]
            /\ statement' = statement /\ wallet' = wallet /\ cycle' = cycle /\ earned' = earned
        BY <1>1, <2>3 DEF CheckDuplicate, At, Idle
      <3>2. job'[w].msg = job[w].msg /\ job'[w].date = job[w].date
            /\ job'[w].wallet = job[w].wallet /\ job'[w].cycle = job[w].cycle
            /\ job'[w].earned = job[w].earned /\ ~Credited(InvOf(w), job[w].date)
        BY <3>1 DEF Job
      <3>. QED
        BY <3>1, <3>2 DEF LoadedIsCurrent, Paying, UserOf, InvOf, Credited
    <2>4. CASE Pay(w) \/ RollBack(w) \/ Acknowledge(w) \/ Crash(w)
      <3>1. job'[w].pc \in {"ack", "idle"}
        BY <1>1, <2>4 DEF Pay, RollBack, Acknowledge, Crash, At, Idle, Job
      <3>. QED
        BY <3>1
    <2>. QED
      BY <1>2, <2>1, <2>2, <2>3, <2>4 DEF Work
  <1>3. ASSUME NEW v \in Workers, v # w, Work(v)
        PROVE  /\ job'[w].wallet = wallet'[UserOf(w)']
               /\ job'[w].cycle = cycle'[UserOf(w)']
               /\ job'[w].earned = earned'[InvOf(w)']
               /\ job'[w].pc = "pay" => ~Credited(InvOf(w), job[w].date)'
    <2>1. job'[w] = job[w]
      BY <1>1, <1>3
         DEF Work, Load, NotApplicable, CheckDuplicate, Pay, RollBack, Acknowledge, Crash
    <2>2. /\ Paying(w) /\ UserOf(w) \in Users /\ InvOf(w) \in Investments
          /\ job[w].wallet = wallet[UserOf(w)] /\ job[w].cycle = cycle[UserOf(w)]
          /\ job[w].earned = earned[InvOf(w)]
          /\ job[w].pc = "pay" => ~Credited(InvOf(w), job[w].date)
      BY <2>1, JobKinds DEF LoadedIsCurrent, Paying
    <2>3. UserOf(w)' = UserOf(w) /\ InvOf(w)' = InvOf(w)
      BY <2>1 DEF UserOf, InvOf
    <2>4. /\ wallet'[UserOf(w)] = wallet[UserOf(w)] /\ cycle'[UserOf(w)] = cycle[UserOf(w)]
          /\ earned'[InvOf(w)] = earned[InvOf(w)]
          /\ statement'[UserOf(w)] = statement[UserOf(w)]
      <3>1. CASE Pay(v)
        <4>1. UserOf(v) # UserOf(w)
          BY <1>3, <2>2, <3>1 DEF UsersApart, Paying, Pay, At
        <4>2. InvOf(v) # InvOf(w)
          BY <4>1 DEF UserOf
        <4>. QED
          BY <2>2, <3>1, <4>1, <4>2 DEF Pay, TypeOK
      <3>2. CASE ~Pay(v)
        BY <1>3, <3>2
           DEF Work, Load, NotApplicable, CheckDuplicate, RollBack, Acknowledge, Crash
      <3>. QED
        BY <3>1, <3>2
    <2>5. Credited(InvOf(w), job[w].date)' <=> Credited(InvOf(w), job[w].date)
      BY <2>1, <2>3, <2>4 DEF Credited, UserOf
    <2>. QED
      BY <2>1, <2>2, <2>3, <2>4, <2>5
  <1>4. CASE ~ \E v \in Workers : Work(v)
    <2>1. /\ job' = job /\ statement' = statement
          /\ wallet' = wallet /\ cycle' = cycle /\ earned' = earned
      BY <1>4 DEF Next, Push, ChangeStatus, Midnight, vars
    <2>. QED
      BY <2>1 DEF LoadedIsCurrent, Paying, UserOf, InvOf, Credited
  <1>. QED
    BY <1>2, <1>3, <1>4

LEMMA LoadedInvariant == Spec /\ []UsersApart => [](TypeOK /\ LoadedIsCurrent)
  BY TypeInvariant, LoadedInit, LoadedNext, PTL DEF Spec

------------------------------------------------------------------------------
\* What a step does to the statement and the wallet of a user.
LEMMA AccountStep ==
  ASSUME TypeOK, LoadedIsCurrent, [Next]_vars
  PROVE  \/ UNCHANGED <<statement, wallet>>
         \/ \E w \in Workers :
              /\ InvOf(w) \in Investments /\ job[w].date \in Dates /\ job[w].bonus \in Bonuses
              /\ UserOf(w) \in Users /\ job[w].bonus \in Nat /\ job[w].bonus > 0
              /\ ~Credited(InvOf(w), job[w].date)
              /\ job[w].wallet = wallet[UserOf(w)]
              /\ wallet' = [wallet EXCEPT ![UserOf(w)] = wallet[UserOf(w)] + job[w].bonus]
              /\ statement' = [statement EXCEPT ![UserOf(w)] = Append(@, RowOf(w))]
  <1>1. CASE \E w \in Workers : Pay(w)
    <2>1. PICK w \in Workers : Pay(w)
      BY <1>1
    <2>2. job[w].pc = "pay" /\ job[w].bonus > 0
      BY <2>1 DEF Pay, Changes, At
    <2>3. job[w].bonus \in Bonuses
      BY <2>2, JobKinds DEF Job
    <2>. QED
      BY <2>1, <2>2, <2>3, JobKinds DEF Pay, LoadedIsCurrent, Paying
  <1>2. CASE ~ \E w \in Workers : Pay(w)
    BY <1>2 DEF Next, Work, Push, Load, NotApplicable, CheckDuplicate, RollBack, Acknowledge,
                Crash, ChangeStatus, Midnight, vars, accounts
  <1>. QED
    BY <1>1, <1>2

LEMMA AddsInit == Init => StatementAdds
  BY DEF Init, StatementAdds

LEMMA AddsNext == TypeOK /\ LoadedIsCurrent /\ StatementAdds /\ [Next]_vars => StatementAdds'
  <1>. SUFFICES ASSUME TypeOK, LoadedIsCurrent, StatementAdds, [Next]_vars PROVE StatementAdds'
    OBVIOUS
  <1>1. CASE UNCHANGED <<statement, wallet>>
    BY <1>1 DEF StatementAdds, After
  <1>2. ASSUME NEW w \in Workers, UserOf(w) \in Users, job[w].bonus \in Nat,
               job[w].wallet = wallet[UserOf(w)],
               wallet' = [wallet EXCEPT ![UserOf(w)] = wallet[UserOf(w)] + job[w].bonus],
               statement' = [statement EXCEPT ![UserOf(w)] = Append(@, RowOf(w))],
               NEW u \in Users
        PROVE  /\ \A k \in DOMAIN statement'[u] :
                    statement'[u][k].before = IF k = 1 THEN 0 ELSE After(statement'[u][k - 1])
               /\ wallet'[u] = IF statement'[u] = <<>> THEN 0 ELSE After(statement'[u][Len(statement'[u])])
    <2>. DEFINE s == statement[u]
                r == RowOf(w)
    <2>1. /\ s \in Seq(Entry) /\ wallet[u] \in Nat
          /\ \A k \in DOMAIN s : s[k].before = IF k = 1 THEN 0 ELSE After(s[k - 1])
          /\ wallet[u] = IF s = <<>> THEN 0 ELSE After(s[Len(s)])
      BY DEF TypeOK, StatementAdds
    <2>2. CASE u # UserOf(w)
      <3>1. statement'[u] = s /\ wallet'[u] = wallet[u]
        BY <1>2, <2>2 DEF TypeOK
      <3>. QED
        BY <2>1, <3>1
    <2>3. CASE u = UserOf(w)
      <3>1. statement'[u] = Append(s, r) /\ wallet'[u] = wallet[u] + job[w].bonus
        BY <1>2, <2>3 DEF TypeOK
      <3>2. r.before = wallet[u] /\ After(r) = wallet[u] + job[w].bonus
        BY <1>2, <2>3 DEF RowOf, After
      <3>. DEFINE n == Len(s)
                  t == Append(s, r)
      <3>3. /\ n \in Nat /\ DOMAIN s = 1 .. n /\ (s = <<>> <=> n = 0)
            /\ DOMAIN t = 1 .. (n + 1) /\ Len(t) = n + 1 /\ t # <<>>
            /\ t[n + 1] = r /\ \A k \in 1 .. n : t[k] = s[k]
        BY <2>1
      <3>. HIDE DEF s, r, t, n
      <3>4. ASSUME NEW k \in 1 .. (n + 1)
            PROVE  t[k].before = IF k = 1 THEN 0 ELSE After(t[k - 1])
        <4>1. CASE k = n + 1
          BY <2>1, <3>2, <3>3, <4>1
        <4>2. CASE k # n + 1
          <5>1. k \in 1 .. n /\ t[k] = s[k] /\ (k # 1 => k - 1 \in 1 .. n /\ t[k - 1] = s[k - 1])
            BY <3>3, <4>2
          <5>. QED
            BY <2>1, <3>3, <5>1
        <4>. QED
          BY <4>1, <4>2
      <3>. QED
        BY <3>1, <3>2, <3>3, <3>4 DEF t
    <2>. QED
      BY <2>2, <2>3
  <1>. QED
    BY <1>1, <1>2, AccountStep DEF StatementAdds, After

\* StatementAdds, while the jobs of a user are kept apart: every row of a statement starts
\* from the balance the row before it left, and the last leaves the wallet's.
THEOREM StatementReads == Spec /\ []UsersApart => []StatementAdds
  BY LoadedInvariant, AddsInit, AddsNext, PTL DEF Spec

LEMMA OnceInit == Init => CreditedOnce
  BY DEF Init, CreditedOnce

LEMMA OnceNext == TypeOK /\ LoadedIsCurrent /\ CreditedOnce /\ [Next]_vars => CreditedOnce'
  <1>. SUFFICES ASSUME TypeOK, LoadedIsCurrent, CreditedOnce, [Next]_vars PROVE CreditedOnce'
    OBVIOUS
  <1>1. CASE UNCHANGED <<statement, wallet>>
    BY <1>1 DEF CreditedOnce
  <1>2. ASSUME NEW w \in Workers, UserOf(w) \in Users, ~Credited(InvOf(w), job[w].date),
               statement' = [statement EXCEPT ![UserOf(w)] = Append(@, RowOf(w))],
               NEW u \in Users, NEW k \in DOMAIN statement'[u], NEW l \in DOMAIN statement'[u],
               statement'[u][k].inv = statement'[u][l].inv,
               statement'[u][k].date = statement'[u][l].date
        PROVE  k = l
    <2>. DEFINE s == statement[u]
                r == RowOf(w)
    <2>1. s \in Seq(Entry)
      BY DEF TypeOK
    <2>2. ASSUME NEW i \in DOMAIN s, NEW j \in DOMAIN s,
                 s[i].inv = s[j].inv, s[i].date = s[j].date
          PROVE  i = j
      BY <2>2 DEF CreditedOnce
    <2>3. CASE u # UserOf(w)
      <3>1. statement'[u] = s
        BY <1>2, <2>3 DEF TypeOK
      <3>. HIDE DEF s
      <3>. QED
        BY <1>2, <2>2, <3>1
    <2>4. CASE u = UserOf(w)
      <3>1. statement'[u] = Append(s, r)
        BY <1>2, <2>4 DEF TypeOK
      <3>2. \A i \in DOMAIN s : ~(s[i].inv = r.inv /\ s[i].date = r.date)
        BY <1>2, <2>4 DEF Credited, RowOf, UserOf
      <3>. DEFINE n == Len(s)
                  t == Append(s, r)
      <3>3. /\ n \in Nat /\ DOMAIN s = 1 .. n /\ DOMAIN t = 1 .. (n + 1)
            /\ t[n + 1] = r /\ \A i \in 1 .. n : t[i] = s[i]
        BY <2>1
      <3>. HIDE DEF s, r, t, n
      <3>4. k \in 1 .. (n + 1) /\ l \in 1 .. (n + 1) /\ t[k].inv = t[l].inv /\ t[k].date = t[l].date
        BY <1>2, <3>1, <3>3 DEF t
      <3>5. CASE k = n + 1 \/ l = n + 1
        BY <3>2, <3>3, <3>4, <3>5
      <3>6. CASE k # n + 1 /\ l # n + 1
        <4>1. k \in 1 .. n /\ l \in 1 .. n
          BY <3>3, <3>4, <3>6
        <4>. QED
          BY <2>2, <3>3, <3>4, <4>1
      <3>. QED
        BY <3>5, <3>6
    <2>. QED
      BY <2>3, <2>4
  <1>. QED
    BY <1>1, <1>2, AccountStep DEF CreditedOnce

\* CreditedOnce, while the jobs of a user are kept apart: the duplicate check is
\* enough, however often a job is pushed, delivered or cut off.
THEOREM NeverCreditedTwice == Spec /\ []UsersApart => []CreditedOnce
  BY LoadedInvariant, OnceInit, OnceNext, PTL DEF Spec

\* CreditsDaily, while the jobs of a user are kept apart: every step is a credit of
\* DailyCredit, of an investment not yet credited for the date and over the
\* balance as it is, or leaves statements and wallets alone.
THEOREM ImplementsDailyCredit == Spec /\ []UsersApart => CreditsDaily
  <1>1. Init => DC!Init
    BY DEF Init, DC!Init
  <1>2. TypeOK /\ LoadedIsCurrent /\ [Next]_vars => [DC!Next]_(DC!vars)
    <2>. SUFFICES ASSUME TypeOK, LoadedIsCurrent, [Next]_vars, ~UNCHANGED <<statement, wallet>>
                  PROVE  DC!Next
      BY DEF DC!vars
    <2>1. PICK w \in Workers :
            /\ InvOf(w) \in Investments /\ job[w].date \in Dates /\ job[w].bonus \in Bonuses
            /\ UserOf(w) \in Users /\ job[w].bonus \in Nat /\ job[w].bonus > 0
            /\ ~Credited(InvOf(w), job[w].date)
            /\ job[w].wallet = wallet[UserOf(w)]
            /\ wallet' = [wallet EXCEPT ![UserOf(w)] = wallet[UserOf(w)] + job[w].bonus]
            /\ statement' = [statement EXCEPT ![UserOf(w)] = Append(@, RowOf(w))]
      BY AccountStep
    <2>2. DC!Credit(InvOf(w), job[w].date, job[w].bonus)
      BY <2>1 DEF DC!Credit, DC!Credited, Credited, RowOf, UserOf
    <2>. QED
      BY <2>1, <2>2 DEF DC!Next
  <1>. QED
    BY <1>1, <1>2, LoadedInvariant, PTL DEF Spec, CreditsDaily, DC!Spec

------------------------------------------------------------------------------
\* The account books.  A step that is not a payment leaves all three alone, and
\* a payment raises each by the bonus.
MoneyOf(u) == {i \in Investments : Owner[i] = u}

BooksWith(u) == cycle[u] = wallet[u] /\ Total(earned, MoneyOf(u)) = wallet[u]

BooksInv == \A u \in Users : BooksWith(u)

LEMMA BooksAre == BooksInv => BooksBalance
  BY DEF BooksInv, BooksBalance, BooksWith, MoneyOf, Total

LEMMA BooksInit == Init => BooksInv
  <1>. SUFFICES ASSUME Init, NEW u \in Users PROVE BooksWith(u)
    BY DEF BooksInv
  <1>1. IsFiniteSet(MoneyOf(u))
    BY ConstantsOK, FS_Subset DEF MoneyOf
  <1>2. \A i \in MoneyOf(u) : earned[i] = 0
    BY DEF Init, MoneyOf
  <1>3. Total(earned, MoneyOf(u)) = 0
    BY <1>1, <1>2, TotalZero
  <1>. QED
    BY <1>3 DEF Init, BooksWith

LEMMA BooksNext == TypeOK /\ LoadedIsCurrent /\ BooksInv /\ [Next]_vars => BooksInv'
  <1>. SUFFICES ASSUME TypeOK, LoadedIsCurrent, BooksInv, [Next]_vars, NEW u \in Users
                PROVE  BooksWith(u)'
    BY DEF BooksInv
  <1>0. BooksWith(u)
    BY DEF BooksInv
  <1>1. CASE ~ \E w \in Workers : Pay(w)
    <2>1. UNCHANGED <<wallet, cycle, earned>>
      BY <1>1 DEF Next, Work, Push, Load, NotApplicable, CheckDuplicate, RollBack, Acknowledge,
                  Crash, ChangeStatus, Midnight, vars, accounts
    <2>. QED
      BY <1>0, <2>1 DEF BooksWith
  <1>2. ASSUME NEW w \in Workers, Pay(w) PROVE BooksWith(u)'
    <2>. DEFINE i == InvOf(w)
                b == job[w].bonus
                S == MoneyOf(u)
    <2>1. job[w].pc = "pay"
      BY <1>2 DEF Pay, At
    <2>2. /\ i \in Investments /\ UserOf(w) \in Users /\ b \in Nat
          /\ job[w].wallet = wallet[UserOf(w)] /\ job[w].cycle = cycle[UserOf(w)]
          /\ job[w].earned = earned[i]
      BY <2>1, JobKinds DEF LoadedIsCurrent, Paying
    <2>3. /\ wallet' = [wallet EXCEPT ![UserOf(w)] = wallet[UserOf(w)] + b]
          /\ cycle' = [cycle EXCEPT ![UserOf(w)] = cycle[UserOf(w)] + b]
          /\ earned' = [earned EXCEPT ![i] = earned[i] + b]
      BY <1>2, <2>2 DEF Pay
    <2>4. IsFiniteSet(S) /\ \A x \in S : earned[x] \in Int /\ earned'[x] \in Int
      <3>1. IsFiniteSet(S)
        BY ConstantsOK, FS_Subset DEF MoneyOf
      <3>. QED
        BY <2>2, <2>3, <3>1 DEF MoneyOf, TypeOK
    <2>. HIDE DEF i, b
    <2>5. CASE UserOf(w) = u
      <3>1. i \in S /\ \A y \in S \ {i} : earned'[y] = earned[y]
        BY <2>2, <2>3, <2>5 DEF MoneyOf, TypeOK, UserOf, i
      <3>2. earned'[i] = earned[i] + b /\ earned[i] \in Nat
        BY <2>2, <2>3 DEF TypeOK
      <3>3. Total(earned', S) = Total(earned, S) - earned[i] + earned'[i]
        BY <2>4, <3>1, TotalChange
      <3>4. wallet'[u] = wallet[u] + b /\ cycle'[u] = cycle[u] + b /\ wallet[u] \in Nat
        BY <2>2, <2>3, <2>5 DEF TypeOK
      <3>. QED
        BY <1>0, <2>2, <3>2, <3>3, <3>4 DEF BooksWith, MoneyOf
    <2>6. CASE UserOf(w) # u
      <3>1. \A y \in S : earned'[y] = earned[y]
        BY <2>2, <2>3, <2>6 DEF MoneyOf, TypeOK, UserOf, i
      <3>2. Total(earned', S) = Total(earned, S)
        BY <2>4, <3>1, TotalSame
      <3>3. wallet'[u] = wallet[u] /\ cycle'[u] = cycle[u]
        BY <2>2, <2>3, <2>6 DEF TypeOK
      <3>. QED
        BY <1>0, <3>2, <3>3 DEF BooksWith, MoneyOf
    <2>. QED
      BY <2>5, <2>6
  <1>. QED
    BY <1>1, <1>2

\* BooksBalance, while the jobs of a user are kept apart: the wallet, the cycle
\* and the investments of a user add up to the same, whatever was pushed
\* twice, cut off or rolled back.
THEOREM BooksAgree == Spec /\ []UsersApart => []BooksBalance
  BY LoadedInvariant, BooksAre, BooksInit, BooksNext, PTL DEF Spec

------------------------------------------------------------------------------
LEMMA OneWorkerApart == OneWorker => UsersApart
  BY DEF OneWorker, UsersApart

\* One queue/listen process keeps the jobs of all users apart.
COROLLARY OneAtATime ==
  ASSUME OneWorker
  PROVE  Spec => []CreditedOnce /\ []StatementAdds /\ []BooksBalance /\ CreditsDaily
  <1>1. UsersApart
    BY OneWorkerApart
  <1>. QED
    BY <1>1, NeverCreditedTwice, StatementReads, BooksAgree, ImplementsDailyCredit, PTL
=============================================================================
