------------------------ MODULE LoanSubmissionsProofs ------------------------
(* Proofs about LoanSubmissions, for every number of tabs, addresses and     *)
(* administrators and every bound.                                           *)
EXTENDS LoanSubmissions, WellFoundedInduction, TLAPS

\* Every id in use was given to a row.
IdsGiven ==
  /\ nextId > 0
  /\ \A r \in table : r.id < nextId
  /\ \A a \in Admins : admin[a].pc # "idle" => admin[a].id \in Nat /\ admin[a].id < nextId

TypeInv == TypeOK /\ IdsGiven

LEMMA TypeInit == Init => TypeInv
  BY ConstantsOK DEF Init, TypeInv, TypeOK, IdsGiven, Tab, Deletion

LEMMA TypeNext == TypeInv /\ [Next]_vars => TypeInv'
  <1>. SUFFICES ASSUME TypeInv, [Next]_vars PROVE TypeInv'
    OBVIOUS
  <1>. USE DEF TypeInv, TypeOK, IdsGiven, visitors, admins
  <1>1. ASSUME NEW t \in Tabs, Visit(t) PROVE TypeInv'
    <2>1. CASE Render(t)
      <3>1. [view |-> IF EligibleForNextSubmission(Ip[t]) THEN "form" ELSE "applied",
             page |-> pages + 1, opened |-> nextId] \in Tab
        BY DEF Tab
      <3>. QED
        BY <2>1, <3>1 DEF Render
    <2>2. CASE Submit(t)
      <3>1. [n |-> posted, tab |-> t, page |-> tab[t].page,
             opened |-> tab[t].opened, state |-> "sent"] \in Post
        BY DEF Tab, Post
      <3>. QED
        BY <2>2, <3>1 DEF Submit
    <2>. QED
      BY <1>1, <2>1, <2>2 DEF Visit
  <1>2. ASSUME NEW p \in posts, Serve(p) PROVE TypeInv'
    <2>0. p \in Post /\ [p EXCEPT !.state = "answered"] \in Post /\ p.tab \in Tabs
      BY DEF Post
    <2>1. CASE LeadSubmit(p)
      <3>. DEFINE new == [id |-> nextId, ip |-> Ip[p.tab], time |-> now, opened |-> p.opened]
      <3>1. new \in Row
        BY <2>0 DEF Row, Post
      <3>2. p.page \in Nat
        BY <2>0 DEF Post
      <3>. QED
        BY <2>0, <2>1, <3>1, <3>2 DEF LeadSubmit, Answer, Row
    <2>2. CASE LeadRejected(p) \/ Lose(p)
      BY <2>0, <2>2 DEF LeadRejected, Lose, Answer
    <2>3. CASE Arrive(p)
      BY <2>0, <2>3 DEF Arrive, Tab
    <2>. QED
      BY <1>2, <2>1, <2>2, <2>3 DEF Serve
  <1>3. ASSUME NEW a \in Admins, Administer(a) PROVE TypeInv'
    <2>0. \A id \in Nat \cup {None} : \A pc \in {"idle", "found", "log"} :
            [pc |-> pc, id |-> id] \in Deletion
      BY DEF Deletion
    <2>1. ASSUME NEW id \in 1 .. nextId, FindModel(a, id) PROVE TypeInv'
      BY <2>0, <2>1 DEF FindModel, Row
    <2>2. CASE Delete(a)
      BY <2>2 DEF Delete, Deletion
    <2>3. CASE AfterDelete(a) \/ DieDeleting(a)
      <3>1. admin[a].pc # "idle" /\ admin[a].id \in Nat
        BY <2>3 DEF AfterDelete, DieDeleting
      <3>2. admin' = [admin EXCEPT ![a] = [pc |-> "idle", id |-> None]]
            /\ table' = table /\ nextId' = nextId /\ now' = now /\ UNCHANGED visitors
        BY <2>3 DEF AfterDelete, DieDeleting
      <3>3. logged' \subseteq Nat /\ unlogged' \subseteq Nat
        BY <2>3, <3>1 DEF AfterDelete, DieDeleting
      <3>. QED
        BY <2>0, <3>2, <3>3
    <2>. QED
      BY <1>3, <2>1, <2>2, <2>3 DEF Administer
  <1>4. CASE Tick
    BY <1>4 DEF Tick
  <1>5. CASE UNCHANGED vars
    BY <1>5 DEF vars
  <1>. QED
    BY <1>1, <1>2, <1>3, <1>4, <1>5 DEF Next

LEMMA TypeInvariant == Spec => []TypeInv
  BY TypeInit, TypeNext, PTL DEF Spec

\* TypeOK: ids are given once, and every value stays of its type.
THEOREM TypeCorrect == Spec => []TypeOK
  BY TypeInvariant, PTL DEF TypeInv

------------------------------------------------------------------------------
\* The row with the highest id exists.

LEMMA HighestRow ==
  ASSUME NEW n \in Nat, NEW S, S # {}, \A r \in S : r.id \in Nat /\ r.id < n
  PROVE  \E r \in S : \A q \in S : q.id <= r.id
  <1>. DEFINE T == {n - r.id : r \in S}
  <1>1. T \subseteq Nat /\ T # {}
    OBVIOUS
  <1>2. PICK k \in T : \A l \in T : ~ (<<l, k>> \in OpToRel(<, Nat))
    <2>. HIDE DEF T
    <2>. QED
      BY <1>1, NatLessThanWellFounded, WFMin
  <1>3. \A l \in T : k <= l
    <2>1. \A l \in T : ~ (l < k)
      BY <1>1, <1>2, Zenon DEF OpToRel
    <2>2. k \in Nat /\ \A l \in T : l \in Nat
      BY <1>1
    <2>. QED
      BY <2>1, <2>2
  <1>4. PICK r \in S : k = n - r.id
    OBVIOUS
  <1>5. ASSUME NEW q \in S PROVE q.id <= r.id
    <2>1. k <= n - q.id
      BY <1>3
    <2>. QED
      BY <2>1, <1>4
  <1>. QED
    BY <1>5

\* Rows with higher ids are younger.
TimesOrdered ==
  \A r \in table :
    /\ r.time <= now
    /\ \A q \in table : r.id <= q.id => r.time <= q.time

\* Being eligible means that no row of the address is from the last 24 hours.
LEMMA EligibleMeans ==
  ASSUME TypeInv, TimesOrdered, NEW ip, EligibleForNextSubmission(ip),
         NEW r \in table, r.ip = ip
  PROVE  r.time + Window <= now
  <1>. DEFINE mine == {x \in table : x.ip = ip}
              top == CHOOSE x \in mine : \A q \in mine : q.id <= x.id
  <1>1. \A x \in mine : x.id \in Nat /\ x.id < nextId
    BY DEF TypeInv, TypeOK, IdsGiven, Row
  <1>2. \E x \in mine : \A q \in mine : q.id <= x.id
    <2>1. nextId \in Nat /\ mine # {}
      BY DEF TypeInv, TypeOK
    <2>. HIDE DEF mine
    <2>. QED
      BY <1>1, <2>1, HighestRow
  <1>3. top \in mine /\ r.id <= top.id
    BY <1>2
  <1>4. ~Recent(top.time)
    BY <1>3 DEF EligibleForNextSubmission
  <1>5. r.time <= top.time
    BY <1>3 DEF TimesOrdered
  <1>. HIDE DEF top
  <1>6. top.time \in Nat /\ r.time \in Nat
    BY <1>3 DEF TypeInv, TypeOK, Row
  <1>. QED
    BY <1>4, <1>5, <1>6, ConstantsOK DEF Recent, TypeInv, TypeOK

------------------------------------------------------------------------------
\* A form that can be posted, and a POST under way, was rendered when the
\* rows of its address were a day old: those that are not came later.

Old(rows, time, ip, opened) ==
  \A r \in rows : r.ip = ip /\ r.id < opened => r.time + Window <= time

OldBy(ip, opened) == Old(table, now, ip, opened)
OldThen(ip, opened) == Old(table', now', ip, opened)

FormsFresh ==
  /\ \A t \in Tabs : tab[t].view = "form" => OldBy(Ip[t], tab[t].opened)
  /\ \A p \in posts : p.state = "sent" => OldBy(Ip[p.tab], p.opened)
  /\ \A t \in Tabs : tab[t].opened <= nextId
  /\ \A p \in posts : p.opened <= nextId

OverlapInv == TimesOrdered /\ FormsFresh /\ CloseOnesOverlap

LEMMA OverlapInit == Init => OverlapInv
  BY DEF Init, OverlapInv, TimesOrdered, FormsFresh, CloseOnesOverlap, OldBy, Old

\* A step that adds no row, and takes time no way back, keeps what was old.
LEMMA NoNewRow ==
  ASSUME TypeInv, TypeInv', OverlapInv, table' \subseteq table,
         now' >= now, nextId' = nextId
  PROVE  /\ TimesOrdered' /\ CloseOnesOverlap'
         /\ \A ip : \A n \in Nat : OldBy(ip, n) => OldThen(ip, n)
  <1>1. \A r \in table : r.time \in Nat /\ r.id \in Nat
    BY DEF TypeInv, TypeOK, Row
  <1>2. now \in Nat /\ now' \in Nat /\ Window \in Nat
    BY ConstantsOK DEF TypeInv, TypeOK
  <1>3. TimesOrdered'
    BY <1>1, <1>2 DEF OverlapInv, TimesOrdered
  <1>4. CloseOnesOverlap'
    BY DEF OverlapInv, CloseOnesOverlap
  <1>5. \A ip : \A n \in Nat : OldBy(ip, n) => OldThen(ip, n)
    BY <1>1, <1>2 DEF OldBy, OldThen, Old
  <1>. QED
    BY <1>3, <1>4, <1>5

LEMMA OverlapNext == TypeInv /\ TypeInv' /\ OverlapInv /\ [Next]_vars => OverlapInv'
  <1>. SUFFICES ASSUME TypeInv, TypeInv', OverlapInv, [Next]_vars PROVE OverlapInv'
    OBVIOUS
  <1>0. /\ nextId \in Nat /\ now \in Nat /\ Window \in Nat
        /\ \A r \in table : r.time \in Nat /\ r.id \in Nat /\ r.id < nextId
        /\ \A t \in Tabs : tab[t] \in Tab /\ tab[t].opened \in Nat
        /\ \A p \in posts : p \in Post /\ p.opened \in Nat /\ p.tab \in Tabs
    BY ConstantsOK DEF TypeInv, TypeOK, IdsGiven, Row, Tab, Post
  <1>. USE DEF visitors, admins
  <1>1. ASSUME NEW t \in Tabs, Render(t) PROVE OverlapInv'
    <2>1. TimesOrdered' /\ CloseOnesOverlap' /\ \A ip : \A n \in Nat : OldBy(ip, n) => OldThen(ip, n)
      BY <1>0, <1>1, NoNewRow DEF Render
    <2>2. tab'[t].opened = nextId
          /\ (tab'[t].view = "form" => EligibleForNextSubmission(Ip[t]))
      BY <1>1 DEF Render, TypeInv, TypeOK
    <2>3. EligibleForNextSubmission(Ip[t]) => OldBy(Ip[t], nextId)
      <3>1. OverlapInv => TimesOrdered
        BY DEF OverlapInv
      <3>. QED
        BY <3>1, EligibleMeans DEF OldBy, Old
    <2>4. ASSUME NEW s \in Tabs
          PROVE  /\ tab'[s].view = "form" => OldBy(Ip[s], tab'[s].opened)
                 /\ tab'[s].opened <= nextId
      BY <1>0, <1>1, <2>2, <2>3 DEF Render, TypeInv, TypeOK, OverlapInv, FormsFresh
    <2>5. \A s \in Tabs : tab'[s].view = "form" => OldThen(Ip[s], tab'[s].opened)
      <3>1. \A s \in Tabs : tab'[s].opened \in Nat
        BY DEF TypeInv, TypeOK, Tab
      <3>. QED
        BY <2>1, <2>4, <3>1
    <2>6. \A p \in posts : p.state = "sent" => OldThen(Ip[p.tab], p.opened)
      BY <1>0, <2>1 DEF OverlapInv, FormsFresh
    <2>. QED
      BY <1>1, <2>1, <2>4, <2>5, <2>6 DEF Render, OverlapInv, FormsFresh, OldBy, OldThen
  <1>2. ASSUME NEW t \in Tabs, Submit(t) PROVE OverlapInv'
    <2>1. TimesOrdered' /\ CloseOnesOverlap' /\ \A ip : \A n \in Nat : OldBy(ip, n) => OldThen(ip, n)
      BY <1>0, <1>2, NoNewRow DEF Submit
    <2>2. FormsFresh'
      BY <1>0, <1>2, <2>1 DEF Submit, OverlapInv, FormsFresh, OldBy, OldThen
    <2>. QED
      BY <2>1, <2>2 DEF OverlapInv
  <1>3. ASSUME NEW p \in posts, LeadSubmit(p) PROVE OverlapInv'
    <2>. DEFINE new == [id |-> nextId, ip |-> Ip[p.tab], time |-> now, opened |-> p.opened]
    <2>1. /\ table' = table \cup {new} /\ now' = now /\ nextId' = nextId + 1 /\ tab' = tab
          /\ p.state = "sent" /\ posts' = (posts \ {p}) \cup {[p EXCEPT !.state = "answered"]}
      BY <1>3 DEF LeadSubmit, Answer
    <2>2. TimesOrdered'
      BY <1>0, <2>1 DEF OverlapInv, TimesOrdered
    <2>3. \A ip : \A n \in Nat : n <= nextId /\ OldBy(ip, n) => OldThen(ip, n)
      BY <1>0, <2>1 DEF OldBy, OldThen, Old
    <2>4. FormsFresh'
      <3>1. /\ [p EXCEPT !.state = "answered"].opened = p.opened
            /\ [p EXCEPT !.state = "answered"].state # "sent"
        BY <1>0 DEF Post
      <3>2. \A t \in Tabs : tab[t].view = "form" => OldThen(Ip[t], tab[t].opened)
        BY <1>0, <2>3 DEF OverlapInv, FormsFresh
      <3>3. \A q \in posts' : q.state = "sent" => OldThen(Ip[q.tab], q.opened)
        BY <1>0, <2>1, <2>3, <3>1 DEF OverlapInv, FormsFresh
      <3>4. /\ \A t \in Tabs : tab[t].opened <= nextId'
            /\ \A q \in posts' : q.opened <= nextId'
        <4>1. /\ \A t \in Tabs : tab[t].opened <= nextId'
              /\ \A q \in posts : q.opened <= nextId'
          BY <1>0, <2>1 DEF OverlapInv, FormsFresh
        <4>2. \A q \in posts' : \E x \in posts : q.opened = x.opened
          BY <2>1, <3>1
        <4>. QED
          BY <4>1, <4>2
      <3>. QED
        BY <2>1, <3>2, <3>3, <3>4 DEF FormsFresh, OldBy, OldThen
    <2>5. CloseOnesOverlap'
      <3>1. OldBy(Ip[p.tab], p.opened)
        BY <2>1 DEF OverlapInv, FormsFresh
      <3>2. ASSUME NEW r \in table, r.ip = Ip[p.tab], now < r.time + Window
            PROVE  p.opened <= r.id
        BY <1>0, <3>1, <3>2 DEF OldBy, Old
      <3>. QED
        BY <1>0, <2>1, <3>2 DEF OverlapInv, CloseOnesOverlap
    <2>. QED
      BY <2>2, <2>4, <2>5 DEF OverlapInv
  <1>4. ASSUME NEW p \in posts, LeadRejected(p) \/ Lose(p) \/ Arrive(p) PROVE OverlapInv'
    <2>1. TimesOrdered' /\ CloseOnesOverlap' /\ \A ip : \A n \in Nat : OldBy(ip, n) => OldThen(ip, n)
      BY <1>0, <1>4, NoNewRow DEF LeadRejected, Lose, Arrive
    <2>2. /\ [p EXCEPT !.state = "answered"].opened = p.opened
          /\ [p EXCEPT !.state = "answered"].state # "sent"
      BY <1>0 DEF Post
    <2>3. \A t \in Tabs : /\ tab'[t].opened = tab[t].opened
                          /\ tab'[t].view = "form" => tab[t].view = "form"
      BY <1>4 DEF LeadRejected, Lose, Arrive, TypeInv, TypeOK, Tab
    <2>4. \A q \in posts' : /\ q.opened <= nextId
                            /\ q.state = "sent" => q \in posts
      BY <1>4, <2>2 DEF LeadRejected, Lose, Arrive, Answer, OverlapInv, FormsFresh
    <2>5. nextId' = nextId
      BY <1>4 DEF LeadRejected, Lose, Arrive
    <2>6. \A t \in Tabs : tab'[t].view = "form" => OldThen(Ip[t], tab[t].opened)
      BY <1>0, <2>1, <2>3 DEF OverlapInv, FormsFresh
    <2>7. \A q \in posts' : q.state = "sent" => OldThen(Ip[q.tab], q.opened)
      BY <1>0, <2>1, <2>4 DEF OverlapInv, FormsFresh
    <2>. QED
      BY <2>1, <2>3, <2>4, <2>5, <2>6, <2>7 DEF OverlapInv, FormsFresh, OldBy, OldThen
  <1>5. CASE (\E a \in Admins : Administer(a)) \/ Tick \/ UNCHANGED vars
    <2>1. table' \subseteq table /\ now' >= now /\ nextId' = nextId
          /\ tab' = tab /\ posts' = posts
      BY <1>0, <1>5 DEF Administer, FindModel, Delete, AfterDelete, DieDeleting, Tick, vars
    <2>2. TimesOrdered' /\ CloseOnesOverlap' /\ \A ip : \A n \in Nat : OldBy(ip, n) => OldThen(ip, n)
      BY <2>1, NoNewRow
    <2>3. /\ \A t \in Tabs : tab[t].view = "form" => OldThen(Ip[t], tab[t].opened)
          /\ \A q \in posts : q.state = "sent" => OldThen(Ip[q.tab], q.opened)
      BY <1>0, <2>2 DEF OverlapInv, FormsFresh
    <2>. QED
      BY <2>1, <2>2, <2>3 DEF OverlapInv, FormsFresh, OldBy, OldThen
  <1>. QED
    BY <1>1, <1>2, <1>3, <1>4, <1>5 DEF Next, Visit, Serve

\* CloseOnesOverlap: two applications of one address within 24 hours come from
\* forms that were open together, whatever is posted twice or deleted.
THEOREM Overlap == Spec => []CloseOnesOverlap
  BY TypeInvariant, OverlapInit, OverlapNext, PTL DEF Spec, OverlapInv

------------------------------------------------------------------------------
LEMMA LoggedInit == Init => DeletedAreLogged
  BY DEF Init, DeletedAreLogged

LEMMA LoggedNext == TypeInv /\ DeletedAreLogged /\ [Next]_vars => DeletedAreLogged'
  <1>. SUFFICES ASSUME TypeInv, DeletedAreLogged, [Next]_vars,
                       NEW id \in 1 .. nextId' - 1
                PROVE  \/ \E r \in table' : r.id = id
                       \/ id \in logged' \cup unlogged'
                       \/ \E a \in Admins : admin'[a] = [pc |-> "log", id |-> id]
    BY DEF DeletedAreLogged
  <1>. USE DEF visitors, admins
  <1>0. nextId \in Nat /\ id \in Nat
    BY DEF TypeInv, TypeOK
  <1>1. ASSUME NEW p \in posts, LeadSubmit(p)
        PROVE  (\E r \in table' : r.id = id) \/ id \in 1 .. nextId - 1
    <2>. DEFINE new == [id |-> nextId, ip |-> Ip[p.tab], time |-> now, opened |-> p.opened]
    <2>1. nextId' = nextId + 1 /\ new \in table' /\ new.id = nextId
      BY <1>1 DEF LeadSubmit
    <2>. HIDE DEF new
    <2>2. CASE id = nextId
      BY <2>1, <2>2
    <2>3. CASE id # nextId
      BY <1>0, <2>1, <2>3
    <2>. QED
      BY <2>2, <2>3
  <1>2. (\E p \in posts : LeadSubmit(p)) \/ nextId' = nextId
    BY DEF Next, Visit, Render, Submit, Serve, LeadRejected, Lose, Arrive, Administer,
           FindModel, Delete, AfterDelete, DieDeleting, Tick, vars
  <1>3. CASE (\E p \in posts : LeadSubmit(p)) /\ \E r \in table' : r.id = id
    BY <1>3
  <1>4. CASE id \in 1 .. nextId - 1
    <2>1. \/ \E r \in table : r.id = id
          \/ id \in logged \cup unlogged
          \/ \E a \in Admins : admin[a] = [pc |-> "log", id |-> id]
      BY <1>4 DEF DeletedAreLogged
    <2>2. ASSUME NEW a \in Admins, Delete(a)
          PROVE  \/ \E r \in table' : r.id = id
                 \/ id \in logged' \cup unlogged'
                 \/ \E c \in Admins : admin'[c] = [pc |-> "log", id |-> id]
      <3>1. admin' = [admin EXCEPT ![a].pc = "log"] /\ admin[a] \in Deletion
            /\ table' = {r \in table : r.id # admin[a].id} /\ admin[a].pc = "found"
            /\ logged' = logged /\ unlogged' = unlogged
        BY <2>2 DEF Delete, TypeInv, TypeOK
      <3>2. CASE admin[a].id = id
        <4>1. admin'[a] = [pc |-> "log", id |-> id]
          BY <3>1, <3>2 DEF TypeInv, TypeOK, Deletion
        <4>. QED
          BY <4>1
      <3>3. CASE admin[a].id # id
        BY <2>1, <3>1, <3>3 DEF TypeInv, TypeOK
      <3>. QED
        BY <3>2, <3>3
    <2>3. ASSUME NEW a \in Admins, AfterDelete(a) \/ DieDeleting(a)
          PROVE  \/ \E r \in table' : r.id = id
                 \/ id \in logged' \cup unlogged'
                 \/ \E c \in Admins : admin'[c] = [pc |-> "log", id |-> id]
      BY <2>1, <2>3 DEF AfterDelete, DieDeleting, TypeInv, TypeOK
    <2>4. ASSUME NEW a \in Admins, NEW n \in 1 .. nextId, FindModel(a, n)
          PROVE  \/ \E r \in table' : r.id = id
                 \/ id \in logged' \cup unlogged'
                 \/ \E c \in Admins : admin'[c] = [pc |-> "log", id |-> id]
      BY <2>1, <2>4 DEF FindModel, TypeInv, TypeOK
    <2>5. CASE ~ \E a \in Admins : Administer(a)
      <3>1. table \subseteq table' /\ logged' = logged /\ unlogged' = unlogged /\ admin' = admin
        BY <2>5 DEF Next, Visit, Render, Submit, Serve, LeadSubmit, LeadRejected, Lose,
                    Arrive, Tick, vars
      <3>. QED
        BY <2>1, <3>1
    <2>. QED
      BY <2>2, <2>3, <2>4, <2>5 DEF Administer
  <1>. QED
    BY <1>1, <1>2, <1>3, <1>4

\* DeletedAreLogged: a row that is gone has its log entry, or is about to get
\* it, unless the request that deleted it died first.
THEOREM DeletionsLogged == Spec => []DeletedAreLogged
  BY TypeInvariant, LoggedInit, LoggedNext, PTL DEF Spec
=============================================================================
