--------------------------- MODULE LoanSubmissions ---------------------------
(* Applying for a loan, and the administrator's list of applications.        *)
(*                                                                           *)
(* The page with the form asks whether the visitor's address has applied in  *)
(* the last 24 hours; the request that saves the application does not.  The  *)
(* form stays usable while its POST is on the way, and its script goes to    *)
(* the thank-you page on any answer.                                         *)
EXTENDS Integers

CONSTANTS
  Tabs,      \* browser tabs
  Ip,        \* the address of each tab's requests
  Admins,    \* requests of administrators
  None,
  Window,    \* 24 hours, in ticks
  MaxTime,   \* bound: ticks
  MaxPages,  \* bound: pages rendered
  MaxPosts   \* bound: forms posted

ASSUME ConstantsOK ==
  /\ Window \in Nat \ {0}
  /\ MaxTime \in Nat /\ MaxPages \in Nat /\ MaxPosts \in Nat
  /\ None \notin Nat

VARIABLES
  table,    \* the rows of submissions
  nextId,   \* the id the next row gets
  now,
  tab,      \* tab[t]: the page it shows
  pages,    \* pages rendered
  posts,    \* POSTs that are with the server, or answered
  posted,   \* POSTs sent
  saved,    \* pages from which an application was saved
  admin,    \* admin[a]: the deletion in progress
  logged,   \* ids in the log's "Deleted record" entries
  unlogged  \* deletions that were cut off before their log entry

vars == <<table, nextId, now, tab, pages, posts, posted, saved, admin, logged, unlogged>>

\* opened: the id the next row would have got when the form was rendered.
Row == [id : Nat, ip : {Ip[t] : t \in Tabs}, time : Nat, opened : Nat]
Tab == [view : {"blank", "form", "applied", "thanks"}, page : Nat, opened : Nat]
Post == [n : Nat, tab : Tabs, page : Nat, opened : Nat, state : {"sent", "answered"}]
Deletion == [pc : {"idle", "found", "log"}, id : Nat \cup {None}]

TypeOK ==
  /\ table \subseteq Row
  /\ \A r, q \in table : r.id = q.id => r = q
  /\ nextId \in Nat /\ now \in Nat
  /\ tab \in [Tabs -> Tab]
  /\ pages \in Nat /\ posted \in Nat
  /\ posts \subseteq Post
  /\ saved \subseteq Nat
  /\ admin \in [Admins -> Deletion]
  /\ logged \subseteq Nat /\ unlogged \subseteq Nat

Init ==
  /\ table = {} /\ nextId = 1 /\ now = 0
  /\ tab = [t \in Tabs |-> [view |-> "blank", page |-> 0, opened |-> 0]]
  /\ pages = 0 /\ posts = {} /\ posted = 0
  /\ saved = {}
  /\ admin = [a \in Admins |-> [pc |-> "idle", id |-> None]]
  /\ logged = {} /\ unlogged = {}

visitors == <<tab, pages, posts, posted, saved>>
admins == <<admin, logged, unlogged>>

------------------------------------------------------------------------------
Recent(time) == time + Window > now

\* Mutant of EligibleForNextSubmission: the rows sorted the other way.
EligibleByFirst(ip) ==
  LET mine == {r \in table : r.ip = ip} IN
  mine # {} => ~Recent((CHOOSE r \in mine : \A q \in mine : r.id <= q.id).time)

\* Only the row with the highest id counts.
EligibleForNextSubmission(ip) ==
  LET mine == {r \in table : r.ip = ip} IN
  mine # {} => ~Recent((CHOOSE r \in mine : \A q \in mine : q.id <= r.id).time)

\* A page with the form is opened, or reloaded.
Render(t) ==
  /\ pages < MaxPages
  /\ pages' = pages + 1
  /\ tab' = [tab EXCEPT ![t] =
       [view |-> IF EligibleForNextSubmission(Ip[t]) THEN "form" ELSE "applied",
        page |-> pages + 1, opened |-> nextId]]
  /\ UNCHANGED <<table, nextId, now, posts, posted, saved, admins>>

\* The script posts the form and leaves it as it is.
Submit(t) ==
  /\ tab[t].view = "form"
  /\ posted < MaxPosts
  /\ posted' = posted + 1
  /\ posts' = posts \cup {[n |-> posted, tab |-> t, page |-> tab[t].page,
                           opened |-> tab[t].opened, state |-> "sent"]}
  /\ UNCHANGED <<table, nextId, now, tab, pages, saved, admins>>

Answer(p) == posts' = (posts \ {p}) \cup {[p EXCEPT !.state = "answered"]}

\* Mutant of LeadSubmit: the page's number is saved for the row's.
LeadSubmitPage(p) ==
  /\ p.state = "sent"
  /\ table' = table \cup {[id |-> p.page, ip |-> Ip[p.tab], time |-> now, opened |-> p.opened]}
  /\ nextId' = nextId + 1
  /\ saved' = saved \cup {p.page}
  /\ Answer(p)
  /\ UNCHANGED <<now, tab, pages, posted, admins>>

\* actionLeadSubmit, when the row can be saved.
LeadSubmit(p) ==
  /\ p.state = "sent"
  /\ table' = table \cup {[id |-> nextId, ip |-> Ip[p.tab], time |-> now, opened |-> p.opened]}
  /\ nextId' = nextId + 1
  /\ saved' = saved \cup {p.page}
  /\ Answer(p)
  /\ UNCHANGED <<now, tab, pages, posted, admins>>

\* The row is not valid: an answer all the same, with the same url.
LeadRejected(p) ==
  /\ p.state = "sent"
  /\ Answer(p)
  /\ UNCHANGED <<table, nextId, now, tab, pages, posted, saved, admins>>

\* A POST, or an answer, is lost; so is an error page, which is not JSON.
Lose(p) ==
  /\ posts' = posts \ {p}
  /\ UNCHANGED <<table, nextId, now, tab, pages, posted, saved, admins>>

\* The script's callback, if the tab still shows the page that posted.
Arrive(p) ==
  /\ p.state = "answered"
  /\ posts' = posts \ {p}
  /\ tab' = IF tab[p.tab].page = p.page THEN [tab EXCEPT ![p.tab].view = "thanks"] ELSE tab
  /\ UNCHANGED <<table, nextId, now, pages, posted, saved, admins>>

------------------------------------------------------------------------------
\* actionDelete: findModel.
FindModel(a, id) ==
  /\ admin[a].pc = "idle"
  /\ \E r \in table : r.id = id
  /\ admin' = [admin EXCEPT ![a] = [pc |-> "found", id |-> id]]
  /\ UNCHANGED <<table, nextId, now, visitors, logged, unlogged>>

\* Mutant of Delete: deleted without afterDelete.
DeleteSilently(a) ==
  /\ admin[a].pc = "found"
  /\ table' = {r \in table : r.id # admin[a].id}
  /\ admin' = [admin EXCEPT ![a] = [pc |-> "idle", id |-> None]]
  /\ UNCHANGED <<nextId, now, visitors, logged, unlogged>>

\* The row may be gone by now: afterDelete runs all the same.
Delete(a) ==
  /\ admin[a].pc = "found"
  /\ table' = {r \in table : r.id # admin[a].id}
  /\ admin' = [admin EXCEPT ![a].pc = "log"]
  /\ UNCHANGED <<nextId, now, visitors, logged, unlogged>>

AfterDelete(a) ==
  /\ admin[a].pc = "log"
  /\ logged' = logged \cup {admin[a].id}
  /\ admin' = [admin EXCEPT ![a] = [pc |-> "idle", id |-> None]]
  /\ UNCHANGED <<table, nextId, now, visitors, unlogged>>

\* The request dies, or the log's row cannot be saved, which nothing looks at.
DieDeleting(a) ==
  /\ admin[a].pc # "idle"
  /\ unlogged' = IF admin[a].pc = "log" THEN unlogged \cup {admin[a].id} ELSE unlogged
  /\ admin' = [admin EXCEPT ![a] = [pc |-> "idle", id |-> None]]
  /\ UNCHANGED <<table, nextId, now, visitors, logged>>

\* Hours pass: a request in the middle of its work is not held up that long.
Tick ==
  /\ now < MaxTime
  /\ now' = now + 1
  /\ UNCHANGED <<table, nextId, visitors, admins>>

Visit(t) == Render(t) \/ Submit(t)
Serve(p) == LeadSubmit(p) \/ LeadRejected(p) \/ Lose(p) \/ Arrive(p)
Administer(a) ==
  \/ \E id \in 1 .. nextId : FindModel(a, id)
  \/ Delete(a) \/ AfterDelete(a) \/ DieDeleting(a)

Next ==
  \/ \E t \in Tabs : Visit(t)
  \/ \E p \in posts : Serve(p)
  \/ \E a \in Admins : Administer(a)
  \/ Tick

Spec == Init /\ [][Next]_vars

------------------------------------------------------------------------------
\* Two applications from one address within 24 hours come from forms that
\* were open together: the later one's page was rendered before the earlier
\* one was saved (in another tab, or by a second click).  Deleting rows in
\* between does not open a gap.
CloseOnesOverlap ==
  \A r, q \in table :
    r.ip = q.ip /\ r.id < q.id /\ q.time < r.time + Window => q.opened <= r.id

\* A row that is gone has its entry in the log, or is about to get it, unless
\* the request that deleted it died first.
DeletedAreLogged ==
  \A id \in 1 .. nextId - 1 :
    \/ \E r \in table : r.id = id
    \/ id \in logged \cup unlogged
    \/ \E a \in Admins : admin[a] = [pc |-> "log", id |-> id]

\* thanks.php: "Thank you for submitting the form our team will contact your
\* asap."  A page that ended there had its application saved.
ThanksHonest == \A t \in Tabs : tab[t].view = "thanks" => tab[t].page \in saved
=============================================================================
