--------------------------- MODULE UserDirectory ---------------------------
(* The users table and the requests that write it.                           *)
(*                                                                           *)
(* Columns that should differ between users are looked for and then written, *)
(* without a unique key, or written without a look; a user's row refers to   *)
(* its sponsor's, and the database deletes it with the sponsor's.  A request *)
(* is a PHP process that other requests interleave with and that may die.    *)
EXTENDS Naturals, FiniteSets

CONSTANTS
  Requests,     \* PHP processes
  Names,        \* usernames (with their e-mail address)
  Numbers,      \* mobile numbers
  Codes,        \* referral codes that may be drawn or typed
  Given,        \* two-factor secrets that may be typed
  Null, Empty,  \* a column without a value, and one with an empty string
  MaxForm,      \* bound: columns that one edit changes
  MaxLoad       \* bound: a request of this module loads 5

ASSUME DirectoryOK ==
  /\ {Null, Empty} \cap Numbers = {}
  /\ Empty \notin Nat
  /\ MaxForm \in Nat /\ MaxLoad \in Nat

VARIABLES
  users,      \* users[i]: name, number and referral code of user i
  second,     \* second[i]: is_two_fa and two_fa_secret of user i, there or gone
  sponsor,    \* sponsor[i]: referred_by of user i, there or gone
  nextId,
  req,        \* what each process is doing
  told,       \* users with a log entry of their deletion
  untold,     \* users deleted by a request that died before the entry
  felled,     \* felled[i]: the user whose deletion took i
  blind,      \* <<i, k>>: column k of i was written unlooked for, or with
              \* another write of that column since the look
  edited,     \* users whose second factor a form wrote
  load        \* begun so far

notes == <<told, untold, felled, blind, edited>>
directoryVars == <<users, second, sponsor, nextId, req, notes, load>>

Administrator == 1
Nobody == 0
Keys == {"name", "mobile", "code"}
Columns == Keys \cup {"on", "secret", "sponsor"}
Mobiles == Numbers \cup {Null, Empty}
Values == Names \cup Codes \cup Mobiles \cup {"backoffice", "admin"}
Row == {row \in [Keys -> Values] : row["mobile"] \in Mobiles}
RowOf(n, m, c) == [k \in Keys |-> IF k = "name" THEN n ELSE IF k = "mobile" THEN m ELSE c]

\* A secret is drawn, and numbered, or typed; 0 is NULL.
NoSecret == {0, Empty}
Second == [on : BOOLEAN, secret : Nat \cup Given \cup {Empty}]
Off == [on |-> FALSE, secret |-> 0]

Request ==
  [op : {"none", "create", "update", "profile", "delete"},
   pc : {"idle", "looked", "checked", "found", "log"},
   id : Nat,                                     \* the user; nobody yet to create
   want : Row, second : Second, sponsor : Nat,   \* what was loaded and posted
   dirty : SUBSET Columns,                       \* what an edit changes
   missed : SUBSET Keys]   \* columns others wrote since this request looked

Blank == RowOf(Null, Null, Null)
Ask(op, pc, i) ==
  [op |-> op, pc |-> pc, id |-> i, want |-> Blank, second |-> Off, sponsor |-> Nobody,
   dirty |-> {}, missed |-> {}]
Idle == Ask("none", "idle", Nobody)

DirectoryTypeOK ==
  /\ nextId \in Nat /\ nextId > Administrator
  /\ DOMAIN users \subseteq 1 .. nextId - 1
  /\ \A i \in DOMAIN users : users[i] \in Row
  /\ second \in [1 .. nextId - 1 -> Second]
  /\ sponsor \in [1 .. nextId - 1 -> Nat]
  /\ felled \in [1 .. nextId - 1 -> Nat]
  /\ req \in [Requests -> Request]
  /\ \A r \in Requests : req[r].id < nextId
  /\ told \subseteq Nat /\ untold \subseteq Nat /\ edited \subseteq Nat
  /\ blind \subseteq Nat \X Keys
  /\ load \in Nat

DirectoryInit ==
  /\ users = [i \in {Administrator} |-> RowOf("backoffice", Null, "admin")]
  /\ second = [i \in {Administrator} |-> Off]
  /\ sponsor = [i \in {Administrator} |-> Nobody]
  /\ felled = [i \in {Administrator} |-> Nobody]
  /\ nextId = 2
  /\ req = [r \in Requests |-> Idle]
  /\ told = {} /\ untold = {} /\ blind = {} /\ edited = {}
  /\ load = 0

------------------------------------------------------------------------------
\* No user but i has value v in column k.
Free(k, v, i) == \A j \in DOMAIN users \ {i} : users[j][k] # v

\* What referred_by may refer to.
Exists(p) == p \in DOMAIN users \cup {Nobody}

Begin(r, request) ==
  /\ req[r] = Idle
  /\ load + 5 <= MaxLoad
  /\ load' = load + 5
  /\ req' = [req EXCEPT ![r] = request]
  /\ UNCHANGED <<users, second, sponsor, nextId, notes>>

\* Request r ends with a write of columns ks, which the others did not see.
EndWriting(r, ks) ==
  req' = [q \in Requests |->
            IF q = r \/ req[q] = Idle
              THEN Idle
              ELSE [req[q] EXCEPT !.missed = @ \cup ks]]

End(r) == req' = [req EXCEPT ![r] = Idle]

\* What the validators find is good only for what is written after it.
Passed(r, ks) == req' = [req EXCEPT ![r].pc = "checked", ![r].missed = @ \ ks]

\* What a form posts: column k is one of vs if it is among the columns dirty
\* that differ from those loaded, of which an integer always does.
Posted(k, dirty, vs, loaded) == IF k \in dirty THEN vs ELSE {loaded}
Forms(ks) == {dirty \in SUBSET ks : Cardinality(dirty) <= MaxForm}

\* Creating, by whoever is signed in: beforeValidate finds the sponsor (who is
\* active, which any user may be) and draws a code nobody has, whatever was
\* posted; the second factor is kept as posted.
BeginCreate(r, p) ==
  /\ p \in DOMAIN users
  /\ \E dirty \in Forms({"mobile", "on", "secret"}) :
     \E n \in Names,
        m \in Posted("mobile", dirty, Numbers \cup {Empty}, Null),
        c \in Codes,
        on \in Posted("on", dirty, BOOLEAN, FALSE),
        x \in Posted("secret", dirty, Given, 0) :
       /\ Free("code", c, Nobody)
       /\ Begin(r, [op |-> "create", pc |-> "looked", id |-> Nobody, want |-> RowOf(n, m, c),
                    second |-> [on |-> on, secret |-> x], sponsor |-> p,
                    dirty |-> {}, missed |-> {}])

\* Mutant of CheckCreate: only the number is looked for.
CheckCreateNumber(r) ==
  /\ req[r].op = "create" /\ req[r].pc = "looked"
  /\ IF /\ req[r].want["mobile"] \in Numbers => Free("mobile", req[r].want["mobile"], Nobody)
        /\ req[r].sponsor \in DOMAIN users
       THEN Passed(r, {"name", "mobile"})
       ELSE End(r)
  /\ UNCHANGED <<users, second, sponsor, nextId, notes, load>>

\* The validators unique and exist.
CheckCreate(r) ==
  /\ req[r].op = "create" /\ req[r].pc = "looked"
  /\ IF /\ Free("name", req[r].want["name"], Nobody)
        /\ req[r].want["mobile"] \in Numbers => Free("mobile", req[r].want["mobile"], Nobody)
        /\ req[r].sponsor \in DOMAIN users
       THEN Passed(r, {"name", "mobile"})
       ELSE End(r)
  /\ UNCHANGED <<users, second, sponsor, nextId, notes, load>>

\* f with one value more, for the next id.
With(f, D, v) == [i \in D \cup {nextId} |-> IF i = nextId THEN v ELSE f[i]]

NewRow(r) ==
  /\ req[r].op = "create" /\ req[r].pc = "checked"
  /\ users' = With(users, DOMAIN users, req[r].want)
  /\ second' = With(second, 1 .. nextId - 1, req[r].second)
  /\ sponsor' = With(sponsor, 1 .. nextId - 1, req[r].sponsor)
  /\ felled' = With(felled, 1 .. nextId - 1, Nobody)
  /\ blind' = blind \cup ({nextId} \X req[r].missed)
  /\ edited' = IF req[r].second = Off THEN edited ELSE edited \cup {nextId}
  /\ EndWriting(r, Keys)
  /\ UNCHANGED <<told, untold, load>>

\* Mutant of Insert: the database does not ask for the sponsor.
InsertUnreferenced(r) == NewRow(r) /\ nextId' = nextId + 1

\* Mutant of Insert: the new user gets the id of the last one.
InsertOver(r) == NewRow(r) /\ req[r].sponsor \in DOMAIN users /\ UNCHANGED nextId

\* The insert, which the database refuses without the sponsor's row.
Insert(r) ==
  /\ NewRow(r)
  /\ req[r].sponsor \in DOMAIN users
  /\ nextId' = nextId + 1

InsertRefused(r) ==
  /\ req[r].op = "create" /\ req[r].pc = "checked"
  /\ req[r].sponsor \notin DOMAIN users
  /\ End(r)
  /\ UNCHANGED <<users, second, sponsor, nextId, notes, load>>

Create(r) == CheckCreate(r) \/ Insert(r) \/ InsertRefused(r)

\* Editing, by whoever is signed in, of any user: load() takes over every safe
\* attribute that is posted, the second factor and the sponsor among them.
BeginUpdate(r, i) ==
  /\ i \in DOMAIN users
  /\ \E dirty \in Forms(Columns) :
     \E n \in Posted("name", dirty, Names \ {users[i]["name"]}, users[i]["name"]),
        m \in Posted("mobile", dirty, (Numbers \cup {Empty}) \ {users[i]["mobile"]}, users[i]["mobile"]),
        c \in Posted("code", dirty, Codes \ {users[i]["code"]}, users[i]["code"]),
        on \in Posted("on", dirty, BOOLEAN, second[i].on),
        x \in Posted("secret", dirty, Given \ {second[i].secret}, second[i].secret),
        p \in Posted("sponsor", dirty, DOMAIN users \cup {Nobody}, sponsor[i]) :
       Begin(r, [op |-> "update", pc |-> "looked", id |-> i, want |-> RowOf(n, m, c),
                 second |-> [on |-> on, secret |-> x], sponsor |-> p,
                 dirty |-> dirty, missed |-> dirty \cap {"code"}])

\* A user's own profile: of these columns the number only, which the form makes
\* a string.
BeginProfile(r, i, m) ==
  /\ i \in DOMAIN users
  /\ m # Null
  /\ Begin(r, [Ask("profile", "looked", i) EXCEPT
                  !.want = [users[i] EXCEPT !["mobile"] = m],
                  !.dirty = IF m = users[i]["mobile"] THEN {} ELSE {"mobile"}])

\* beforeValidate looks for a number even if there is none, and so finds
\* whoever else has none; nobody looks for a code.
CheckUpdate(r) ==
  /\ req[r].op = "update" /\ req[r].pc = "looked"
  /\ IF /\ Free("mobile", req[r].want["mobile"], req[r].id)
        /\ Free("name", req[r].want["name"], req[r].id)
        /\ Exists(req[r].sponsor)
       THEN Passed(r, {"name", "mobile"})
       ELSE End(r)
  /\ UNCHANGED <<users, second, sponsor, nextId, notes, load>>

CheckProfile(r) ==
  /\ req[r].op = "profile" /\ req[r].pc = "looked"
  /\ IF req[r].want["mobile"] \in Numbers => Free("mobile", req[r].want["mobile"], req[r].id)
       THEN Passed(r, {"mobile"})
       ELSE End(r)
  /\ UNCHANGED <<users, second, sponsor, nextId, notes, load>>

\* The dirty columns are written, to the row if it is still there; the database
\* refuses a sponsor who is not.
Write(r) ==
  /\ req[r].op \in {"update", "profile"} /\ req[r].pc = "checked"
  /\ req[r].id \in DOMAIN users
  /\ "sponsor" \in req[r].dirty => Exists(req[r].sponsor)
  /\ LET i == req[r].id
         dirty == req[r].dirty
         ks == dirty \cap Keys
         now == second[i]
         new == req[r].second
     IN  /\ users' = [users EXCEPT ![i] =
                         [k \in Keys |-> IF k \in dirty THEN req[r].want[k] ELSE @[k]]]
         /\ second' = [second EXCEPT ![i] =
                          [on |-> IF "on" \in dirty THEN new.on ELSE now.on,
                           secret |-> IF "secret" \in dirty THEN new.secret ELSE now.secret]]
         /\ sponsor' = [sponsor EXCEPT ![i] = IF "sponsor" \in dirty THEN req[r].sponsor ELSE @]
         /\ blind' = (blind \ ({i} \X ks)) \cup ({i} \X (ks \cap req[r].missed))
         /\ edited' = IF dirty \cap {"on", "secret"} = {} THEN edited ELSE edited \cup {i}
         /\ EndWriting(r, ks)
  /\ UNCHANGED <<nextId, told, untold, felled, load>>

WriteNothing(r) ==
  /\ req[r].op \in {"update", "profile"} /\ req[r].pc = "checked"
  /\ \/ req[r].id \notin DOMAIN users
     \/ "sponsor" \in req[r].dirty /\ ~Exists(req[r].sponsor)
  /\ End(r)
  /\ UNCHANGED <<users, second, sponsor, nextId, notes, load>>

Edit(r) == CheckUpdate(r) \/ CheckProfile(r) \/ Write(r) \/ WriteNothing(r)

\* Deleting, by whoever is signed in: any user, the administrator as well.
FindModel(r, i) == i \in DOMAIN users /\ Begin(r, Ask("delete", "found", i))

\* Who goes with i: the smallest set that holds i and everyone whose sponsor it
\* holds, with which ON DELETE CASCADE ends.
ReferralsIn(S) == \A j \in DOMAIN users : sponsor[j] \in S => j \in S
Cascade(i) ==
  {j \in DOMAIN users :
     /\ i \in DOMAIN users
     /\ \A S \in SUBSET DOMAIN users : i \in S /\ ReferralsIn(S) => j \in S}

\* The rows go, and the log entries of the administrator if that is among them.
DeleteRow(r) ==
  /\ req[r].op = "delete" /\ req[r].pc = "found"
  /\ LET gone == Cascade(req[r].id)
     IN  /\ users' = [i \in DOMAIN users \ gone |-> users[i]]
         /\ felled' = [i \in 1 .. nextId - 1 |-> IF i \in gone THEN req[r].id ELSE felled[i]]
         /\ told' = IF Administrator \in DOMAIN users' THEN told ELSE {}
  /\ req' = [req EXCEPT ![r].pc = "log"]
  /\ UNCHANGED <<second, sponsor, nextId, untold, blind, edited, load>>

\* Mutant of WriteDeletionLog: the entry is the deleted user's.
WriteDeletionLogOwn(r) ==
  /\ req[r].op = "delete" /\ req[r].pc = "log"
  /\ told' = IF req[r].id \in DOMAIN users THEN told \cup {req[r].id} ELSE told
  /\ End(r)
  /\ UNCHANGED <<users, second, sponsor, nextId, untold, felled, blind, edited, load>>

\* The entry is the administrator's, without whom it is refused.  (The second
\* entry, the deleted user's own, always is.)
WriteDeletionLog(r) ==
  /\ req[r].op = "delete" /\ req[r].pc = "log"
  /\ told' = IF Administrator \in DOMAIN users THEN told \cup {req[r].id} ELSE told
  /\ End(r)
  /\ UNCHANGED <<users, second, sponsor, nextId, untold, felled, blind, edited, load>>

Delete(r) == DeleteRow(r) \/ WriteDeletionLog(r)

Die(r) ==
  /\ req[r].pc # "idle"
  /\ End(r)
  /\ untold' = IF req[r].pc = "log" THEN untold \cup {req[r].id} ELSE untold
  /\ UNCHANGED <<users, second, sponsor, nextId, told, felled, blind, edited, load>>

BeginAny(r) ==
  \E i \in DOMAIN users :
    \/ BeginCreate(r, i)
    \/ BeginUpdate(r, i)
    \/ \E m \in Mobiles : BeginProfile(r, i, m)
    \/ FindModel(r, i)

DirectoryNext ==
  \E r \in Requests : BeginAny(r) \/ Create(r) \/ Edit(r) \/ Delete(r) \/ Die(r)

DirectorySpec == DirectoryInit /\ [][DirectoryNext]_directoryVars

------------------------------------------------------------------------------
\* Two users share a name or a number only if one of them got it from a request
\* beside another that wrote that column between the look and the write, and a
\* referral code only so or by an edit, which does not look: the looks that are
\* made fail in no other way.
UniqueWhereLooked ==
  \A i, j \in DOMAIN users : \A k \in Keys :
    i # j /\ users[i][k] = users[j][k] /\ users[i][k] \notin {Null, Empty}
      => <<i, k>> \in blind \/ <<j, k>> \in blind

\* A user's sponsor is there, although sponsors are looked up long before the
\* row is written and may be deleted in between, with everyone they referred,
\* along sponsors that edits may turn into cycles.
NoOrphans == \A i \in DOMAIN users : Exists(sponsor[i])

\* A user who is gone, if only with a sponsor, is accounted for by a log entry
\* of that deletion, or one is about to be written, or the request died.
GoneAccountedFor ==
  Administrator \in DOMAIN users =>
    \A i \in 1 .. nextId - 1 \ DOMAIN users :
      \/ felled[i] \in told \cup untold
      \/ \E r \in Requests : req[r].pc = "log" /\ req[r].id = felled[i]
=============================================================================
