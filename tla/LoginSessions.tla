---------------------------- MODULE LoginSessions ----------------------------
(* Logging in, being served and being turned away.                           *)
(*                                                                           *)
(* A login is one PHP request that deletes the user's rows of user_sessions, *)
(* looks whether any is left, inserts its own and signs the session in: four *)
(* database or session steps that interleave with the requests of every      *)
(* other browser.  A protected page first compares the hash kept in the PHP  *)
(* session with the row of the user.  PHP locks a session's file for the     *)
(* length of a request, so one browser has one request in flight.            *)
EXTENDS Integers, Sequences, FiniteSets

CONSTANTS
  Browsers,     \* each one has a PHP session, an identity cookie, an address
  Members,      \* users with the role USER: always checked (checkSession)
  Admins,       \* users with the role ADMIN: never checked
  Fingerprints, \* user agent and address, as hashed by postLogin
  Fp,           \* the fingerprint of each browser
  None,         \* nobody, no hash
  Enrollers,    \* bound: the users who may ever have 2FA switched on
  MaxLogins     \* bound: logins begun

Users == Members \cup Admins
Hashes == Users \X Fingerprints

ASSUME ConstantsOK ==
  /\ Members \cap Admins = {}
  /\ \A b \in Browsers : Fp[b] \in Fingerprints
  /\ None \notin Users \cup Hashes
  /\ Enrollers \subseteq Users
  /\ MaxLogins \in Nat

VARIABLES
  rows,      \* rows[u]: the hashes of u's rows of user_sessions, oldest first
  twoFa,     \* twoFa[u]: users.is_two_fa, which goes with users.two_fa_secret
  active,    \* active[u]: users.status_id is ACTIVE
  sess,      \* sess[b]: the PHP session of the browser
  cookie,    \* cookie[b]: the user of the identity cookie, or None
  req,       \* req[b]: the request in flight
  orphaned,  \* users whose last login to pass the delete died before an insert
  owing,     \* browsers signed in by the form while 2FA was on, no code since
  logins     \* logins begun

vars == <<rows, twoFa, active, sess, cookie, req, orphaned, owing, logins>>

Session == [user: Users \cup {None}, hash: Hashes \cup {None},
            pending: BOOLEAN,   \* login_two_fa: a code is owed
            secret: BOOLEAN]    \* two_fa_secret was copied into the session
Fresh == [user |-> None, hash |-> None, pending |-> FALSE, secret |-> FALSE]

Stages == {"idle", "evict", "check", "insert", "signin", "act"}
Pages == {"page", "app", "verify", "enable", "disable", "logout"}
Codes == {"none", "wrong", "right"}    \* the 2FA code posted with the request

Request == [pc: Stages, user: Users \cup {None}, remember: BOOLEAN,
            twoFa: BOOLEAN,     \* is_two_fa as the request loaded it
            page: Pages, work: Session, solo: BOOLEAN]
Idle == [pc |-> "idle", user |-> None, remember |-> FALSE, twoFa |-> FALSE,
         page |-> "page", work |-> Fresh, solo |-> FALSE]

TypeOK ==
  /\ rows \in [Users -> Seq(Hashes)]
  /\ twoFa \in [Users -> BOOLEAN]
  /\ active \in [Users -> BOOLEAN]
  /\ sess \in [Browsers -> Session]
  /\ cookie \in [Browsers -> Users \cup {None}]
  /\ req \in [Browsers -> Request]
  /\ orphaned \subseteq Users
  /\ owing \subseteq Browsers
  /\ logins \in Nat

Init ==
  /\ rows = [u \in Users |-> <<>>]
  /\ \E on \in SUBSET Enrollers : twoFa = [u \in Users |-> u \in on]
  /\ active \in [Users -> BOOLEAN]
  /\ sess = [b \in Browsers |-> Fresh]
  /\ cookie = [b \in Browsers |-> None]
  /\ req = [b \in Browsers |-> Idle]
  /\ orphaned = {}
  /\ owing = {}
  /\ logins = 0

------------------------------------------------------------------------------
\* Mutant of Hash: the user name left out of the hash string.
HashOfDevice(u, b) == <<None, Fp[b]>>

Hash(u, b) == <<u, Fp[b]>>

\* isSessionUnique only deletes: the hash of the oldest row is the one that
\* ->one() returns.
Slot(u) == IF rows[u] = <<>> THEN None ELSE Head(rows[u])

\* Whom a request comes from: the session's user, or the identity cookie's.
Caller(b) == IF sess[b].user # None THEN sess[b].user ELSE cookie[b]

\* Mutant of SessionValid: any row of the user with this hash will do.
SessionValidByHash(u, hash) ==
  u \in Members => \E i \in DOMAIN rows[u] : rows[u][i] = hash

\* isSessionValid
SessionValid(u, hash) ==
  u \in Members => Slot(u) # None /\ hash # None /\ Slot(u) = hash

LoginStages == {"evict", "check", "insert", "signin"}

\* Logins of u between their delete and their insert.
Claiming(u) == {b \in Browsers : req[b].user = u /\ req[b].pc \in {"check", "insert"}}

------------------------------------------------------------------------------
\* actionLogin and actionMasterOxio, on a session that is a guest's.

StartLogin(b, u, remember, owes) ==
  /\ req[b].pc = "idle"
  /\ Caller(b) = None
  /\ logins < MaxLogins
  /\ logins' = logins + 1
  /\ req' = [req EXCEPT ![b] = [Idle EXCEPT !.pc = "evict", !.user = u,
                !.remember = remember, !.twoFa = owes, !.work = sess[b]]]
  /\ UNCHANGED <<rows, twoFa, active, sess, cookie, orphaned, owing>>

\* The right password of an active user; a wrong one changes nothing.
BeginLogin(b, u, remember) == active[u] /\ StartLogin(b, u, remember, twoFa[u])

BeginMasterLogin(b, u) == StartLogin(b, u, TRUE, FALSE)

\* Mutant of EvictRows: only the row that ->one() returns is deleted.
EvictOldestRow(b) ==
  LET u == req[b].user IN
  /\ req[b].pc = "evict"
  /\ rows' = IF u \in Members /\ rows[u] # <<>> THEN [rows EXCEPT ![u] = Tail(@)] ELSE rows
  /\ req' = [c \in Browsers |->
       IF c = b
       THEN [req[b] EXCEPT !.pc = IF u \in Members THEN "check" ELSE "insert",
                           !.work.pending = @ \/ req[b].twoFa,
                           !.solo = Claiming(u) = {}]
       ELSE [req[c] EXCEPT !.solo = @ /\ req[c].user # u]]
  /\ UNCHANGED <<twoFa, active, sess, cookie, orphaned, owing, logins>>

\* isSessionUnique deletes every row of a member, then login_two_fa is set.
EvictRows(b) ==
  LET u == req[b].user IN
  /\ req[b].pc = "evict"
  /\ rows' = IF u \in Members THEN [rows EXCEPT ![u] = <<>>] ELSE rows
  /\ req' = [c \in Browsers |->
       IF c = b
       THEN [req[b] EXCEPT !.pc = IF u \in Members THEN "check" ELSE "insert",
                           !.work.pending = @ \/ req[b].twoFa,
                           !.solo = Claiming(u) = {}]
       ELSE [req[c] EXCEPT !.solo = @ /\ req[c].user # u]]
  /\ UNCHANGED <<twoFa, active, sess, cookie, orphaned, owing, logins>>

\* postLogin looks for a row again.  If one is there it refuses, but its
\* result is not used: the login goes on without a row and without a hash.
CheckRow(b) ==
  /\ req[b].pc = "check"
  /\ req' = [req EXCEPT ![b].pc = IF rows[req[b].user] = <<>> THEN "insert" ELSE "signin"]
  /\ UNCHANGED <<rows, twoFa, active, sess, cookie, orphaned, owing, logins>>

InsertRow(b) ==
  LET u == req[b].user IN
  /\ req[b].pc = "insert"
  /\ rows' = [rows EXCEPT ![u] = Append(@, Hash(u, b))]
  /\ req' = [req EXCEPT ![b].pc = "signin", ![b].work.hash = Hash(u, b)]
  /\ orphaned' = orphaned \ {u}
  /\ UNCHANGED <<twoFa, active, sess, cookie, owing, logins>>

\* Mutant of SignIn: the new session starts without the flags of the old one.
SignInAnew(b) ==
  LET u == req[b].user IN
  /\ req[b].pc = "signin"
  /\ sess' = [sess EXCEPT ![b] = [Fresh EXCEPT !.user = u, !.hash = req[b].work.hash]]
  /\ cookie' = [cookie EXCEPT ![b] = IF req[b].remember THEN u ELSE None]
  /\ req' = [req EXCEPT ![b] = Idle]
  /\ owing' = IF req[b].twoFa THEN owing \cup {b} ELSE owing \ {b}
  /\ UNCHANGED <<rows, twoFa, active, orphaned, logins>>

\* Yii signs the session in; the identity cookie is sent or withdrawn.
SignIn(b) ==
  LET u == req[b].user IN
  /\ req[b].pc = "signin"
  /\ sess' = [sess EXCEPT ![b] = [req[b].work EXCEPT !.user = u]]
  /\ cookie' = [cookie EXCEPT ![b] = IF req[b].remember THEN u ELSE None]
  /\ req' = [req EXCEPT ![b] = Idle]
  /\ owing' = IF req[b].twoFa THEN owing \cup {b} ELSE owing \ {b}
  /\ UNCHANGED <<rows, twoFa, active, orphaned, logins>>

\* A login dies midway: an error saves what the session held by then, a
\* killed process saves nothing.
AbortLogin(b) ==
  /\ req[b].pc \in LoginStages
  /\ sess' \in {sess, [sess EXCEPT ![b] = req[b].work]}
  /\ orphaned' = IF b \in Claiming(req[b].user) THEN orphaned \cup {req[b].user} ELSE orphaned
  /\ req' = [req EXCEPT ![b] = Idle]
  /\ UNCHANGED <<rows, twoFa, active, cookie, owing, logins>>

------------------------------------------------------------------------------
\* Protected pages: ProtectedController::beforeAction, then the action.

\* Yii's logout: the session is destroyed and the identity cookie withdrawn.
\* The row of user_sessions stays.
SignOut(b) ==
  /\ sess' = [sess EXCEPT ![b] = Fresh]
  /\ cookie' = [cookie EXCEPT ![b] = None]
  /\ owing' = owing \ {b}

\* The session as beforeAction leaves it: the user known (by the cookie, if
\* the session had none), the secret copied when 2FA is on.
Recognised(b) ==
  [sess[b] EXCEPT !.user = Caller(b), !.secret = @ \/ twoFa[Caller(b)]]

\* TWO_FA_ACTIONS asks for a code on POSTs: a code that is posted must be
\* right, and one must be posted while 2FA is on.  Verifying is always a POST;
\* the other pages are modelled as GETs.
CodeAccepted(b, page, code) ==
  page = "verify" =>
    \/ ~twoFa[Caller(b)] /\ code = "none"
    \/ Recognised(b).secret /\ code = "right"

\* BaseController: while a code is owed only verifying and logging out are
\* let through; AppController ignores what its parent answered.
LetThrough(b, page, code) ==
  \/ page = "app"
  \/ /\ CodeAccepted(b, page, code)
     /\ Recognised(b).pending => page \in {"verify", "logout"}

Asks(b) == req[b].pc = "idle" /\ Caller(b) # None

TurnAway(b) ==
  /\ Asks(b)
  /\ ~SessionValid(Caller(b), sess[b].hash)
  /\ SignOut(b)
  /\ UNCHANGED <<rows, twoFa, active, req, orphaned, logins>>

\* Redirected to the code form or back to the page.
Bounce(b, page, code) ==
  /\ Asks(b)
  /\ SessionValid(Caller(b), sess[b].hash)
  /\ ~LetThrough(b, page, code)
  /\ sess' = [sess EXCEPT ![b] = Recognised(b)]
  /\ UNCHANGED <<rows, twoFa, active, cookie, req, orphaned, owing, logins>>

Serve(b, page, code) ==
  /\ Asks(b)
  /\ SessionValid(Caller(b), sess[b].hash)
  /\ LetThrough(b, page, code)
  /\ page = "enable" => Caller(b) \in Enrollers
  /\ req' = [req EXCEPT ![b] = [Idle EXCEPT !.pc = "act", !.user = Caller(b),
                !.twoFa = twoFa[Caller(b)], !.page = page, !.work = Recognised(b)]]
  /\ UNCHANGED <<rows, twoFa, active, sess, cookie, orphaned, owing, logins>>

\* The end of a request that leaves the session signed in.
Acts(b, pages) == req[b].pc = "act" /\ req[b].page \in pages
EndRequest(b) == req' = [req EXCEPT ![b] = Idle]
Stay(b, session) == sess' = [sess EXCEPT ![b] = session] /\ cookie' = cookie

ActPage(b) ==
  /\ \/ Acts(b, {"page"})
     \/ Acts(b, {"app"}) /\ (active[req[b].user] \/ req[b].user \in Admins)
  /\ Stay(b, req[b].work)
  /\ EndRequest(b)
  /\ UNCHANGED <<rows, twoFa, active, orphaned, owing, logins>>

\* AppController signs out a member whose account is no longer active.
ActAppInactive(b) ==
  /\ Acts(b, {"app"})
  /\ req[b].user \in Members /\ ~active[req[b].user]
  /\ SignOut(b)
  /\ EndRequest(b)
  /\ UNCHANGED <<rows, twoFa, active, orphaned, logins>>

ActVerifyTwofa(b) ==
  /\ Acts(b, {"verify"})
  /\ Stay(b, [req[b].work EXCEPT !.pending = FALSE])
  /\ owing' = owing \ {b}
  /\ EndRequest(b)
  /\ UNCHANGED <<rows, twoFa, active, orphaned, logins>>

\* With the code of the new secret; a wrong code changes nothing.
ActEnableTwofactor(b) ==
  /\ Acts(b, {"enable"})
  /\ twoFa' = [twoFa EXCEPT ![req[b].user] = TRUE]
  /\ Stay(b, req[b].work)
  /\ EndRequest(b)
  /\ UNCHANGED <<rows, active, orphaned, owing, logins>>

\* Decided on the user as loaded with the request.
ActDisableTwofactor(b) ==
  /\ Acts(b, {"disable"})
  /\ twoFa' = [twoFa EXCEPT ![req[b].user] = @ /\ ~req[b].twoFa]
  /\ Stay(b, req[b].work)
  /\ EndRequest(b)
  /\ UNCHANGED <<rows, active, orphaned, owing, logins>>

\* Mutant of ActLogout: Users::logout, which deletes the rows as well.
ActLogoutEverywhere(b) ==
  /\ Acts(b, {"logout"})
  /\ SignOut(b)
  /\ EndRequest(b)
  /\ rows' = [rows EXCEPT ![req[b].user] = <<>>]
  /\ UNCHANGED <<twoFa, active, orphaned, logins>>

ActLogout(b) ==
  /\ Acts(b, {"logout"})
  /\ SignOut(b)
  /\ EndRequest(b)
  /\ UNCHANGED <<rows, twoFa, active, orphaned, logins>>

------------------------------------------------------------------------------
\* The session file is collected, or the browser drops its session cookie.
ExpireSession(b) ==
  /\ req[b].pc = "idle" /\ sess[b] # Fresh
  /\ sess' = [sess EXCEPT ![b] = Fresh]
  /\ owing' = owing \ {b}
  /\ UNCHANGED <<rows, twoFa, active, cookie, req, orphaned, logins>>

\* users/update-status
UpdateStatus(u) ==
  /\ active' = [active EXCEPT ![u] = ~@]
  /\ UNCHANGED <<rows, twoFa, sess, cookie, req, orphaned, owing, logins>>

Login(b) ==
  \/ \E u \in Users, remember \in BOOLEAN : BeginLogin(b, u, remember)
  \/ \E u \in Users : BeginMasterLogin(b, u)
  \/ EvictRows(b) \/ CheckRow(b) \/ InsertRow(b) \/ SignIn(b) \/ AbortLogin(b)

Visit(b) ==
  \/ TurnAway(b)
  \/ \E page \in Pages, code \in Codes : Bounce(b, page, code) \/ Serve(b, page, code)
  \/ ActPage(b) \/ ActAppInactive(b) \/ ActVerifyTwofa(b)
  \/ ActEnableTwofactor(b) \/ ActDisableTwofactor(b) \/ ActLogout(b)

Next ==
  \/ \E b \in Browsers : Login(b) \/ Visit(b) \/ ExpireSession(b)
  \/ \E u \in Users : UpdateStatus(u)

Spec == Init /\ [][Next]_vars

------------------------------------------------------------------------------
\* A member is being signed in or is signed in on some browser, so that its
\* last login got past postLogin.
Attached(u) ==
  \E b \in Browsers :
    \/ sess[b].user = u
    \/ req[b].user = u /\ req[b].pc \in {"signin", "act"}

\* No login leaves a member signed in with nobody holding the device slot:
\* whatever logins of the member overlap, once one got past postLogin there is
\* a row of user_sessions, or a login about to look and insert one, unless the
\* last one died between isSessionUnique's delete and postLogin's insert.
SlotKept ==
  \A u \in Members \ orphaned : Attached(u) => Slot(u) # None \/ Claiming(u) # {}

\* A login during which no other login of the same member deleted or was
\* about to insert is not refused by its own look at the table and takes the
\* slot: when it signs in, the next protected page of this browser is served.
SoloLoginHolds ==
  \A b \in Browsers :
    LET u == req[b].user IN
    req[b].pc = "signin" /\ req[b].solo /\ u \in Members =>
      req[b].work.hash = Hash(u, b) /\ SessionValid(u, req[b].work.hash)

\* A session signed in by the form while 2FA was on goes on owing a code until
\* verify-twofa accepted one (or ran with 2FA switched off), whatever happens
\* to the member's 2FA setting and rows in other browsers.
CodeStaysOwed == \A b \in owing : sess[b].pending

SD == INSTANCE SingleDevice WITH
        Tickets <- Hashes,
        slot <- [u \in Users |-> Slot(u)],
        signed <- [b \in Browsers |-> sess[b].user],
        ticket <- [b \in Browsers |-> sess[b].hash],
        serving <- [b \in Browsers |-> req[b].pc = "act"]

\* The delete, the look and the insert, interleaved by several browsers, still
\* give each member one device slot: the first insert after a delete holds it
\* until the next delete, and only sessions with its hash are served.
DeviceSlot == SD!Spec

------------------------------------------------------------------------------
\* What the repository says and the code does not do.

\* postLogin answers a login it refuses with "You are already logged in on a
\* different device. Please logout first." and returns false: a member signed
\* in has been given a hash by its login.
RefusedStaysOut == \A b \in Browsers : sess[b].user \in Members => sess[b].hash # None

\* getAuthKey: the identity cookie "will be used to authenticate user even if
\* PHP session has been expired".  A browser that still holds the member's
\* device slot and comes back with that cookie is not made to log in again.
CookieLogsBackIn ==
  \A b \in Browsers :
    LET u == cookie[b] IN
    req[b].pc = "idle" /\ u \in Members /\ sess[b] = Fresh /\ Slot(u) = Hash(u, b) =>
      SessionValid(u, sess[b].hash)
=============================================================================
