------------------------- MODULE LoginSessionsProofs -------------------------
(* Proofs about LoginSessions, for every set of browsers, members, admins    *)
(* and fingerprints, and any number of logins.                               *)
EXTENDS LoginSessions, TLAPS

\* What a session and a request are made of, for the leaves below.
LEMMA FreshType == Fresh \in Session
  BY ConstantsOK DEF Fresh, Session

LEMMA IdleType == Idle \in Request
  BY FreshType DEF Idle, Request, Stages, Pages

LEMMA HashType ==
  ASSUME NEW u \in Users, NEW b \in Browsers
  PROVE  Hash(u, b) \in Hashes
  BY ConstantsOK DEF Hash, Hashes

\* The user a request asks for is a user once the browser has one.
LEMMA CallerType ==
  ASSUME TypeOK, NEW b \in Browsers, Caller(b) # None
  PROVE  Caller(b) \in Users /\ Recognised(b) \in Session
  <1>1. Caller(b) \in Users
    BY DEF Caller, TypeOK, Session
  <1>2. twoFa[Caller(b)] \in BOOLEAN
    BY <1>1 DEF TypeOK
  <1>. QED
    BY <1>1, <1>2 DEF Recognised, TypeOK, Session

\* A request in flight is some user's.
RequestOwned == \A b \in Browsers : req[b].pc # "idle" => req[b].user \in Users

TypeInv == TypeOK /\ RequestOwned

LEMMA TypeInit == Init => TypeInv
  <1>. SUFFICES ASSUME Init PROVE TypeInv
    OBVIOUS
  <1>. USE DEF Init
  <1>1. rows \in [Users -> Seq(Hashes)]
    OBVIOUS
  <1>2. sess \in [Browsers -> Session] /\ req \in [Browsers -> Request]
    BY FreshType, IdleType
  <1>3. RequestOwned
    BY DEF RequestOwned, Idle
  <1>. QED
    BY <1>1, <1>2, <1>3 DEF TypeInv, TypeOK

LEMMA TypeNext == TypeInv /\ [Next]_vars => TypeInv'
  <1>. SUFFICES ASSUME TypeInv, [Next]_vars PROVE TypeInv'
    OBVIOUS
  <1>. USE DEF TypeInv, TypeOK, RequestOwned
  <1>1. ASSUME NEW b \in Browsers, Login(b) PROVE TypeInv'
    <2>1. ASSUME NEW u \in Users, NEW remember \in BOOLEAN, NEW owes \in BOOLEAN,
                 StartLogin(b, u, remember, owes)
          PROVE  TypeInv'
      <3>1. [Idle EXCEPT !.pc = "evict", !.user = u, !.remember = remember,
               !.twoFa = owes, !.work = sess[b]] \in Request
        BY IdleType DEF Request, Idle, Stages
      <3>. QED
        BY <2>1, <3>1 DEF StartLogin, Idle
    <2>2. CASE EvictRows(b)
      <3>. DEFINE u == req[b].user
      <3>1. u \in Users
        BY <2>2 DEF EvictRows
      <3>2. rows' \in [Users -> Seq(Hashes)]
        <4>1. rows' = IF u \in Members THEN [rows EXCEPT ![u] = <<>>] ELSE rows
          BY <2>2 DEF EvictRows
        <4>2. <<>> \in Seq(Hashes)
          OBVIOUS
        <4>3. [rows EXCEPT ![u] = <<>>] \in [Users -> Seq(Hashes)]
          BY <3>1, <4>2
        <4>. QED
          BY <4>1, <4>3
      <3>3. ASSUME NEW c \in Browsers
            PROVE  req'[c] \in Request /\ req'[c].user = req[c].user
        <4>1. CASE c = b
          <5>. DEFINE pc == IF u \in Members THEN "check" ELSE "insert"
                      owes == req[b].work.pending \/ req[b].twoFa
                      solo == Claiming(u) = {}
          <5>1. pc \in Stages /\ owes \in BOOLEAN /\ solo \in BOOLEAN
            BY DEF Stages
          <5>2. req'[c] = [req[b] EXCEPT !.pc = pc, !.work.pending = owes, !.solo = solo]
            BY <2>2, <4>1 DEF EvictRows
          <5>. HIDE DEF pc, owes, solo
          <5>. QED
            BY <4>1, <5>1, <5>2 DEF Request, Session
        <4>2. CASE c # b
          <5>. DEFINE solo == req[c].solo /\ req[c].user # u
          <5>1. solo \in BOOLEAN
            OBVIOUS
          <5>2. req'[c] = [req[c] EXCEPT !.solo = solo]
            BY <2>2, <4>2 DEF EvictRows
          <5>. HIDE DEF solo
          <5>. QED
            BY <5>1, <5>2 DEF Request
        <4>. QED
          BY <4>1, <4>2
      <3>4. req' \in [Browsers -> Request]
        <4>1. req' = [c \in Browsers |-> req'[c]]
          BY <2>2 DEF EvictRows
        <4>. QED
          BY <3>3, <4>1
      <3>5. RequestOwned'
        <4>1. ASSUME NEW c \in Browsers, c # b PROVE req'[c].pc = req[c].pc
          BY <2>2, <4>1 DEF EvictRows, Request
        <4>. QED
          BY <3>1, <3>3, <4>1
      <3>. QED
        BY <2>2, <3>2, <3>4, <3>5 DEF EvictRows
    <2>3. CASE CheckRow(b)
      <3>. DEFINE pc == IF rows[req[b].user] = <<>> THEN "insert" ELSE "signin"
      <3>1. pc \in Stages
        BY DEF Stages
      <3>2. req' = [req EXCEPT ![b].pc = pc] /\ req[b].user \in Users
        BY <2>3 DEF CheckRow
      <3>. HIDE DEF pc
      <3>3. req' \in [Browsers -> Request] /\ RequestOwned'
        BY <3>1, <3>2 DEF Request
      <3>. QED
        BY <2>3, <3>3 DEF CheckRow
    <2>4. CASE InsertRow(b)
      <3>1. req[b].user \in Users /\ Hash(req[b].user, b) \in Hashes
        BY <2>4, HashType DEF InsertRow
      <3>2. rows' \in [Users -> Seq(Hashes)]
        BY <2>4, <3>1 DEF InsertRow
      <3>3. req' \in [Browsers -> Request] /\ RequestOwned'
        <4>. DEFINE hash == Hash(req[b].user, b)
        <4>1. /\ req' = [req EXCEPT ![b].pc = "signin", ![b].work.hash = hash]
              /\ hash \in Hashes
          BY <2>4, <3>1 DEF InsertRow
        <4>. HIDE DEF hash
        <4>. DEFINE work == [req[b].work EXCEPT !.hash = hash]
                    request == [req[b] EXCEPT !.pc = "signin", !.work = work]
        <4>2. work \in Session
          BY <4>1 DEF Request, Session
        <4>3. request = [req[b] EXCEPT !.pc = "signin", !.work.hash = hash]
          BY DEF Request
        <4>4. req' = [req EXCEPT ![b] = request]
          BY <4>1, <4>3
        <4>. HIDE DEF work
        <4>5. request \in Request /\ request.user = req[b].user
          BY <4>2 DEF Request, Stages
        <4>. QED
          BY <3>1, <4>4, <4>5
      <3>. QED
        BY <2>4, <3>2, <3>3 DEF InsertRow
    <2>5. CASE SignIn(b)
      BY <2>5, IdleType DEF SignIn, Request, Session, Idle
    <2>6. CASE AbortLogin(b)
      <3>1. req[b].user \in Users /\ req[b].work \in Session
        BY <2>6 DEF AbortLogin, LoginStages, Request
      <3>. QED
        BY <2>6, <3>1, IdleType DEF AbortLogin, Idle
    <2>. QED
      BY <1>1, <2>1, <2>2, <2>3, <2>4, <2>5, <2>6 DEF Login, BeginLogin, BeginMasterLogin
  <1>2. ASSUME NEW b \in Browsers, Visit(b) PROVE TypeInv'
    <2>1. CASE TurnAway(b)
      BY <2>1, FreshType, ConstantsOK DEF TurnAway, SignOut
    <2>2. ASSUME NEW page \in Pages, NEW code \in Codes, Bounce(b, page, code)
          PROVE  TypeInv'
      BY <2>2, CallerType DEF Bounce, Asks
    <2>3. ASSUME NEW page \in Pages, NEW code \in Codes, Serve(b, page, code)
          PROVE  TypeInv'
      <3>1. Caller(b) \in Users /\ Recognised(b) \in Session /\ twoFa[Caller(b)] \in BOOLEAN
        BY <2>3, CallerType DEF Serve, Asks
      <3>2. [Idle EXCEPT !.pc = "act", !.user = Caller(b), !.twoFa = twoFa[Caller(b)],
               !.page = page, !.work = Recognised(b)] \in Request
        BY <3>1, IdleType DEF Request, Idle, Stages
      <3>. QED
        BY <2>3, <3>1, <3>2 DEF Serve, Idle
    <2>4. CASE ActPage(b) \/ ActAppInactive(b) \/ ActVerifyTwofa(b)
               \/ ActEnableTwofactor(b) \/ ActDisableTwofactor(b) \/ ActLogout(b)
      <3>1. req[b].work \in Session /\ [req[b].work EXCEPT !.pending = FALSE] \in Session
        BY DEF Request, Session
      <3>2. twoFa' \in [Users -> BOOLEAN]
        BY <2>4 DEF ActPage, ActAppInactive, ActVerifyTwofa, ActEnableTwofactor,
                    ActDisableTwofactor, ActLogout
      <3>3. /\ req' = [req EXCEPT ![b] = Idle]
            /\ \/ sess' = [sess EXCEPT ![b] = req[b].work]
               \/ sess' = [sess EXCEPT ![b] = [req[b].work EXCEPT !.pending = FALSE]]
               \/ sess' = [sess EXCEPT ![b] = Fresh]
            /\ cookie' \in {cookie, [cookie EXCEPT ![b] = None]}
            /\ owing' \in {owing, owing \ {b}}
            /\ UNCHANGED <<rows, active, orphaned, logins>>
        BY <2>4 DEF ActPage, ActAppInactive, ActVerifyTwofa, ActEnableTwofactor,
                    ActDisableTwofactor, ActLogout, Stay, SignOut, EndRequest
      <3>4. sess' \in [Browsers -> Session] /\ cookie' \in [Browsers -> Users \cup {None}]
        BY <3>1, <3>3, FreshType
      <3>5. req' \in [Browsers -> Request] /\ RequestOwned'
        BY <3>3, IdleType DEF Idle
      <3>. QED
        BY <3>2, <3>3, <3>4, <3>5
    <2>. QED
      BY <1>2, <2>1, <2>2, <2>3, <2>4 DEF Visit
  <1>3. ASSUME NEW b \in Browsers, ExpireSession(b) PROVE TypeInv'
    BY <1>3, FreshType DEF ExpireSession
  <1>4. ASSUME NEW u \in Users, UpdateStatus(u) PROVE TypeInv'
    BY <1>4 DEF UpdateStatus
  <1>5. CASE UNCHANGED vars
    BY <1>5 DEF vars
  <1>. QED
    BY <1>1, <1>2, <1>3, <1>4, <1>5 DEF Next

LEMMA TypeInvariant == Spec => []TypeInv
  BY TypeInit, TypeNext, PTL DEF Spec

\* TypeOK: every value stays of its type, whatever requests interleave.
THEOREM TypeCorrect == Spec => []TypeOK
  BY TypeInvariant, PTL DEF TypeInv

------------------------------------------------------------------------------
\* What a step leaves of the other browsers, and of the browser itself.

\* The parts of a request that the interleaving with others cannot change.
SameRequest(c) ==
  /\ req'[c].pc = req[c].pc /\ req'[c].user = req[c].user
  /\ req'[c].work = req[c].work /\ req'[c].twoFa = req[c].twoFa

LEMMA OtherBrowser ==
  ASSUME TypeInv, NEW b \in Browsers, NEW c \in Browsers, c # b,
         Login(b) \/ Visit(b) \/ ExpireSession(b)
  PROVE  SameRequest(c) /\ sess'[c] = sess[c] /\ cookie'[c] = cookie[c]
         /\ (c \in owing' <=> c \in owing)
  <1>. USE DEF TypeInv, TypeOK
  <1>1. CASE EvictRows(b)
    <2>. DEFINE solo == req[c].solo /\ req[c].user # req[b].user
    <2>1. req'[c] = [req[c] EXCEPT !.solo = solo]
      BY <1>1 DEF EvictRows
    <2>. HIDE DEF solo
    <2>2. SameRequest(c)
      BY <2>1 DEF SameRequest, Request
    <2>. QED
      BY <1>1, <2>2 DEF EvictRows
  <1>2. CASE ~EvictRows(b)
    <2>1. req'[c] = req[c]
      BY <1>2 DEF Login, BeginLogin, BeginMasterLogin, StartLogin, CheckRow, InsertRow, SignIn,
                  AbortLogin, Visit, TurnAway, Bounce, Serve, ActPage, ActAppInactive,
                  ActVerifyTwofa, ActEnableTwofactor, ActDisableTwofactor, ActLogout,
                  EndRequest, ExpireSession
    <2>2. sess'[c] = sess[c] /\ cookie'[c] = cookie[c]
      BY <1>2 DEF Login, BeginLogin, BeginMasterLogin, StartLogin, CheckRow, InsertRow, SignIn,
                  AbortLogin, Visit, TurnAway, Bounce, Serve, ActPage, ActAppInactive,
                  ActVerifyTwofa, ActEnableTwofactor, ActDisableTwofactor, ActLogout,
                  SignOut, Stay, ExpireSession
    <2>3. c \in owing' <=> c \in owing
      BY <1>2 DEF Login, BeginLogin, BeginMasterLogin, StartLogin, CheckRow, InsertRow, SignIn,
                  AbortLogin, Visit, TurnAway, Bounce, Serve, ActPage, ActAppInactive,
                  ActVerifyTwofa, ActEnableTwofactor, ActDisableTwofactor, ActLogout,
                  SignOut, Stay, ExpireSession
    <2>. QED
      BY <2>1, <2>2, <2>3 DEF SameRequest
  <1>. QED
    BY <1>1, <1>2

LEMMA RecognisedParts ==
  ASSUME TypeInv, NEW b \in Browsers
  PROVE  /\ Recognised(b).user = Caller(b) /\ Recognised(b).hash = sess[b].hash
         /\ Recognised(b).pending = sess[b].pending
  <1>. DEFINE copied == sess[b].secret \/ twoFa[Caller(b)]
  <1>1. Recognised(b) = [sess[b] EXCEPT !.user = Caller(b), !.secret = copied]
    BY DEF Recognised
  <1>2. sess[b] \in Session
    BY DEF TypeInv, TypeOK
  <1>. HIDE DEF copied
  <1>. QED
    BY <1>1, <1>2 DEF Session

LEMMA ServeEffect ==
  ASSUME TypeInv, NEW b \in Browsers, NEW page \in Pages, NEW code \in Codes,
         Serve(b, page, code)
  PROVE  /\ Caller(b) \in Users /\ SessionValid(Caller(b), sess[b].hash)
         /\ req[b].pc = "idle" /\ req'[b].pc = "act" /\ req'[b].user = Caller(b)
         /\ req'[b].work = Recognised(b) /\ req'[b].page = page
         /\ UNCHANGED <<rows, sess, orphaned, owing>>
  <1>. DEFINE request == [Idle EXCEPT !.pc = "act", !.user = Caller(b),
                !.twoFa = twoFa[Caller(b)], !.page = page, !.work = Recognised(b)]
  <1>1. req'[b] = request
    BY DEF Serve, TypeInv, TypeOK
  <1>2. /\ request.pc = "act" /\ request.user = Caller(b)
        /\ request.work = Recognised(b) /\ request.page = page
    BY DEF Idle
  <1>. QED
    BY <1>1, <1>2, CallerType DEF Serve, Asks, TypeInv

LEMMA StartEffect ==
  ASSUME TypeInv, NEW b \in Browsers, NEW u \in Users, NEW remember \in BOOLEAN,
         NEW owes \in BOOLEAN, StartLogin(b, u, remember, owes)
  PROVE  /\ req[b].pc = "idle" /\ sess[b].user = None
         /\ req'[b].pc = "evict" /\ req'[b].user = u /\ req'[b].work = sess[b]
         /\ UNCHANGED <<rows, sess, orphaned, owing>>
  <1>. DEFINE request == [Idle EXCEPT !.pc = "evict", !.user = u,
                            !.remember = remember, !.twoFa = owes, !.work = sess[b]]
  <1>1. req'[b] = request /\ Caller(b) = None
    BY DEF StartLogin, TypeInv, TypeOK
  <1>2. request.pc = "evict" /\ request.user = u /\ request.work = sess[b]
    BY IdleType DEF Request, Idle
  <1>3. sess[b].user = None
    BY <1>1 DEF Caller
  <1>. HIDE DEF request
  <1>. QED
    BY <1>1, <1>2, <1>3 DEF StartLogin

LEMMA EvictEffect ==
  ASSUME TypeInv, NEW b \in Browsers, EvictRows(b)
  PROVE  /\ req'[b].pc = IF req[b].user \in Members THEN "check" ELSE "insert"
         /\ req'[b].user = req[b].user /\ req'[b].twoFa = req[b].twoFa
         /\ req'[b].work.user = req[b].work.user
         /\ req[b].twoFa \/ req[b].work.pending => req'[b].work.pending
         /\ req'[b].solo => Claiming(req[b].user) = {}
  <1>. USE DEF TypeInv, TypeOK
  <1>. DEFINE pc == IF req[b].user \in Members THEN "check" ELSE "insert"
              owes == req[b].work.pending \/ req[b].twoFa
              solo == Claiming(req[b].user) = {}
              work == [req[b].work EXCEPT !.pending = owes]
  <1>1. req'[b] = [req[b] EXCEPT !.pc = pc, !.work.pending = owes, !.solo = solo]
    BY DEF EvictRows
  <1>. HIDE DEF pc, owes, solo
  <1>2. req'[b] = [req[b] EXCEPT !.pc = pc, !.work = work, !.solo = solo]
    BY <1>1 DEF Request
  <1>3. work.user = req[b].work.user /\ work.pending = owes
    BY DEF Request, Session
  <1>. HIDE DEF work
  <1>4. /\ req'[b].pc = pc /\ req'[b].user = req[b].user /\ req'[b].twoFa = req[b].twoFa
        /\ req'[b].work = work /\ req'[b].solo = solo
    BY <1>2 DEF Request
  <1>. QED
    BY <1>3, <1>4 DEF pc, owes, solo

LEMMA InsertEffect ==
  ASSUME TypeInv, NEW b \in Browsers, InsertRow(b)
  PROVE  /\ req'[b].pc = "signin" /\ req'[b].user = req[b].user
         /\ req'[b].twoFa = req[b].twoFa /\ req'[b].solo = req[b].solo
         /\ req'[b].work.user = req[b].work.user
         /\ req'[b].work.hash = Hash(req[b].user, b)
         /\ req'[b].work.pending = req[b].work.pending
  <1>. USE DEF TypeInv, TypeOK
  <1>. DEFINE hash == Hash(req[b].user, b)
              work == [req[b].work EXCEPT !.hash = hash]
  <1>1. req'[b] = [req[b] EXCEPT !.pc = "signin", !.work.hash = hash]
    BY DEF InsertRow
  <1>. HIDE DEF hash
  <1>2. req'[b] = [req[b] EXCEPT !.pc = "signin", !.work = work]
    BY <1>1 DEF Request
  <1>3. work.user = req[b].work.user /\ work.hash = hash /\ work.pending = req[b].work.pending
    BY DEF Request, Session
  <1>. HIDE DEF work
  <1>4. /\ req'[b].pc = "signin" /\ req'[b].user = req[b].user
        /\ req'[b].twoFa = req[b].twoFa /\ req'[b].solo = req[b].solo /\ req'[b].work = work
    BY <1>2 DEF Request
  <1>. QED
    BY <1>3, <1>4 DEF hash

LEMMA CheckEffect ==
  ASSUME TypeInv, NEW b \in Browsers, CheckRow(b)
  PROVE  /\ req'[b].pc = IF rows[req[b].user] = <<>> THEN "insert" ELSE "signin"
         /\ req'[b].user = req[b].user /\ req'[b].twoFa = req[b].twoFa
         /\ req'[b].solo = req[b].solo /\ req'[b].work = req[b].work
  <1>. USE DEF TypeInv, TypeOK
  <1>. DEFINE pc == IF rows[req[b].user] = <<>> THEN "insert" ELSE "signin"
  <1>1. req'[b] = [req[b] EXCEPT !.pc = pc]
    BY DEF CheckRow
  <1>. HIDE DEF pc
  <1>2. /\ req'[b].pc = pc /\ req'[b].user = req[b].user /\ req'[b].twoFa = req[b].twoFa
        /\ req'[b].solo = req[b].solo /\ req'[b].work = req[b].work
    BY <1>1 DEF Request
  <1>. QED
    BY <1>2 DEF pc

LEMMA LoginSteps ==
  ASSUME TypeInv, NEW b \in Browsers, Login(b)
  PROVE  \/ \E u \in Users, remember \in BOOLEAN, owes \in BOOLEAN :
              StartLogin(b, u, remember, owes)
         \/ EvictRows(b) \/ CheckRow(b) \/ InsertRow(b) \/ SignIn(b) \/ AbortLogin(b)
  <1>1. ASSUME NEW u \in Users, NEW remember \in BOOLEAN, BeginLogin(b, u, remember)
        PROVE  StartLogin(b, u, remember, twoFa[u]) /\ twoFa[u] \in BOOLEAN
    BY <1>1 DEF BeginLogin, TypeInv, TypeOK
  <1>. QED
    BY <1>1 DEF Login, BeginMasterLogin

\* Steps that are not a login's delete, look or insert end between requests, at
\* the start of one or in a page.
LEMMA EntersNoClaim ==
  ASSUME TypeInv, NEW b \in Browsers,
         SignIn(b) \/ AbortLogin(b) \/ Visit(b) \/ ExpireSession(b)
  PROVE  req'[b].pc \in {"idle", "act"}
  <1>1. ASSUME NEW page \in Pages, NEW code \in Codes, Serve(b, page, code)
        PROVE  req'[b].pc = "act"
    BY <1>1, ServeEffect
  <1>2. CASE TurnAway(b) \/ ExpireSession(b)
             \/ \E page \in Pages, code \in Codes : Bounce(b, page, code)
    BY <1>2 DEF TurnAway, Bounce, ExpireSession, Asks
  <1>3. CASE SignIn(b) \/ AbortLogin(b) \/ ActPage(b) \/ ActAppInactive(b)
             \/ ActVerifyTwofa(b) \/ ActEnableTwofactor(b) \/ ActDisableTwofactor(b)
             \/ ActLogout(b)
    <2>1. req'[b] = Idle
      BY <1>3 DEF SignIn, AbortLogin, ActPage, ActAppInactive, ActVerifyTwofa,
         ActEnableTwofactor, ActDisableTwofactor, ActLogout, EndRequest, TypeInv, TypeOK
    <2>. QED
      BY <2>1 DEF Idle
  <1>. QED
    BY <1>1, <1>2, <1>3 DEF Visit

------------------------------------------------------------------------------
\* A login works on a session that is a guest's; a request being served works
\* on a copy of the session that only adds who the user is.
RequestConsistent ==
  \A b \in Browsers :
    /\ req[b].pc \in LoginStages => sess[b].user = None /\ req[b].work.user = None
    /\ req[b].pc = "act" =>
         /\ req[b].work.user = req[b].user
         /\ sess[b].user \in {req[b].user, None}
         /\ req[b].work.hash = sess[b].hash

LEMMA ConsistentInit == Init => RequestConsistent
  BY DEF Init, RequestConsistent, Idle, LoginStages

LEMMA ConsistentNext == TypeInv /\ RequestConsistent /\ [Next]_vars => RequestConsistent'
  <1>. SUFFICES ASSUME TypeInv, RequestConsistent, [Next]_vars PROVE RequestConsistent'
    OBVIOUS
  <1>. USE DEF RequestConsistent
  <1>1. ASSUME NEW b \in Browsers, Login(b) \/ Visit(b) \/ ExpireSession(b)
        PROVE  RequestConsistent'
    <2>1. ASSUME NEW c \in Browsers, c # b
          PROVE  SameRequest(c) /\ sess'[c] = sess[c]
      BY <1>1, <2>1, OtherBrowser
    <2>2. /\ req'[b].pc \in LoginStages => sess'[b].user = None /\ req'[b].work.user = None
          /\ req'[b].pc = "act" =>
               /\ req'[b].work.user = req'[b].user
               /\ sess'[b].user \in {req'[b].user, None}
               /\ req'[b].work.hash = sess'[b].hash
      <3>1. ASSUME NEW u \in Users, NEW remember \in BOOLEAN, NEW owes \in BOOLEAN,
                   StartLogin(b, u, remember, owes)
            PROVE  req'[b].pc = "evict" /\ req'[b].work = sess[b]
                   /\ sess' = sess /\ sess[b].user = None
        BY <3>1, StartEffect
      <3>2. CASE EvictRows(b)
        <4>1. req[b].pc = "evict" /\ sess' = sess
          BY <3>2 DEF EvictRows
        <4>. QED
          BY <3>2, <4>1, EvictEffect DEF LoginStages
      <3>3. CASE CheckRow(b)
        BY <3>3, CheckEffect DEF CheckRow, LoginStages
      <3>4. CASE InsertRow(b)
        BY <3>4, InsertEffect DEF InsertRow, LoginStages
      <3>5. CASE SignIn(b) \/ AbortLogin(b)
        <4>1. req'[b] = Idle
          BY <3>5 DEF SignIn, AbortLogin, TypeInv, TypeOK
        <4>. QED
          BY <4>1 DEF Idle, LoginStages
      <3>6. CASE TurnAway(b) \/ ExpireSession(b)
                 \/ \E page \in Pages, code \in Codes : Bounce(b, page, code)
        <4>1. req' = req /\ req[b].pc = "idle"
          BY <3>6 DEF TurnAway, Bounce, ExpireSession, Asks
        <4>. QED
          BY <4>1 DEF LoginStages
      <3>7. ASSUME NEW page \in Pages, NEW code \in Codes, Serve(b, page, code)
            PROVE  /\ req'[b].pc = "act" /\ req'[b].user = Caller(b)
                   /\ req'[b].work.user = Caller(b) /\ req'[b].work.hash = sess[b].hash
                   /\ sess' = sess /\ sess[b].user \in {Caller(b), None}
        BY <3>7, ServeEffect, RecognisedParts DEF Caller
      <3>8. CASE ActPage(b) \/ ActAppInactive(b) \/ ActVerifyTwofa(b)
                 \/ ActEnableTwofactor(b) \/ ActDisableTwofactor(b) \/ ActLogout(b)
        <4>1. req'[b] = Idle
          BY <3>8 DEF ActPage, ActAppInactive, ActVerifyTwofa, ActEnableTwofactor,
                      ActDisableTwofactor, ActLogout, EndRequest, TypeInv, TypeOK
        <4>. QED
          BY <4>1 DEF Idle, LoginStages
      <3>9. CASE Login(b)
        BY <3>1, <3>2, <3>3, <3>4, <3>5, <3>9, LoginSteps DEF LoginStages
      <3>10. CASE Visit(b)
        BY <3>6, <3>7, <3>8, <3>10 DEF Visit, LoginStages
      <3>. QED
        BY <1>1, <3>6, <3>9, <3>10
    <2>. QED
      BY <2>1, <2>2 DEF SameRequest
  <1>2. ASSUME NEW u \in Users, UpdateStatus(u) PROVE RequestConsistent'
    BY <1>2 DEF UpdateStatus
  <1>3. CASE UNCHANGED vars
    BY <1>3 DEF vars
  <1>. QED
    BY <1>1, <1>2, <1>3 DEF Next

------------------------------------------------------------------------------
\* A browser that owes a code owes it in the session the request works on too,
\* and a login that found 2FA on has asked for a code once it is past the delete.
CodeKept ==
  \A b \in Browsers :
    /\ b \in owing => sess[b].pending /\ (req[b].pc # "idle" => req[b].work.pending)
    /\ req[b].pc \in {"check", "insert", "signin"} /\ req[b].twoFa => req[b].work.pending

LEMMA CodeInit == Init => CodeKept
  BY DEF Init, CodeKept, Idle

LEMMA CodeNext == TypeInv /\ CodeKept /\ [Next]_vars => CodeKept'
  <1>. SUFFICES ASSUME TypeInv, CodeKept, [Next]_vars PROVE CodeKept'
    OBVIOUS
  <1>. USE DEF CodeKept
  <1>1. ASSUME NEW b \in Browsers, Login(b) \/ Visit(b) \/ ExpireSession(b)
        PROVE  CodeKept'
    <2>1. ASSUME NEW c \in Browsers, c # b
          PROVE  SameRequest(c) /\ sess'[c] = sess[c] /\ (c \in owing' <=> c \in owing)
      BY <1>1, <2>1, OtherBrowser
    <2>2. /\ b \in owing' => sess'[b].pending /\ (req'[b].pc # "idle" => req'[b].work.pending)
          /\ req'[b].pc \in {"check", "insert", "signin"} /\ req'[b].twoFa
               => req'[b].work.pending
      <3>1. ASSUME NEW u \in Users, NEW remember \in BOOLEAN, NEW owes \in BOOLEAN,
                   StartLogin(b, u, remember, owes)
            PROVE  req'[b].pc = "evict" /\ req'[b].work = sess[b] /\ sess' = sess
                   /\ owing' = owing
        BY <3>1, StartEffect
      <3>2. CASE EvictRows(b)
        <4>1. req[b].pc = "evict" /\ sess' = sess /\ owing' = owing
          BY <3>2 DEF EvictRows
        <4>. QED
          BY <3>2, <4>1, EvictEffect
      <3>3. CASE CheckRow(b)
        BY <3>3, CheckEffect DEF CheckRow
      <3>4. CASE InsertRow(b)
        BY <3>4, InsertEffect DEF InsertRow
      <3>5. CASE SignIn(b)
        <4>. DEFINE session == [req[b].work EXCEPT !.user = req[b].user]
        <4>1. /\ sess'[b] = session /\ req'[b] = Idle
              /\ b \in owing' => req[b].twoFa /\ req[b].pc = "signin"
          BY <3>5 DEF SignIn, TypeInv, TypeOK
        <4>2. session.pending = req[b].work.pending
          BY DEF TypeInv, TypeOK, Request, Session
        <4>. QED
          BY <4>1, <4>2 DEF Idle
      <3>6. CASE AbortLogin(b)
        <4>1. /\ sess'[b] \in {sess[b], req[b].work} /\ req'[b] = Idle /\ owing' = owing
              /\ req[b].pc # "idle"
          BY <3>6 DEF AbortLogin, LoginStages, TypeInv, TypeOK
        <4>. QED
          BY <4>1 DEF Idle
      <3>7. CASE TurnAway(b) \/ ExpireSession(b)
        <4>1. req' = req /\ req[b].pc = "idle" /\ b \notin owing'
          BY <3>7 DEF TurnAway, ExpireSession, Asks, SignOut
        <4>. QED
          BY <4>1
      <3>8. ASSUME NEW page \in Pages, NEW code \in Codes, Bounce(b, page, code)
            PROVE  req' = req /\ req[b].pc = "idle" /\ owing' = owing
                   /\ sess'[b] = Recognised(b)
        BY <3>8 DEF Bounce, Asks, TypeInv, TypeOK
      <3>9. ASSUME NEW page \in Pages, NEW code \in Codes, Serve(b, page, code)
            PROVE  req'[b].pc = "act" /\ req'[b].work = Recognised(b)
                   /\ sess' = sess /\ owing' = owing
        BY <3>9, ServeEffect
      <3>10. CASE ActPage(b) \/ ActEnableTwofactor(b) \/ ActDisableTwofactor(b)
        <4>1. /\ sess'[b] = req[b].work /\ req'[b] = Idle /\ owing' = owing
              /\ req[b].pc = "act"
          BY <3>10 DEF ActPage, ActEnableTwofactor, ActDisableTwofactor, Acts, Stay,
                       EndRequest, TypeInv, TypeOK
        <4>. QED
          BY <4>1 DEF Idle
      <3>11. CASE ActAppInactive(b) \/ ActVerifyTwofa(b) \/ ActLogout(b)
        <4>1. req'[b] = Idle /\ b \notin owing'
          BY <3>11 DEF ActAppInactive, ActVerifyTwofa, ActLogout, SignOut, EndRequest,
                       TypeInv, TypeOK
        <4>. QED
          BY <4>1 DEF Idle
      <3>12. CASE Login(b)
        BY <3>1, <3>2, <3>3, <3>4, <3>5, <3>6, <3>12, LoginSteps
      <3>13. CASE Visit(b)
        BY <3>7, <3>8, <3>9, <3>10, <3>11, <3>13, RecognisedParts DEF Visit
      <3>. QED
        BY <1>1, <3>7, <3>12, <3>13
    <2>. QED
      BY <2>1, <2>2 DEF SameRequest
  <1>2. ASSUME NEW u \in Users, UpdateStatus(u) PROVE CodeKept'
    BY <1>2 DEF UpdateStatus
  <1>3. CASE UNCHANGED vars
    BY <1>3 DEF vars
  <1>. QED
    BY <1>1, <1>2, <1>3 DEF Next

\* CodeStaysOwed: no interleaving of logins, pages and changes of the 2FA
\* setting lets a session that owes a code go on without one.
THEOREM CodeOwed == Spec => []CodeStaysOwed
  <1>1. TypeInv /\ CodeKept => CodeStaysOwed
    BY DEF TypeInv, TypeOK, CodeKept, CodeStaysOwed
  <1>. QED
    BY <1>1, TypeInvariant, CodeInit, CodeNext, PTL DEF Spec

------------------------------------------------------------------------------
\* How the rows and the logins between delete and insert evolve.

LEMMA RowsType ==
  ASSUME TypeInv, NEW u \in Users
  PROVE  /\ rows[u] \in Seq(Hashes)
         /\ rows[u] # <<>> => Head(rows[u]) \in Hashes
         /\ Slot(u) # None <=> rows[u] # <<>>
  <1>1. rows[u] \in Seq(Hashes)
    BY DEF TypeInv, TypeOK
  <1>2. rows[u] # <<>> => Head(rows[u]) \in Hashes
    BY <1>1
  <1>. QED
    BY <1>1, <1>2, ConstantsOK DEF Slot

\* Only a delete, a look and an insert of a user's own login touch its rows or
\* move a browser in or out of Claiming; the solo mark is lost to any delete.
LEMMA ClaimEffect ==
  ASSUME TypeInv, NEW b \in Browsers, Login(b) \/ Visit(b) \/ ExpireSession(b),
         NEW u \in Users
  PROVE  /\ \A c \in Browsers \ {b} : c \in Claiming(u)' <=> c \in Claiming(u)
         /\ \A c \in Browsers \ {b} :
              /\ req'[c].solo => req[c].solo
              /\ req'[c].solo /\ EvictRows(b) => req[c].user # req[b].user
         /\ rows'[u] # rows[u] => u = req[b].user /\ (EvictRows(b) \/ InsertRow(b))
  <1>1. ASSUME NEW c \in Browsers, c # b
        PROVE  /\ c \in Claiming(u)' <=> c \in Claiming(u)
               /\ req'[c].solo => req[c].solo
               /\ req'[c].solo /\ EvictRows(b) => req[c].user # req[b].user
    <2>1. c \in Claiming(u)' <=> c \in Claiming(u)
      BY <1>1, OtherBrowser DEF Claiming, SameRequest
    <2>2. CASE EvictRows(b)
      <3>. DEFINE solo == req[c].solo /\ req[c].user # req[b].user
      <3>1. req'[c] = [req[c] EXCEPT !.solo = solo]
        BY <1>1, <2>2 DEF EvictRows
      <3>2. req[c] \in Request
        BY DEF TypeInv, TypeOK
      <3>3. req'[c].solo = solo
        <4>. HIDE DEF solo
        <4>. QED BY <3>1, <3>2 DEF Request
      <3>. QED
        BY <2>1, <3>3
    <2>3. CASE ~EvictRows(b)
      <3>1. req'[c] = req[c]
        BY <1>1, <2>3 DEF TypeInv, TypeOK,
           Login, BeginLogin, BeginMasterLogin, StartLogin, CheckRow, InsertRow, SignIn,
           AbortLogin, Visit, TurnAway, Bounce, Serve, ActPage, ActAppInactive,
           ActVerifyTwofa, ActEnableTwofactor, ActDisableTwofactor, ActLogout,
           EndRequest, ExpireSession
      <3>. QED
        BY <2>1, <2>3, <3>1
    <2>. QED
      BY <2>2, <2>3
  <1>2. rows'[u] # rows[u] => u = req[b].user /\ (EvictRows(b) \/ InsertRow(b))
    <2>1. CASE EvictRows(b) \/ InsertRow(b)
      BY <2>1 DEF EvictRows, InsertRow, TypeInv, TypeOK
    <2>2. CASE ~(EvictRows(b) \/ InsertRow(b))
      BY <2>2 DEF Login, BeginLogin, BeginMasterLogin, StartLogin, CheckRow, SignIn,
         AbortLogin, Visit, TurnAway, Bounce, Serve, ActPage, ActAppInactive,
         ActVerifyTwofa, ActEnableTwofactor, ActDisableTwofactor, ActLogout, ExpireSession
    <2>. QED
      BY <2>1, <2>2
  <1>. QED
    BY <1>1, <1>2

\* A solo login of a member is alone between delete and insert, finds no row,
\* and then owns the oldest one.
SoloKept ==
  \A b \in Browsers :
    LET u == req[b].user IN
    req[b].solo /\ u \in Members =>
      /\ req[b].pc \in {"check", "insert"} => rows[u] = <<>> /\ Claiming(u) = {b}
      /\ req[b].pc = "signin" =>
           /\ req[b].work.hash = Hash(u, b)
           /\ rows[u] # <<>> /\ Head(rows[u]) = Hash(u, b)

LEMMA SoloInit == Init => SoloKept
  BY DEF Init, SoloKept, Idle

LEMMA SoloNext == TypeInv /\ SoloKept /\ [Next]_vars => SoloKept'
  <1>. SUFFICES ASSUME TypeInv, SoloKept, [Next]_vars PROVE SoloKept'
    OBVIOUS
  <1>1. ASSUME NEW b \in Browsers, Login(b) \/ Visit(b) \/ ExpireSession(b)
        PROVE  SoloKept'
    <2>. SUFFICES ASSUME NEW c \in Browsers, NEW u \in Members,
                         req'[c].solo, req'[c].user = u
                  PROVE  /\ req'[c].pc \in {"check", "insert"} =>
                              rows'[u] = <<>> /\ Claiming(u)' = {c}
                         /\ req'[c].pc = "signin" =>
                              /\ req'[c].work.hash = Hash(u, c)
                              /\ rows'[u] # <<>> /\ Head(rows'[u]) = Hash(u, c)
      BY DEF SoloKept, Hash, Claiming
    <2>0. u \in Users
      BY DEF Users
    <2>1. CASE c # b
      <3>1. SameRequest(c) /\ req[c].solo /\ (EvictRows(b) => u # req[b].user)
        BY <1>1, <2>0, <2>1, OtherBrowser, ClaimEffect DEF SameRequest
      <3>2. CASE req[c].pc \in {"check", "insert"}
        <4>1. rows[u] = <<>> /\ Claiming(u) = {c}
          BY <3>1, <3>2 DEF SoloKept, SameRequest
        <4>2. ~(InsertRow(b) /\ req[b].user = u)
          BY <2>1, <4>1 DEF InsertRow, Claiming
        <4>3. rows'[u] = <<>>
          BY <1>1, <2>0, <3>1, <4>1, <4>2, ClaimEffect
        <4>4. b \notin Claiming(u)'
          <5>1. SUFFICES ASSUME b \in Claiming(u)' PROVE FALSE
            OBVIOUS
          <5>2. req'[b].pc \in {"check", "insert"} /\ req'[b].user = u /\ b \notin Claiming(u)
            BY <2>1, <4>1, <5>1 DEF Claiming
          <5>3. EvictRows(b) \/ CheckRow(b)
            BY <1>1, <5>2, LoginSteps, StartEffect, InsertEffect, EntersNoClaim
          <5>4. req'[b].user = req[b].user
            BY <5>3, EvictEffect, CheckEffect
          <5>5. CheckRow(b)
            BY <3>1, <5>2, <5>3, <5>4
          <5>. QED
            BY <5>2, <5>4, <5>5 DEF CheckRow, Claiming
        <4>5. Claiming(u)' = {c}
          <5>1. \A d \in Browsers \ {b} : d \in Claiming(u)' <=> d \in Claiming(u)
            BY <1>1, <2>0, ClaimEffect
          <5>2. Claiming(u)' \subseteq Browsers
            BY DEF Claiming
          <5>. QED
            BY <2>1, <4>1, <4>4, <5>1, <5>2
        <4>. QED
          BY <3>1, <3>2, <4>3, <4>5 DEF SameRequest
      <3>3. CASE req[c].pc = "signin"
        <4>1. /\ req[c].work.hash = Hash(u, c)
              /\ rows[u] # <<>> /\ Head(rows[u]) = Hash(u, c)
          BY <3>1, <3>3 DEF SoloKept, SameRequest
        <4>2. rows'[u] = rows[u] \/ \E h \in Hashes : rows'[u] = Append(rows[u], h)
          <5>1. CASE InsertRow(b) /\ req[b].user = u
            <6>1. rows'[u] = Append(rows[u], Hash(u, b))
              BY <2>0, <5>1 DEF InsertRow, TypeInv, TypeOK
            <6>. QED
              BY <2>0, <6>1, HashType
          <5>2. CASE ~(InsertRow(b) /\ req[b].user = u)
            BY <1>1, <2>0, <3>1, <5>2, ClaimEffect
          <5>. QED
            BY <5>1, <5>2
        <4>3. rows'[u] # <<>> /\ Head(rows'[u]) = Head(rows[u])
          BY <2>0, <4>1, <4>2, RowsType
        <4>. QED
          BY <3>1, <3>3, <4>1, <4>3 DEF SameRequest
      <3>. QED
        BY <3>1, <3>2, <3>3 DEF SameRequest
    <2>2. CASE c = b
      <3>1. CASE EvictRows(b)
        <4>1. Claiming(u) = {} /\ req[b].user = u /\ req'[b].pc = "check"
          BY <2>2, <3>1, EvictEffect
        <4>2. rows'[u] = <<>>
          BY <2>0, <3>1, <4>1 DEF EvictRows, TypeInv, TypeOK
        <4>3. Claiming(u)' = {b}
          <5>1. \A d \in Browsers \ {b} : d \notin Claiming(u)'
            BY <1>1, <2>0, <4>1, ClaimEffect
          <5>2. b \in Claiming(u)'
            BY <2>2, <4>1 DEF Claiming
          <5>3. Claiming(u)' \subseteq Browsers
            BY DEF Claiming
          <5>. QED
            BY <5>1, <5>2, <5>3
        <4>. QED
          BY <2>2, <4>1, <4>2, <4>3
      <3>2. CASE CheckRow(b)
        <4>1. /\ req[b].user = u /\ req[b].solo /\ req[b].pc = "check"
              /\ rows' = rows
              /\ req'[b].pc = IF rows[u] = <<>> THEN "insert" ELSE "signin"
          <5>1. req[b].pc = "check" /\ rows' = rows
            BY <3>2 DEF CheckRow
          <5>. QED
            BY <2>2, <3>2, <5>1, CheckEffect
        <4>2. rows[u] = <<>> /\ Claiming(u) = {b}
          BY <4>1 DEF SoloKept
        <4>3. Claiming(u)' = {b}
          <5>1. \A d \in Browsers \ {b} : d \notin Claiming(u)'
            BY <1>1, <2>0, <4>2, ClaimEffect
          <5>2. b \in Claiming(u)'
            BY <2>2, <4>1, <4>2 DEF Claiming
          <5>3. Claiming(u)' \subseteq Browsers
            BY DEF Claiming
          <5>. QED
            BY <5>1, <5>2, <5>3
        <4>. QED
          BY <2>2, <4>1, <4>2, <4>3
      <3>3. CASE InsertRow(b)
        <4>1. req[b].user = u /\ req[b].solo /\ req[b].pc = "insert" /\ req'[b].pc = "signin"
              /\ req'[b].work.hash = Hash(u, b)
          BY <2>2, <3>3, InsertEffect DEF InsertRow
        <4>2. rows[u] = <<>>
          BY <4>1 DEF SoloKept
        <4>3. rows'[u] = Append(<<>>, Hash(u, b))
          BY <2>0, <3>3, <4>1, <4>2 DEF InsertRow, TypeInv, TypeOK
        <4>. QED
          BY <2>0, <2>2, <4>1, <4>3, HashType
      <3>4. CASE ~(EvictRows(b) \/ CheckRow(b) \/ InsertRow(b))
        BY <1>1, <2>2, <3>4, LoginSteps, StartEffect, EntersNoClaim
      <3>. QED
        BY <3>1, <3>2, <3>3, <3>4
    <2>. QED
      BY <2>1, <2>2
  <1>2. ASSUME NEW u \in Users, UpdateStatus(u) PROVE SoloKept'
    BY <1>2 DEF UpdateStatus, SoloKept, Claiming
  <1>3. CASE UNCHANGED vars
    BY <1>3 DEF vars, SoloKept, Claiming
  <1>. QED
    BY <1>1, <1>2, <1>3 DEF Next

\* SoloLoginHolds: a login that no other login of the member overlaps takes the
\* device slot, for any number of browsers and of other logins.
THEOREM SoloLogin == Spec => []SoloLoginHolds
  <1>1. TypeInv /\ SoloKept => SoloLoginHolds
    <2>. SUFFICES ASSUME TypeInv, SoloKept, NEW b \in Browsers, req[b].pc = "signin",
                         req[b].solo, req[b].user \in Members
                  PROVE  LET u == req[b].user IN
                           req[b].work.hash = Hash(u, b) /\ SessionValid(u, req[b].work.hash)
      BY DEF SoloLoginHolds
    <2>1. req[b].user \in Users
      BY DEF Users
    <2>. QED
      BY <2>1, RowsType, HashType, ConstantsOK DEF SoloKept, SessionValid, Slot
  <1>. QED
    BY <1>1, TypeInvariant, SoloInit, SoloNext, PTL DEF Spec

------------------------------------------------------------------------------
Serves(b) == \E page \in Pages, code \in Codes : Serve(b, page, code)

\* Only serving a page enters "act", and it never enters "signin".
LEMMA EntersNoAct ==
  ASSUME TypeInv, NEW b \in Browsers, ~Serves(b),
         SignIn(b) \/ AbortLogin(b) \/ Visit(b) \/ ExpireSession(b)
  PROVE  req'[b].pc \notin {"signin", "act"}
  <1>1. CASE TurnAway(b) \/ ExpireSession(b)
             \/ \E page \in Pages, code \in Codes : Bounce(b, page, code)
    BY <1>1 DEF TurnAway, Bounce, ExpireSession, Asks
  <1>2. CASE SignIn(b) \/ AbortLogin(b) \/ ActPage(b) \/ ActAppInactive(b)
             \/ ActVerifyTwofa(b) \/ ActEnableTwofactor(b) \/ ActDisableTwofactor(b)
             \/ ActLogout(b)
    <2>1. req'[b] = Idle
      BY <1>2 DEF SignIn, AbortLogin, ActPage, ActAppInactive, ActVerifyTwofa,
         ActEnableTwofactor, ActDisableTwofactor, ActLogout, EndRequest, TypeInv, TypeOK
    <2>. QED
      BY <2>1 DEF Idle
  <1>. QED
    BY <1>1, <1>2 DEF Visit, Serves

\* A login between delete and insert can only look, insert or die.
LEMMA StaysClaiming ==
  ASSUME NEW b \in Browsers, req[b].pc \in {"check", "insert"},
         Login(b) \/ Visit(b) \/ ExpireSession(b)
  PROVE  CheckRow(b) \/ InsertRow(b) \/ AbortLogin(b)
  BY DEF Login, BeginLogin, BeginMasterLogin, StartLogin, EvictRows, SignIn, Visit, TurnAway,
     Bounce, Serve, Asks, ActPage, ActAppInactive, ActVerifyTwofa, ActEnableTwofactor,
     ActDisableTwofactor, ActLogout, Acts, ExpireSession

\* The user of a session is the one it had, the one being signed in or served,
\* or one whose ticket was found valid.
LEMMA SessionEffect ==
  ASSUME TypeInv, RequestConsistent, NEW b \in Browsers,
         Login(b) \/ Visit(b) \/ ExpireSession(b),
         NEW u \in Users, sess'[b].user = u
  PROVE  Attached(u) \/ SessionValid(u, sess[b].hash)
  <1>. USE DEF TypeInv, TypeOK
  <1>1. u # None
    BY ConstantsOK
  <1>2. CASE sess'[b] = sess[b]
    BY <1>2 DEF Attached
  <1>3. CASE SignIn(b)
    <2>1. sess'[b] = [req[b].work EXCEPT !.user = req[b].user] /\ req[b].pc = "signin"
      BY <1>3 DEF SignIn
    <2>2. sess'[b].user = req[b].user
      BY <2>1 DEF Request, Session
    <2>. QED
      BY <2>1, <2>2 DEF Attached
  <1>4. CASE AbortLogin(b)
    <2>1. sess'[b] \in {sess[b], req[b].work} /\ req[b].work.user = None
      BY <1>4 DEF AbortLogin, RequestConsistent
    <2>. QED
      BY <1>1, <1>2, <2>1
  <1>5. CASE TurnAway(b) \/ ExpireSession(b) \/ ActAppInactive(b) \/ ActLogout(b)
    <2>1. sess'[b] = Fresh
      BY <1>5 DEF TurnAway, ExpireSession, ActAppInactive, ActLogout, SignOut
    <2>. QED
      BY <1>1, <2>1 DEF Fresh
  <1>6. ASSUME NEW page \in Pages, NEW code \in Codes, Bounce(b, page, code)
        PROVE  Attached(u) \/ SessionValid(u, sess[b].hash)
    <2>1. sess'[b] = Recognised(b) /\ SessionValid(Caller(b), sess[b].hash)
      BY <1>6 DEF Bounce
    <2>. QED
      BY <2>1, RecognisedParts
  <1>7. CASE ActPage(b) \/ ActVerifyTwofa(b) \/ ActEnableTwofactor(b) \/ ActDisableTwofactor(b)
    <2>1. /\ sess'[b] \in {req[b].work, [req[b].work EXCEPT !.pending = FALSE]}
          /\ req[b].pc = "act"
      BY <1>7 DEF ActPage, ActVerifyTwofa, ActEnableTwofactor, ActDisableTwofactor, Acts, Stay
    <2>2. [req[b].work EXCEPT !.pending = FALSE].user = req[b].work.user
      BY DEF Request, Session
    <2>. QED
      BY <2>1, <2>2 DEF RequestConsistent, Attached
  <1>8. CASE Login(b)
    <2>1. ASSUME NEW v \in Users, NEW remember \in BOOLEAN, NEW owes \in BOOLEAN,
                 StartLogin(b, v, remember, owes)
          PROVE  sess'[b] = sess[b]
      BY <2>1 DEF StartLogin
    <2>2. CASE EvictRows(b) \/ CheckRow(b) \/ InsertRow(b)
      BY <1>2, <2>2 DEF EvictRows, CheckRow, InsertRow
    <2>. QED
      BY <1>2, <1>3, <1>4, <1>8, <2>1, <2>2, LoginSteps
  <1>9. CASE Visit(b)
    <2>1. ASSUME NEW page \in Pages, NEW code \in Codes, Serve(b, page, code)
          PROVE  sess'[b] = sess[b]
      BY <2>1 DEF Serve
    <2>. QED
      BY <1>2, <1>5, <1>6, <1>7, <1>9, <2>1 DEF Visit
  <1>. QED
    BY <1>5, <1>8, <1>9

LEMMA SlotInit == Init => SlotKept
  BY ConstantsOK DEF Init, SlotKept, Attached, Idle, Fresh, Users

LEMMA SlotNext ==
  TypeInv /\ RequestConsistent /\ SlotKept /\ [Next]_vars => SlotKept'
  <1>. SUFFICES ASSUME TypeInv, RequestConsistent, SlotKept, [Next]_vars PROVE SlotKept'
    OBVIOUS
  <1>1. ASSUME NEW b \in Browsers, Login(b) \/ Visit(b) \/ ExpireSession(b)
        PROVE  SlotKept'
    <2>. SUFFICES ASSUME NEW u \in Members, u \notin orphaned', Attached(u)'
                  PROVE  Slot(u)' # None \/ Claiming(u)' # {}
      BY DEF SlotKept
    <2>0. u \in Users /\ u # None
      BY ConstantsOK DEF Users
    <2>1. \A c \in Browsers \ {b} : c \in Claiming(u)' <=> c \in Claiming(u)
      BY <1>1, <2>0, ClaimEffect
    <2>2. rows'[u] # <<>> => Slot(u)' # None
      <3>1. rows' \in [Users -> Seq(Hashes)]
        BY TypeNext DEF TypeInv, TypeOK
      <3>2. rows'[u] # <<>> => Head(rows'[u]) \in Hashes
        BY <2>0, <3>1
      <3>. QED
        BY <3>2, ConstantsOK DEF Slot
    <2>3. CASE EvictRows(b) /\ req[b].user = u
      <3>1. b \in Claiming(u)'
        BY <2>3, EvictEffect DEF Claiming
      <3>. QED
        BY <3>1
    <2>4. CASE InsertRow(b) /\ req[b].user = u
      <3>1. rows'[u] = Append(rows[u], Hash(u, b)) /\ rows[u] \in Seq(Hashes)
        BY <2>0, <2>4 DEF InsertRow, TypeInv, TypeOK
      <3>. QED
        BY <2>0, <2>2, <3>1, HashType
    <2>5. CASE AbortLogin(b) /\ b \in Claiming(u)
      BY <2>5 DEF AbortLogin, Claiming
    <2>6. CASE /\ ~(EvictRows(b) /\ req[b].user = u)
               /\ ~(InsertRow(b) /\ req[b].user = u)
               /\ ~(AbortLogin(b) /\ b \in Claiming(u))
      <3>1. rows'[u] = rows[u]
        BY <1>1, <2>0, <2>6, ClaimEffect
      <3>2. u \notin orphaned
        BY <1>1, <2>0, <2>6 DEF
           Login, BeginLogin, BeginMasterLogin, StartLogin, EvictRows, CheckRow, InsertRow, SignIn,
           AbortLogin, Visit, TurnAway, Bounce, Serve, ActPage, ActAppInactive,
           ActVerifyTwofa, ActEnableTwofactor, ActDisableTwofactor, ActLogout, ExpireSession
      <3>3. Attached(u) \/ rows[u] # <<>>
        <4>1. SUFFICES ASSUME ~Attached(u), rows[u] = <<>> PROVE FALSE
          OBVIOUS
        <4>2. PICK c \in Browsers :
                \/ sess'[c].user = u
                \/ req'[c].user = u /\ req'[c].pc \in {"signin", "act"}
          BY DEF Attached
        <4>3. c = b
          BY <1>1, <4>1, <4>2, OtherBrowser DEF Attached, SameRequest
        <4>4. ~SessionValid(u, sess[b].hash)
          BY <2>0, <4>1, ConstantsOK DEF SessionValid, Slot
        <4>5. sess'[b].user # u
          BY <1>1, <2>0, <4>1, <4>4, SessionEffect
        <4>6. req'[b].user = u /\ req'[b].pc \in {"signin", "act"}
          BY <4>2, <4>3, <4>5
        <4>7. ~Serves(b)
          BY <4>4, <4>6, ServeEffect DEF Serves
        <4>8. CheckRow(b) \/ InsertRow(b)
          <5>1. CASE Login(b)
            BY <4>6, <4>7, <5>1, LoginSteps, StartEffect, EvictEffect, EntersNoAct
          <5>2. CASE Visit(b) \/ ExpireSession(b)
            BY <4>6, <4>7, <5>2, EntersNoAct
          <5>. QED
            BY <1>1, <5>1, <5>2
        <4>. QED
          BY <2>6, <4>1, <4>6, <4>8, CheckEffect, InsertEffect
      <3>4. Slot(u) # None \/ Claiming(u) # {}
        BY <2>0, <3>2, <3>3, RowsType DEF SlotKept
      <3>5. CASE rows[u] # <<>>
        BY <2>2, <3>1, <3>5
      <3>6. CASE rows[u] = <<>>
        <4>1. PICK c \in Claiming(u) : TRUE
          BY <2>0, <3>4, <3>6, RowsType
        <4>2. CASE c # b
          BY <2>1, <4>1, <4>2 DEF Claiming
        <4>3. CASE c = b
          <5>1. req[b].user = u /\ req[b].pc \in {"check", "insert"}
            BY <4>1, <4>3 DEF Claiming
          <5>2. CheckRow(b)
            BY <1>1, <2>6, <4>1, <4>3, <5>1, StaysClaiming
          <5>3. b \in Claiming(u)'
            BY <3>6, <5>1, <5>2, CheckEffect DEF Claiming
          <5>. QED
            BY <5>3
        <4>. QED
          BY <4>2, <4>3
      <3>. QED
        BY <3>5, <3>6
    <2>. QED
      BY <2>3, <2>4, <2>5, <2>6
  <1>2. ASSUME NEW u \in Users, UpdateStatus(u) PROVE SlotKept'
    BY <1>2 DEF UpdateStatus, SlotKept, Claiming, Attached, Slot
  <1>3. CASE UNCHANGED vars
    BY <1>3 DEF vars, SlotKept, Claiming, Attached, Slot
  <1>. QED
    BY <1>1, <1>2, <1>3 DEF Next

\* SlotKept: no interleaving of logins leaves a member signed in with the
\* device slot empty, unless one of them died before its insert.
THEOREM SlotNotLost == Spec => []SlotKept
  <1>1. Init => TypeInv /\ RequestConsistent /\ SlotKept
    BY TypeInit, ConsistentInit, SlotInit
  <1>2. TypeInv /\ RequestConsistent /\ SlotKept /\ [Next]_vars
          => (TypeInv /\ RequestConsistent /\ SlotKept)'
    BY TypeNext, ConsistentNext, SlotNext
  <1>. QED
    BY <1>1, <1>2, PTL DEF Spec

------------------------------------------------------------------------------
\* The state of SingleDevice seen through this module's.
SlotMap == [u \in Users |-> Slot(u)]
SignedMap == [b \in Browsers |-> sess[b].user]
TicketMap == [b \in Browsers |-> sess[b].hash]
ServingMap == [b \in Browsers |-> req[b].pc = "act"]
SDVars == <<SlotMap, SignedMap, TicketMap, ServingMap>>
SameMap == UNCHANGED SDVars

LEMMA MapStep ==
  ASSUME TypeInv, NEW b \in Browsers, Login(b) \/ Visit(b) \/ ExpireSession(b)
  PROVE  /\ SignedMap' = [SignedMap EXCEPT ![b] = sess'[b].user]
         /\ TicketMap' = [TicketMap EXCEPT ![b] = sess'[b].hash]
         /\ ServingMap' = [ServingMap EXCEPT ![b] = (req'[b].pc = "act")]
         /\ rows' = rows => SlotMap' = SlotMap
  <1>1. \A c \in Browsers : c # b => SameRequest(c) /\ sess'[c] = sess[c]
    BY OtherBrowser
  <1>2. SignedMap' = [SignedMap EXCEPT ![b] = sess'[b].user]
    BY <1>1 DEF SignedMap
  <1>3. TicketMap' = [TicketMap EXCEPT ![b] = sess'[b].hash]
    BY <1>1 DEF TicketMap
  <1>4. ServingMap' = [ServingMap EXCEPT ![b] = (req'[b].pc = "act")]
    <2>1. \A c \in Browsers : c # b => (req'[c].pc = "act" <=> req[c].pc = "act")
      BY <1>1 DEF SameRequest
    <2>. QED
      BY <2>1, Zenon DEF ServingMap
  <1>5. rows' = rows => SlotMap' = SlotMap
    BY DEF SlotMap, Slot
  <1>. QED
    BY <1>2, <1>3, <1>4, <1>5

\* The first row of a user gives its slot a holder.
LEMMA SlotTaken ==
  ASSUME NEW u \in Users, NEW h, rows'[u] # <<>>, Head(rows'[u]) = h,
         \A v \in Users : v # u => rows'[v] = rows[v]
  PROVE  SlotMap' = [SlotMap EXCEPT ![u] = h]
  <1>1. Slot(u)' = h
    BY DEF Slot
  <1>2. \A v \in Users : v # u => Slot(v)' = Slot(v)
    BY DEF Slot
  <1>. QED
    BY <1>1, <1>2 DEF SlotMap

LEMMA ServingParts ==
  ASSUME TypeInv, NEW b \in Browsers, Login(b) \/ Visit(b) \/ ExpireSession(b)
  PROVE  /\ ServingMap[b] <=> req[b].pc = "act"
         /\ req'[b].pc # "act" => ServingMap' = [ServingMap EXCEPT ![b] = FALSE]
         /\ req'[b].pc # "act" /\ req[b].pc # "act" => ServingMap' = ServingMap
  <1>1. ServingMap[b] <=> req[b].pc = "act"
    BY DEF ServingMap
  <1>2. ASSUME req'[b].pc # "act" PROVE ServingMap' = [ServingMap EXCEPT ![b] = FALSE]
    <2>1. (req'[b].pc = "act") = FALSE
      BY <1>2
    <2>2. ServingMap' = [ServingMap EXCEPT ![b] = (req'[b].pc = "act")]
      BY MapStep
    <2>. QED
      BY <2>1, <2>2, Zenon
  <1>3. ASSUME req'[b].pc # "act", req[b].pc # "act" PROVE ServingMap' = ServingMap
    BY <1>3, MapStep DEF ServingMap
  <1>. QED
    BY <1>1, <1>2, <1>3

LEMMA KeepsSession ==
  ASSUME TypeInv, NEW b \in Browsers, Login(b) \/ Visit(b) \/ ExpireSession(b),
         sess' = sess, req[b].pc # "act", req'[b].pc # "act"
  PROVE  UNCHANGED <<SignedMap, TicketMap, ServingMap>>
  <1>1. UNCHANGED <<SignedMap, TicketMap>>
    BY DEF SignedMap, TicketMap
  <1>2. ServingMap' = ServingMap
    BY MapStep DEF ServingMap
  <1>. QED
    BY <1>1, <1>2

LEMMA KeepsMap ==
  ASSUME TypeInv, NEW b \in Browsers, Login(b) \/ Visit(b) \/ ExpireSession(b),
         rows' = rows, sess' = sess, req[b].pc # "act", req'[b].pc # "act"
  PROVE  SameMap
  BY KeepsSession, MapStep DEF SameMap, SDVars

\* The actions of SingleDevice, on the mapped state.
Vacates(u) ==
  /\ SlotMap' = [SlotMap EXCEPT ![u] = None]
  /\ UNCHANGED <<SignedMap, TicketMap, ServingMap>>
Claims(u, t) ==
  /\ SlotMap[u] = None
  /\ SlotMap' = [SlotMap EXCEPT ![u] = t]
  /\ UNCHANGED <<SignedMap, TicketMap, ServingMap>>
Enters(b, u, t) ==
  /\ ~ServingMap[b]
  /\ SignedMap[b] = None
  /\ SignedMap' = [SignedMap EXCEPT ![b] = u]
  /\ TicketMap' = [TicketMap EXCEPT ![b] = t]
  /\ UNCHANGED <<SlotMap, ServingMap>>
Admits(b, u) ==
  /\ ~ServingMap[b]
  /\ SignedMap[b] \in {u, None}
  /\ u \in Members => SlotMap[u] # None /\ SlotMap[u] = TicketMap[b]
  /\ ServingMap' = [ServingMap EXCEPT ![b] = TRUE]
  /\ UNCHANGED <<SlotMap, SignedMap, TicketMap>>
Leaves(b) ==
  /\ ServingMap' = [ServingMap EXCEPT ![b] = FALSE]
  /\ SignedMap' = [SignedMap EXCEPT ![b] = None]
  /\ TicketMap' = [TicketMap EXCEPT ![b] = None]
  /\ SlotMap' = SlotMap
Remains(b, u) ==
  /\ ServingMap' = [ServingMap EXCEPT ![b] = FALSE]
  /\ ServingMap[b]
  /\ SignedMap[b] \in {u, None}
  /\ SignedMap' = [SignedMap EXCEPT ![b] = u]
  /\ TicketMap' = TicketMap
  /\ SlotMap' = SlotMap

LEMMA MapActions ==
  ASSUME NEW b \in Browsers, NEW u \in Users
  PROVE  /\ Vacates(u) => SD!Vacate(u)
         /\ \A t : Claims(u, t) => SD!Claim(u, t)
         /\ \A v \in Users \cup {None}, t \in Hashes \cup {None} : Enters(b, v, t) => SD!Enter(b)
         /\ Admits(b, u) => SD!Admit(b, u)
         /\ Leaves(b) \/ Remains(b, u) => SD!Finish(b)
  <1>. USE DEF SlotMap, SignedMap, TicketMap, ServingMap
  <1>1. Vacates(u) => SD!Vacate(u)
    BY DEF Vacates, SD!Vacate
  <1>2. ASSUME NEW t, Claims(u, t) PROVE SD!Claim(u, t)
    BY <1>2 DEF Claims, SD!Claim
  <1>3. ASSUME NEW v \in Users \cup {None}, NEW t \in Hashes \cup {None}, Enters(b, v, t)
        PROVE  SD!Enter(b)
    BY <1>3 DEF Enters, SD!Enter
  <1>4. Admits(b, u) => SD!Admit(b, u)
    BY DEF Admits, SD!Admit
  <1>5. Leaves(b) \/ Remains(b, u) => SD!Finish(b)
    BY DEF Leaves, Remains, SD!Finish
  <1>. QED
    BY <1>1, <1>2, <1>3, <1>4, <1>5

\* What a step of one browser is in SingleDevice.
MapsTo(b) ==
  \/ SameMap \/ Leaves(b)
  \/ \E u \in Users : Vacates(u) \/ Admits(b, u) \/ Remains(b, u) \/ \E t \in Hashes : Claims(u, t)
  \/ \E u \in Users \cup {None}, t \in Hashes \cup {None} : Enters(b, u, t)

LEMMA LoginMaps ==
  ASSUME TypeInv, RequestConsistent, NEW b \in Browsers, Login(b)
  PROVE  MapsTo(b)
  <1>. DEFINE u == req[b].user
  <1>1. ASSUME NEW v \in Users, NEW remember \in BOOLEAN, NEW owes \in BOOLEAN,
               StartLogin(b, v, remember, owes)
        PROVE  SameMap
    BY <1>1, StartEffect, MapStep, KeepsMap
  <1>2. CASE EvictRows(b)
    <2>1. req[b].pc = "evict" /\ u \in Users /\ sess' = sess
      BY <1>2 DEF EvictRows, TypeInv, RequestOwned
    <2>2. req'[b].pc # "act"
      BY <1>2, EvictEffect
    <2>3. UNCHANGED <<SignedMap, TicketMap, ServingMap>>
      BY <2>1, <2>2, MapStep, KeepsSession
    <2>4. CASE u \in Members
      <3>1. rows' = [rows EXCEPT ![u] = <<>>]
        BY <1>2, <2>4 DEF EvictRows
      <3>2. SlotMap' = [SlotMap EXCEPT ![u] = None]
        BY <2>1, <3>1 DEF SlotMap, Slot, TypeInv, TypeOK
      <3>. QED
        BY <2>1, <2>3, <3>2 DEF MapsTo, Vacates
    <2>5. CASE u \notin Members
      BY <1>2, <2>3, <2>5, MapStep DEF EvictRows, MapsTo, SameMap, SDVars
    <2>. QED
      BY <2>4, <2>5
  <1>3. CASE CheckRow(b)
    <2>1. req[b].pc = "check" /\ rows' = rows /\ sess' = sess
      BY <1>3 DEF CheckRow
    <2>2. req'[b].pc # "act"
      BY <1>3, CheckEffect
    <2>. QED
      BY <2>1, <2>2, MapStep, KeepsMap DEF MapsTo
  <1>4. CASE InsertRow(b)
    <2>1. req[b].pc = "insert" /\ u \in Users /\ sess' = sess
          /\ rows' = [rows EXCEPT ![u] = Append(@, Hash(u, b))]
      BY <1>4 DEF InsertRow, TypeInv, RequestOwned
    <2>2. UNCHANGED <<SignedMap, TicketMap, ServingMap>>
      BY <1>4, <2>1, InsertEffect, MapStep, KeepsSession
    <2>3. rows[u] \in Seq(Hashes) /\ Hash(u, b) \in Hashes
      BY <2>1, HashType DEF TypeInv, TypeOK
    <2>4. CASE rows[u] = <<>>
      <3>1. SlotMap[u] = None
        BY <2>1, <2>4 DEF SlotMap, Slot
      <3>2. rows'[u] # <<>> /\ Head(rows'[u]) = Hash(u, b)
        BY <2>1, <2>3, <2>4 DEF TypeInv, TypeOK
      <3>3. \A v \in Users : v # u => rows'[v] = rows[v]
        BY <2>1 DEF TypeInv, TypeOK
      <3>4. SlotMap' = [SlotMap EXCEPT ![u] = Hash(u, b)]
        BY <2>1, <3>2, <3>3, SlotTaken
      <3>. QED
        BY <2>1, <2>2, <2>3, <3>1, <3>4 DEF MapsTo, Claims
    <2>5. CASE rows[u] # <<>>
      <3>0. rows'[u] = Append(rows[u], Hash(u, b))
        BY <2>1 DEF TypeInv, TypeOK
      <3>1. rows'[u] # <<>> /\ Head(rows'[u]) = Head(rows[u])
        BY <2>3, <2>5, <3>0
      <3>2. \A v \in Users : v # u => rows'[v] = rows[v]
        BY <2>1 DEF TypeInv, TypeOK
      <3>3. SlotMap' = SlotMap
        BY <2>1, <2>5, <3>1, <3>2 DEF SlotMap, Slot
      <3>. QED
        BY <2>2, <3>3 DEF MapsTo, SameMap, SDVars
    <2>. QED
      BY <2>4, <2>5
  <1>5. CASE SignIn(b) \/ AbortLogin(b)
    <2>1. /\ req[b].pc \in LoginStages /\ req'[b] = Idle /\ rows' = rows
          /\ sess'[b] \in {sess[b], req[b].work, [req[b].work EXCEPT !.user = u]}
      BY <1>5 DEF SignIn, AbortLogin, LoginStages, TypeInv, TypeOK
    <2>2. ~ServingMap[b] /\ ServingMap' = ServingMap /\ SlotMap' = SlotMap
      <3>1. req[b].pc # "act" /\ req'[b].pc # "act"
        BY <2>1 DEF Idle, LoginStages
      <3>. QED
        BY <1>5, <2>1, <3>1, MapStep, ServingParts
    <2>3. SignedMap[b] = None
      BY <2>1 DEF SignedMap, RequestConsistent
    <2>4. sess'[b].user \in Users \cup {None} /\ sess'[b].hash \in Hashes \cup {None}
      BY TypeNext, <2>1 DEF TypeInv, TypeOK, Session, Request, RequestOwned, LoginStages
    <2>. QED
      BY <1>5, <2>2, <2>3, <2>4, MapStep DEF MapsTo, Enters
  <1>. QED
    BY <1>1, <1>2, <1>3, <1>4, <1>5, LoginSteps DEF MapsTo

LEMMA VisitMaps ==
  ASSUME TypeInv, RequestConsistent, NEW b \in Browsers, Visit(b) \/ ExpireSession(b)
  PROVE  MapsTo(b)
  <1>1. CASE TurnAway(b) \/ ExpireSession(b)
    <2>1. sess'[b] = Fresh /\ req' = req /\ req[b].pc = "idle" /\ rows' = rows
      BY <1>1 DEF TurnAway, ExpireSession, SignOut, Asks, TypeInv, TypeOK
    <2>. QED
      BY <1>1, <2>1, MapStep, ServingParts DEF MapsTo, Leaves, Fresh, Visit
  <1>2. ASSUME NEW page \in Pages, NEW code \in Codes, Bounce(b, page, code)
        PROVE  MapsTo(b)
    <2>1. /\ sess'[b] = Recognised(b) /\ req' = req /\ req[b].pc = "idle" /\ rows' = rows
          /\ Caller(b) \in Users
      BY <1>2, CallerType DEF Bounce, Asks, TypeInv, TypeOK
    <2>2. sess'[b].user = Caller(b) /\ sess'[b].hash = sess[b].hash
      BY <2>1, RecognisedParts
    <2>3. ServingMap' = ServingMap /\ ~ServingMap[b] /\ SlotMap' = SlotMap
      BY <1>2, <2>1, MapStep, ServingParts DEF Visit
    <2>4. sess[b].hash \in Hashes \cup {None}
      BY DEF TypeInv, TypeOK, Session
    <2>5. CASE sess[b].user = None
      <3>1. /\ SignedMap' = [SignedMap EXCEPT ![b] = Caller(b)]
            /\ TicketMap' = [TicketMap EXCEPT ![b] = sess[b].hash]
        BY <1>2, <2>2, MapStep DEF Visit
      <3>2. SignedMap[b] = None
        BY <2>5 DEF SignedMap
      <3>3. Enters(b, Caller(b), sess[b].hash)
        BY <2>3, <3>1, <3>2 DEF Enters
      <3>. QED
        BY <2>1, <2>4, <3>3 DEF MapsTo
    <2>6. CASE sess[b].user # None
      <3>1. SignedMap' = SignedMap /\ TicketMap' = TicketMap
        BY <1>2, <2>2, <2>6, MapStep DEF SignedMap, TicketMap, Caller, Visit
      <3>. QED
        BY <2>3, <3>1 DEF MapsTo, SameMap, SDVars
    <2>. QED
      BY <2>5, <2>6
  <1>3. ASSUME NEW page \in Pages, NEW code \in Codes, Serve(b, page, code)
        PROVE  MapsTo(b)
    <2>1. UNCHANGED <<SignedMap, TicketMap, SlotMap>>
      BY <1>3, ServeEffect DEF SignedMap, TicketMap, SlotMap, Slot
    <2>2. ServingMap' = [ServingMap EXCEPT ![b] = TRUE] /\ ~ServingMap[b]
      BY <1>3, ServeEffect, MapStep DEF ServingMap, Visit
    <2>3. Caller(b) \in Users /\ SignedMap[b] \in {Caller(b), None}
      BY <1>3, ServeEffect DEF SignedMap, Caller
    <2>4. Caller(b) \in Members =>
            SlotMap[Caller(b)] # None /\ SlotMap[Caller(b)] = TicketMap[b]
      BY <1>3, <2>3, ServeEffect DEF SessionValid, SlotMap, TicketMap
    <2>. QED
      BY <2>1, <2>2, <2>3, <2>4 DEF MapsTo, Admits
  <1>4. CASE ActAppInactive(b) \/ ActLogout(b)
    <2>1. sess'[b] = Fresh /\ req'[b] = Idle /\ rows' = rows
      BY <1>4 DEF ActAppInactive, ActLogout, SignOut, EndRequest, TypeInv, TypeOK
    <2>. QED
      <3>1. req'[b].pc # "act" /\ sess'[b].user = None /\ sess'[b].hash = None
        BY <2>1 DEF Fresh, Idle
      <3>. QED
        BY <1>4, <2>1, <3>1, MapStep, ServingParts DEF MapsTo, Leaves, Visit
  <1>5. CASE ActPage(b) \/ ActVerifyTwofa(b) \/ ActEnableTwofactor(b) \/ ActDisableTwofactor(b)
    <2>1. /\ sess'[b] \in {req[b].work, [req[b].work EXCEPT !.pending = FALSE]}
          /\ req[b].pc = "act" /\ req'[b] = Idle /\ rows' = rows /\ req[b].user \in Users
      BY <1>5 DEF ActPage, ActVerifyTwofa, ActEnableTwofactor, ActDisableTwofactor, Acts, Stay,
         EndRequest, TypeInv, TypeOK, RequestOwned
    <2>2. /\ [req[b].work EXCEPT !.pending = FALSE].user = req[b].work.user
          /\ [req[b].work EXCEPT !.pending = FALSE].hash = req[b].work.hash
      BY DEF TypeInv, TypeOK, Request, Session
    <2>3. sess'[b].user = req[b].user /\ sess'[b].hash = sess[b].hash
          /\ sess[b].user \in {req[b].user, None}
      BY <2>1, <2>2 DEF RequestConsistent
    <2>4. TicketMap' = TicketMap
      BY <1>5, <2>3, MapStep DEF TicketMap, Visit
    <2>5. ServingMap[b] /\ ServingMap' = [ServingMap EXCEPT ![b] = FALSE]
      <3>1. req'[b].pc # "act"
        BY <2>1 DEF Idle
      <3>. QED
        BY <1>5, <2>1, <3>1, ServingParts DEF Visit
    <2>6. SlotMap' = SlotMap /\ SignedMap[b] \in {req[b].user, None}
          /\ SignedMap' = [SignedMap EXCEPT ![b] = req[b].user]
      BY <1>5, <2>1, <2>3, MapStep DEF SignedMap, Visit
    <2>. QED
      BY <2>1, <2>4, <2>5, <2>6 DEF MapsTo, Remains
  <1>. QED
    BY <1>1, <1>2, <1>3, <1>4, <1>5 DEF Visit

LEMMA MapInit == Init => SD!Init
  <1>. SUFFICES ASSUME Init PROVE SD!Init
    OBVIOUS
  <1>1. \A u \in Users : Slot(u) = None
    BY DEF Init, Slot
  <1>2. \A b \in Browsers : sess[b].user = None /\ sess[b].hash = None /\ req[b].pc # "act"
    BY DEF Init, Fresh, Idle
  <1>. QED
    BY <1>1, <1>2 DEF SD!Init

LEMMA MapNext ==
  TypeInv /\ RequestConsistent /\ [Next]_vars => [SD!Next]_(SD!vars)
  <1>. SUFFICES ASSUME TypeInv, RequestConsistent, [Next]_vars PROVE [SD!Next]_(SD!vars)
    OBVIOUS
  <1>0. SameMap => UNCHANGED SD!vars
    BY DEF SameMap, SDVars, SlotMap, SignedMap, TicketMap, ServingMap, SD!vars
  <1>1. ASSUME NEW b \in Browsers, Login(b) \/ Visit(b) \/ ExpireSession(b)
        PROVE  [SD!Next]_(SD!vars)
    <2>1. MapsTo(b)
      BY <1>1, LoginMaps, VisitMaps
    <2>3. Leaves(b) => SD!Finish(b)
      BY DEF Leaves, SD!Finish, SlotMap, SignedMap, TicketMap, ServingMap
    <2>4. ASSUME NEW u \in Users \cup {None}, NEW t \in Hashes \cup {None}, Enters(b, u, t)
          PROVE  SD!Enter(b)
      BY <2>4 DEF Enters, SD!Enter, SlotMap, SignedMap, TicketMap, ServingMap
    <2>. QED
      BY <1>0, <2>1, <2>3, <2>4, MapActions DEF MapsTo, SD!Next
  <1>2. ASSUME NEW u \in Users, UpdateStatus(u) PROVE SameMap
    BY <1>2 DEF UpdateStatus, SameMap, SDVars, SlotMap, Slot, SignedMap, TicketMap, ServingMap
  <1>3. CASE UNCHANGED vars
    <2>1. SlotMap' = SlotMap
      BY <1>3 DEF vars, SlotMap, Slot
    <2>2. UNCHANGED <<SignedMap, TicketMap, ServingMap>>
      BY <1>3 DEF vars, SignedMap, TicketMap, ServingMap
    <2>. QED
      BY <1>0, <2>1, <2>2 DEF SameMap, SDVars
  <1>. QED
    BY <1>0, <1>1, <1>2, <1>3 DEF Next, SameMap

\* DeviceSlot: the rows of user_sessions, with deletes, looks and inserts of any
\* number of overlapping logins, implement one device slot for each member.
THEOREM ImplementsSingleDevice == Spec => DeviceSlot
  <1>1. Init => TypeInv /\ RequestConsistent
    BY TypeInit, ConsistentInit
  <1>2. TypeInv /\ RequestConsistent /\ [Next]_vars => (TypeInv /\ RequestConsistent)'
    BY TypeNext, ConsistentNext
  <1>3. Spec => SD!Spec
    BY <1>1, <1>2, MapInit, MapNext, PTL DEF Spec, SD!Spec
  <1>. QED
    BY <1>3 DEF DeviceSlot
=============================================================================
