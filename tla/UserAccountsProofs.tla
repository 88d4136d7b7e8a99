------------------------- MODULE UserAccountsProofs -------------------------
(* Proofs about UserAccounts, for any requests, names, numbers, codes, typed *)
(* secrets and browsers and every bound.                                     *)
EXTENDS UserAccounts, TLAPS

(* Rows and requests. *)

LEMMA RowFacts ==
  /\ Blank \in Row /\ Off \in Second /\ ~Off.on /\ Off.secret = 0
  /\ \A n \in Values, m \in Mobiles, c \in Values :
       /\ RowOf(n, m, c) \in Row
       /\ RowOf(n, m, c)["name"] = n
       /\ RowOf(n, m, c)["mobile"] = m
       /\ RowOf(n, m, c)["code"] = c
  <1>1. Blank \in Row
    BY DEF Blank, RowOf, Row, Keys, Values, Mobiles
  <1>2. Off \in Second /\ ~Off.on /\ Off.secret = 0
    BY DEF Off, Second
  <1>3. ASSUME NEW n \in Values, NEW m \in Mobiles, NEW c \in Values
        PROVE  /\ RowOf(n, m, c) \in Row
               /\ RowOf(n, m, c)["name"] = n
               /\ RowOf(n, m, c)["mobile"] = m
               /\ RowOf(n, m, c)["code"] = c
    <2>1. m \in Values
      BY DEF Values
    <2>. QED
      BY <2>1 DEF RowOf, Row, Keys
  <1>. QED
    BY <1>1, <1>2, <1>3

LEMMA AskFacts ==
  ASSUME NEW op \in {"none", "create", "update", "profile", "delete"},
         NEW pc \in {"idle", "looked", "checked", "found", "log"}, NEW i \in Nat
  PROVE  /\ Ask(op, pc, i) \in Request
         /\ Ask(op, pc, i).op = op /\ Ask(op, pc, i).pc = pc /\ Ask(op, pc, i).id = i
  BY RowFacts DEF Ask, Request, Nobody

LEMMA RequestFields ==
  ASSUME NEW q \in Request
  PROVE  /\ q.op \in {"none", "create", "update", "profile", "delete"}
         /\ q.pc \in {"idle", "looked", "checked", "found", "log"}
         /\ q.id \in Nat /\ q.want \in Row /\ q.second \in Second /\ q.sponsor \in Nat
         /\ q.dirty \in SUBSET Columns /\ q.missed \in SUBSET Keys
  BY DEF Request

\* Which columns a request has looked for.
Looked(q) ==
  CASE q.op = "create" /\ q.pc = "looked" -> {"code"}
    [] q.op = "create" /\ q.pc = "checked" -> Keys
    [] q.op = "update" /\ q.pc = "checked" -> {"name", "mobile"}
    [] q.op = "profile" /\ q.pc = "checked" -> {"mobile"}
    [] OTHER -> {}

\* For which user it looked.
Self(q) == IF q.op = "create" THEN Nobody ELSE q.id

\* What a request looked for and no other wrote since is still free.
FreshIn(rows, q) ==
  \A k \in Looked(q) \ q.missed :
    q.want[k] \notin {Null, Empty} =>
      \A j \in DOMAIN rows \ {Self(q)} : rows[j][k] # q.want[k]

\* The code that an edit changes counts as not looked for, and a profile's
\* edit changes nothing but the number.
Bounded(q) ==
  /\ q.op = "update" /\ "code" \in q.dirty => "code" \in q.missed
  /\ q.op = "profile" => q.dirty \subseteq {"mobile"}

DirectoryInv ==
  /\ DirectoryTypeOK
  /\ \A r \in Requests : Bounded(req[r]) /\ FreshIn(users, req[r])
  /\ UniqueWhereLooked
  /\ NoOrphans
  /\ GoneAccountedFor

LEMMA IdleFacts ==
  /\ Idle \in Request /\ Idle.id = 0 /\ Idle.pc = "idle"
  /\ Bounded(Idle) /\ \A rows : FreshIn(rows, Idle)
  <1>1. Idle \in Request /\ Idle.op = "none" /\ Idle.pc = "idle" /\ Idle.id = 0
    BY AskFacts DEF Idle, Nobody
  <1>. QED
    BY <1>1 DEF Bounded, FreshIn, Looked

LEMMA DirectoryStart == DirectoryInit => DirectoryInv
  <1>. SUFFICES ASSUME DirectoryInit PROVE DirectoryInv
    OBVIOUS
  <1>1. /\ DOMAIN users = {1} /\ nextId = 2 /\ 1 .. nextId - 1 = {1}
        /\ sponsor = [i \in {1} |-> 0] /\ felled = [i \in {1} |-> 0] /\ second = [i \in {1} |-> Off]
    BY DEF DirectoryInit, Administrator, Nobody
  <1>2. users[1] \in Row /\ \A r \in Requests : req[r] = Idle
    BY RowFacts DEF DirectoryInit, Administrator, Mobiles, Values
  <1>3. DirectoryTypeOK
    <2>1. req \in [Requests -> Request] /\ \A r \in Requests : req[r].id < nextId
      BY <1>1, IdleFacts DEF DirectoryInit
    <2>2. second \in [{1} -> Second] /\ sponsor \in [{1} -> Nat] /\ felled \in [{1} -> Nat]
      BY <1>1, RowFacts
    <2>. QED
      BY <1>1, <1>2, <2>1, <2>2 DEF DirectoryInit, DirectoryTypeOK, Administrator
  <1>4. \A r \in Requests : Bounded(req[r]) /\ FreshIn(users, req[r])
    BY <1>2, IdleFacts
  <1>5. UniqueWhereLooked /\ NoOrphans /\ GoneAccountedFor
    BY <1>1 DEF UniqueWhereLooked, NoOrphans, Exists, Nobody, GoneAccountedFor
  <1>. QED
    BY <1>3, <1>4, <1>5 DEF DirectoryInv

(* How requests end and go on. *)

LEMMA EndFacts ==
  ASSUME DirectoryTypeOK, NEW r \in Requests, End(r)
  PROVE  /\ req' \in [Requests -> Request]
         /\ req'[r] = Idle
         /\ \A q \in Requests \ {r} : req'[q] = req[q]
  BY IdleFacts DEF End, DirectoryTypeOK

LEMMA EndWritingFacts ==
  ASSUME DirectoryTypeOK, NEW r \in Requests, NEW ks \in SUBSET Keys, EndWriting(r, ks)
  PROVE  /\ req' \in [Requests -> Request]
         /\ req'[r] = Idle
         /\ \A q \in Requests \ {r} :
              /\ req'[q].op = req[q].op /\ req'[q].pc = req[q].pc /\ req'[q].id = req[q].id
              /\ req'[q].want = req[q].want /\ req'[q].dirty = req[q].dirty
              /\ req[q] = Idle \/ req'[q].missed = req[q].missed \cup ks
  <1>1. \A q \in Requests : [req[q] EXCEPT !.missed = @ \cup ks] \in Request
    BY DEF DirectoryTypeOK, Request
  <1>2. req' \in [Requests -> Request] /\ req'[r] = Idle
    BY <1>1, IdleFacts DEF EndWriting
  <1>3. ASSUME NEW q \in Requests \ {r}
        PROVE  /\ req'[q].op = req[q].op /\ req'[q].pc = req[q].pc /\ req'[q].id = req[q].id
               /\ req'[q].want = req[q].want /\ req'[q].dirty = req[q].dirty
               /\ req[q] = Idle \/ req'[q].missed = req[q].missed \cup ks
    <2>1. req[q] \in Request
      BY DEF DirectoryTypeOK
    <2>2. CASE req[q] = Idle
      BY <2>2 DEF EndWriting
    <2>3. CASE req[q] # Idle
      <3>1. req'[q] = [req[q] EXCEPT !.missed = @ \cup ks]
        BY <2>3 DEF EndWriting
      <3>. QED
        BY <2>1, <3>1 DEF Request
    <2>. QED
      BY <2>2, <2>3
  <1>. QED
    BY <1>2, <1>3

LEMMA PassedFacts ==
  ASSUME DirectoryTypeOK, NEW r \in Requests, NEW ks, Passed(r, ks)
  PROVE  /\ req' \in [Requests -> Request]
         /\ req'[r].op = req[r].op /\ req'[r].pc = "checked" /\ req'[r].id = req[r].id
         /\ req'[r].want = req[r].want /\ req'[r].dirty = req[r].dirty
         /\ req'[r].missed = req[r].missed \ ks
         /\ \A q \in Requests \ {r} : req'[q] = req[q]
  <1>1. req[r] \in Request
    BY DEF DirectoryTypeOK
  <1>. DEFINE new == [req[r] EXCEPT !.pc = "checked", !.missed = @ \ ks]
  <1>2. new \in Request /\ new.op = req[r].op /\ new.pc = "checked" /\ new.id = req[r].id
        /\ new.want = req[r].want /\ new.dirty = req[r].dirty /\ new.missed = req[r].missed \ ks
    BY <1>1 DEF Request
  <1>3. req' = [req EXCEPT ![r] = new]
    BY DEF Passed, DirectoryTypeOK
  <1>. HIDE DEF new
  <1>. QED
    BY <1>2, <1>3 DEF DirectoryTypeOK

LEMMA LookedKeys == \A q : Looked(q) \subseteq Keys
  BY DEF Looked, Keys

\* A request that takes note of what is written stays fresh.
LEMMA StaysFresh ==
  ASSUME NEW old, NEW new, NEW ks \in SUBSET Keys, NEW q, NEW p, FreshIn(old, q),
         p.op = q.op, p.pc = q.pc, p.id = q.id, p.want = q.want, p.missed = q.missed \cup ks,
         \A j \in DOMAIN new : \A k \in Keys \ ks : j \in DOMAIN old /\ new[j][k] = old[j][k]
  PROVE  FreshIn(new, p)
  <1>1. Looked(p) = Looked(q) /\ Self(p) = Self(q)
    BY DEF Looked, Self
  <1>2. SUFFICES ASSUME NEW k \in Looked(p) \ p.missed, p.want[k] \notin {Null, Empty},
                        NEW j \in DOMAIN new \ {Self(p)}
                 PROVE  new[j][k] # p.want[k]
    BY DEF FreshIn
  <1>3. k \in Looked(q) \ q.missed /\ k \in Keys \ ks
    BY <1>1, <1>2, LookedKeys
  <1>4. j \in DOMAIN old \ {Self(q)} /\ new[j][k] = old[j][k]
    BY <1>1, <1>2, <1>3
  <1>. QED
    BY <1>2, <1>3, <1>4 DEF FreshIn

\* A step of request r that leaves the table alone.
LEMMA QuietStep ==
  ASSUME DirectoryInv, NEW r \in Requests,
         UNCHANGED <<users, second, sponsor, nextId, notes>>, load' \in Nat,
         req' \in [Requests -> Request], \A q \in Requests \ {r} : req'[q] = req[q],
         req[r].pc # "log", req'[r].id < nextId,
         Bounded(req'[r]), FreshIn(users, req'[r])
  PROVE  DirectoryInv'
  <1>0. UNCHANGED <<users, second, sponsor, nextId, told, untold, felled, blind, edited>>
    BY DEF notes
  <1>1. DirectoryTypeOK'
    BY <1>0 DEF DirectoryInv, DirectoryTypeOK
  <1>2. (\A q \in Requests : Bounded(req[q]) /\ FreshIn(users, req[q]))'
    BY <1>0 DEF DirectoryInv
  <1>3. UniqueWhereLooked' /\ NoOrphans'
    BY <1>0 DEF DirectoryInv, UniqueWhereLooked, NoOrphans, Exists
  <1>4. GoneAccountedFor'
    <2>1. \A q \in Requests : req[q].pc = "log" => req'[q] = req[q]
      OBVIOUS
    <2>. QED
      BY <1>0, <2>1 DEF DirectoryInv, GoneAccountedFor
  <1>. QED
    BY <1>1, <1>2, <1>3, <1>4 DEF DirectoryInv

LEMMA EndQuietly ==
  ASSUME DirectoryInv, NEW r \in Requests, End(r), req[r].pc # "log",
         UNCHANGED <<users, second, sponsor, nextId, notes, load>>
  PROVE  DirectoryInv'
  <1>1. DirectoryTypeOK /\ nextId \in Nat /\ nextId > 0 /\ load \in Nat
    BY DEF DirectoryInv, DirectoryTypeOK, Administrator
  <1>2. req' \in [Requests -> Request] /\ req'[r] = Idle /\ \A q \in Requests \ {r} : req'[q] = req[q]
    BY <1>1, EndFacts
  <1>. QED
    BY <1>1, <1>2, IdleFacts, QuietStep

(* Steps that leave the table alone. *)

LEMMA BeginQuietly ==
  ASSUME DirectoryInv, NEW r \in Requests, NEW q \in Request, Begin(r, q),
         q.id < nextId, Bounded(q), FreshIn(users, q)
  PROVE  DirectoryInv'
  <1>1. req \in [Requests -> Request] /\ load \in Nat
    BY DEF DirectoryInv, DirectoryTypeOK
  <1>2. /\ req' = [req EXCEPT ![r] = q] /\ req[r] = Idle /\ load' = load + 5
        /\ UNCHANGED <<users, second, sponsor, nextId, notes>>
    BY DEF Begin
  <1>. QED
    BY <1>1, <1>2, IdleFacts, QuietStep

LEMMA UserFacts ==
  ASSUME DirectoryTypeOK, NEW i \in DOMAIN users
  PROVE  /\ i \in Nat /\ i > 0 /\ i < nextId /\ i \in 1 .. nextId - 1
         /\ users[i] \in Row /\ second[i] \in Second /\ sponsor[i] \in Nat
         /\ users[i]["name"] \in Values /\ users[i]["mobile"] \in Mobiles /\ users[i]["code"] \in Values
  BY DEF DirectoryTypeOK, Row, Keys

LEMMA ValuesFacts ==
  Names \subseteq Values /\ Codes \subseteq Values /\ Mobiles \subseteq Values
  /\ Numbers \subseteq Mobiles /\ Null \in Mobiles /\ Empty \in Mobiles
  BY DEF Values, Mobiles

LEMMA BeginCreateKeeps ==
  ASSUME DirectoryInv, NEW r \in Requests, NEW p \in DOMAIN users, BeginCreate(r, p)
  PROVE  DirectoryInv'
  <1>1. PICK dirty \in Forms({"mobile", "on", "secret"}) :
        \E n \in Names,
           m \in Posted("mobile", dirty, Numbers \cup {Empty}, Null),
           c \in Codes,
           on \in Posted("on", dirty, BOOLEAN, FALSE),
           x \in Posted("secret", dirty, Given, 0) :
          /\ Free("code", c, Nobody)
          /\ Begin(r, [op |-> "create", pc |-> "looked", id |-> Nobody, want |-> RowOf(n, m, c),
                       second |-> [on |-> on, secret |-> x], sponsor |-> p,
                       dirty |-> {}, missed |-> {}])
    BY DEF BeginCreate
  <1>2. PICK n \in Names,
             m \in Posted("mobile", dirty, Numbers \cup {Empty}, Null),
             c \in Codes,
             on \in Posted("on", dirty, BOOLEAN, FALSE),
             x \in Posted("secret", dirty, Given, 0) :
          /\ Free("code", c, Nobody)
          /\ Begin(r, [op |-> "create", pc |-> "looked", id |-> Nobody, want |-> RowOf(n, m, c),
                       second |-> [on |-> on, secret |-> x], sponsor |-> p,
                       dirty |-> {}, missed |-> {}])
    BY <1>1
  <1>3. m \in Mobiles /\ x \in Nat \cup Given \cup {Empty}
    BY ValuesFacts DEF Posted
  <1>4. on \in BOOLEAN
    BY Zenon DEF Posted
  <1>. DEFINE s == [on |-> on, secret |-> x]
  <1>5. s \in Second
    BY <1>3, <1>4, Zenon DEF Second
  <1>6. RowOf(n, m, c) \in Row /\ RowOf(n, m, c)["code"] = c
    BY <1>3, RowFacts, ValuesFacts
  <1>7. p \in Nat /\ nextId \in Nat /\ nextId > 0
    BY UserFacts DEF DirectoryInv, DirectoryTypeOK, Administrator
  <1>. DEFINE w == RowOf(n, m, c)
              q == [op |-> "create", pc |-> "looked", id |-> Nobody, want |-> w,
                    second |-> s, sponsor |-> p, dirty |-> {}, missed |-> {}]
  <1>8. Begin(r, q) /\ Free("code", c, Nobody)
    BY <1>2
  <1>. HIDE DEF s, w
  <1>9. q \in Request
    BY <1>5, <1>6, <1>7 DEF Request, Nobody, w
  <1>10. q.op = "create" /\ q.pc = "looked" /\ q.id = 0 /\ q.want = w /\ q.missed = {}
    BY DEF Nobody
  <1>. HIDE DEF q
  <1>11. Bounded(q) /\ Looked(q) = {"code"} /\ Self(q) = Nobody
    BY <1>10 DEF Bounded, Looked, Self
  <1>12. FreshIn(users, q)
    BY <1>6, <1>8, <1>10, <1>11 DEF FreshIn, Free, w
  <1>. QED
    BY <1>7, <1>8, <1>9, <1>10, <1>11, <1>12, BeginQuietly

LEMMA BeginUpdateKeeps ==
  ASSUME DirectoryInv, NEW r \in Requests, NEW i \in DOMAIN users, BeginUpdate(r, i)
  PROVE  DirectoryInv'
  <1>1. PICK dirty \in Forms(Columns) :
        \E n \in Posted("name", dirty, Names \ {users[i]["name"]}, users[i]["name"]),
           m \in Posted("mobile", dirty, (Numbers \cup {Empty}) \ {users[i]["mobile"]}, users[i]["mobile"]),
           c \in Posted("code", dirty, Codes \ {users[i]["code"]}, users[i]["code"]),
           on \in Posted("on", dirty, BOOLEAN, second[i].on),
           x \in Posted("secret", dirty, Given \ {second[i].secret}, second[i].secret),
           p \in Posted("sponsor", dirty, DOMAIN users \cup {Nobody}, sponsor[i]) :
          Begin(r, [op |-> "update", pc |-> "looked", id |-> i, want |-> RowOf(n, m, c),
                    second |-> [on |-> on, secret |-> x], sponsor |-> p,
                    dirty |-> dirty, missed |-> dirty \cap {"code"}])
    BY DEF BeginUpdate
  <1>2. PICK n \in Posted("name", dirty, Names \ {users[i]["name"]}, users[i]["name"]),
             m \in Posted("mobile", dirty, (Numbers \cup {Empty}) \ {users[i]["mobile"]}, users[i]["mobile"]),
             c \in Posted("code", dirty, Codes \ {users[i]["code"]}, users[i]["code"]),
             on \in Posted("on", dirty, BOOLEAN, second[i].on),
             x \in Posted("secret", dirty, Given \ {second[i].secret}, second[i].secret),
             p \in Posted("sponsor", dirty, DOMAIN users \cup {Nobody}, sponsor[i]) :
          Begin(r, [op |-> "update", pc |-> "looked", id |-> i, want |-> RowOf(n, m, c),
                    second |-> [on |-> on, secret |-> x], sponsor |-> p,
                    dirty |-> dirty, missed |-> dirty \cap {"code"}])
    BY <1>1
  <1>3. /\ i \in Nat /\ i < nextId /\ second[i] \in Second /\ sponsor[i] \in Nat
        /\ users[i]["name"] \in Values /\ users[i]["mobile"] \in Mobiles /\ users[i]["code"] \in Values
        /\ DOMAIN users \subseteq Nat
    BY UserFacts DEF DirectoryInv
  <1>4. n \in Values /\ m \in Mobiles /\ c \in Values
    BY <1>3, ValuesFacts DEF Posted
  <1>5. second[i].on \in BOOLEAN /\ second[i].secret \in Nat \cup Given \cup {Empty}
    BY <1>3 DEF Second
  <1>6. on \in BOOLEAN
    <2>1. CASE "on" \in dirty
      BY <2>1, Zenon DEF Posted
    <2>2. CASE "on" \notin dirty
      <3>1. on = second[i].on
        BY <2>2, Zenon DEF Posted
      <3>. QED
        BY <1>5, <3>1, Zenon
    <2>. QED
      BY <2>1, <2>2
  <1>7. x \in Nat \cup Given \cup {Empty} /\ p \in Nat
    BY <1>3, <1>5 DEF Posted, Nobody
  <1>. DEFINE s == [on |-> on, secret |-> x]
  <1>8. s \in Second
    BY <1>6, <1>7, Zenon DEF Second
  <1>9. RowOf(n, m, c) \in Row
    BY <1>4, RowFacts
  <1>10. dirty \in SUBSET Columns
    BY DEF Forms
  <1>. DEFINE w == RowOf(n, m, c)
              q == [op |-> "update", pc |-> "looked", id |-> i, want |-> w,
                    second |-> s, sponsor |-> p, dirty |-> dirty, missed |-> dirty \cap {"code"}]
  <1>11. Begin(r, q)
    BY <1>2
  <1>. HIDE DEF s, w
  <1>12. q \in Request
    BY <1>3, <1>7, <1>8, <1>9, <1>10 DEF Request, Keys, w
  <1>13. q.op = "update" /\ q.pc = "looked" /\ q.id = i /\ q.dirty = dirty /\ q.missed = dirty \cap {"code"}
    OBVIOUS
  <1>. HIDE DEF q
  <1>14. Bounded(q) /\ FreshIn(users, q)
    BY <1>13 DEF Bounded, Looked, FreshIn
  <1>. QED
    BY <1>3, <1>11, <1>12, <1>13, <1>14, BeginQuietly

LEMMA BeginProfileKeeps ==
  ASSUME DirectoryInv, NEW r \in Requests, NEW i \in DOMAIN users,
         NEW m \in Mobiles, BeginProfile(r, i, m)
  PROVE  DirectoryInv'
  <1>. DEFINE w == [users[i] EXCEPT !["mobile"] = m]
              d == IF m = users[i]["mobile"] THEN {} ELSE {"mobile"}
              q == [Ask("profile", "looked", i) EXCEPT !.want = w, !.dirty = d]
  <1>1. i \in Nat /\ i < nextId /\ users[i] \in Row
    BY UserFacts DEF DirectoryInv
  <1>2. w \in Row
    BY <1>1, ValuesFacts DEF Row, Keys
  <1>3. Begin(r, q)
    BY DEF BeginProfile
  <1>4. d \subseteq {"mobile"} /\ {"mobile"} \subseteq Columns
    BY DEF Columns, Keys
  <1>. HIDE DEF w, d
  <1>5. Ask("profile", "looked", i) \in Request /\ Ask("profile", "looked", i).op = "profile"
        /\ Ask("profile", "looked", i).pc = "looked" /\ Ask("profile", "looked", i).id = i
    BY <1>1, AskFacts
  <1>6. q \in Request /\ q.op = "profile" /\ q.pc = "looked" /\ q.id = i /\ q.dirty = d
    BY <1>2, <1>4, <1>5 DEF Request
  <1>. HIDE DEF q
  <1>7. Bounded(q) /\ FreshIn(users, q)
    BY <1>4, <1>6 DEF Bounded, Looked, FreshIn
  <1>. QED
    BY <1>1, <1>3, <1>6, <1>7, BeginQuietly

LEMMA FindModelKeeps ==
  ASSUME DirectoryInv, NEW r \in Requests, NEW i \in DOMAIN users, FindModel(r, i)
  PROVE  DirectoryInv'
  <1>. DEFINE q == Ask("delete", "found", i)
  <1>1. i \in Nat /\ i < nextId
    BY UserFacts DEF DirectoryInv
  <1>2. q \in Request /\ q.op = "delete" /\ q.pc = "found" /\ q.id = i
    BY <1>1, AskFacts
  <1>3. Begin(r, q)
    BY DEF FindModel
  <1>. HIDE DEF q
  <1>4. Bounded(q) /\ FreshIn(users, q)
    BY <1>2 DEF Bounded, Looked, FreshIn
  <1>. QED
    BY <1>1, <1>2, <1>3, <1>4, BeginQuietly

\* A request that passes its validators has found every column free.
LEMMA PassQuietly ==
  ASSUME DirectoryInv, NEW r \in Requests, NEW ks, "code" \notin ks, Passed(r, ks),
         req[r].pc # "log",
         UNCHANGED <<users, second, sponsor, nextId, notes, load>>,
         \A p : /\ p.op = req[r].op /\ p.pc = "checked" /\ p.id = req[r].id
                /\ p.want = req[r].want /\ p.missed = req[r].missed \ ks
                => FreshIn(users, p)
  PROVE  DirectoryInv'
  <1>1. DirectoryTypeOK /\ load \in Nat /\ req[r].id < nextId /\ Bounded(req[r])
    BY DEF DirectoryInv, DirectoryTypeOK
  <1>2. /\ req' \in [Requests -> Request]
        /\ req'[r].op = req[r].op /\ req'[r].pc = "checked" /\ req'[r].id = req[r].id
        /\ req'[r].want = req[r].want /\ req'[r].dirty = req[r].dirty
        /\ req'[r].missed = req[r].missed \ ks
        /\ \A q \in Requests \ {r} : req'[q] = req[q]
    BY <1>1, PassedFacts
  <1>3. Bounded(req'[r])
    BY <1>1, <1>2 DEF Bounded
  <1>4. FreshIn(users, req'[r])
    BY <1>2
  <1>. QED
    BY <1>1, <1>2, <1>3, <1>4, QuietStep

LEMMA CheckCreateKeeps ==
  ASSUME DirectoryInv, NEW r \in Requests, CheckCreate(r)
  PROVE  DirectoryInv'
  <1>0. req[r] \in Request /\ req[r].op = "create" /\ req[r].pc = "looked"
    BY DEF DirectoryInv, DirectoryTypeOK, CheckCreate
  <1>1. UNCHANGED <<users, second, sponsor, nextId, notes, load>>
    BY DEF CheckCreate
  <1>2. CASE End(r)
    BY <1>0, <1>1, <1>2, EndQuietly
  <1>3. CASE /\ Free("name", req[r].want["name"], Nobody)
             /\ req[r].want["mobile"] \in Numbers => Free("mobile", req[r].want["mobile"], Nobody)
             /\ Passed(r, {"name", "mobile"})
    <2>1. SUFFICES ASSUME NEW p, p.op = "create", p.pc = "checked", p.id = req[r].id,
                          p.want = req[r].want, p.missed = req[r].missed \ {"name", "mobile"}
                   PROVE  FreshIn(users, p)
      BY <1>0, <1>1, <1>3, PassQuietly
    <2>2. FreshIn(users, req[r]) /\ Looked(req[r]) = {"code"} /\ Self(req[r]) = Nobody
      BY <1>0 DEF DirectoryInv, Looked, Self
    <2>3. Self(p) = Nobody
      BY <2>1 DEF Self
    <2>4. p.want["mobile"] \in Mobiles
      BY <1>0, <2>1 DEF Request, Row
    <2>5. SUFFICES ASSUME NEW k \in Keys \ p.missed, p.want[k] \notin {Null, Empty},
                          NEW j \in DOMAIN users \ {Nobody}
                   PROVE  users[j][k] # p.want[k]
      BY <2>3, LookedKeys DEF FreshIn
    <2>6. CASE k = "code"
      BY <2>1, <2>2, <2>5, <2>6 DEF FreshIn
    <2>7. CASE k = "name"
      BY <1>3, <2>1, <2>5, <2>7 DEF Free
    <2>8. CASE k = "mobile"
      BY <1>3, <2>1, <2>4, <2>5, <2>8 DEF Free, Mobiles
    <2>. QED
      BY <2>5, <2>6, <2>7, <2>8 DEF Keys
  <1>. QED
    BY <1>2, <1>3 DEF CheckCreate

LEMMA CheckUpdateKeeps ==
  ASSUME DirectoryInv, NEW r \in Requests, CheckUpdate(r)
  PROVE  DirectoryInv'
  <1>0. req[r] \in Request /\ req[r].op = "update" /\ req[r].pc = "looked"
    BY DEF DirectoryInv, DirectoryTypeOK, CheckUpdate
  <1>1. UNCHANGED <<users, second, sponsor, nextId, notes, load>>
    BY DEF CheckUpdate
  <1>2. CASE End(r)
    BY <1>0, <1>1, <1>2, EndQuietly
  <1>3. CASE /\ Free("mobile", req[r].want["mobile"], req[r].id)
             /\ Free("name", req[r].want["name"], req[r].id)
             /\ Passed(r, {"name", "mobile"})
    <2>1. SUFFICES ASSUME NEW p, p.op = "update", p.pc = "checked", p.id = req[r].id,
                          p.want = req[r].want
                   PROVE  FreshIn(users, p)
      BY <1>0, <1>1, <1>3, PassQuietly
    <2>2. Looked(p) = {"name", "mobile"} /\ Self(p) = req[r].id
      BY <2>1 DEF Looked, Self
    <2>. QED
      BY <1>3, <2>1, <2>2 DEF FreshIn, Free
  <1>. QED
    BY <1>2, <1>3 DEF CheckUpdate

LEMMA CheckProfileKeeps ==
  ASSUME DirectoryInv, NEW r \in Requests, CheckProfile(r)
  PROVE  DirectoryInv'
  <1>0. req[r] \in Request /\ req[r].op = "profile" /\ req[r].pc = "looked"
    BY DEF DirectoryInv, DirectoryTypeOK, CheckProfile
  <1>1. UNCHANGED <<users, second, sponsor, nextId, notes, load>>
    BY DEF CheckProfile
  <1>2. CASE End(r)
    BY <1>0, <1>1, <1>2, EndQuietly
  <1>3. CASE /\ req[r].want["mobile"] \in Numbers => Free("mobile", req[r].want["mobile"], req[r].id)
             /\ Passed(r, {"mobile"})
    <2>1. SUFFICES ASSUME NEW p, p.op = "profile", p.pc = "checked", p.id = req[r].id,
                          p.want = req[r].want
                   PROVE  FreshIn(users, p)
      BY <1>0, <1>1, <1>3, PassQuietly
    <2>2. Looked(p) = {"mobile"} /\ Self(p) = req[r].id
      BY <2>1 DEF Looked, Self
    <2>3. p.want["mobile"] \in Mobiles
      BY <1>0, <2>1 DEF Request, Row
    <2>. QED
      BY <1>3, <2>1, <2>2, <2>3 DEF FreshIn, Free, Mobiles
  <1>. QED
    BY <1>2, <1>3 DEF CheckProfile

(* Steps that change the table. *)

\* After a write of columns ks the other requests are fresh, because they
\* missed it.
LEMMA WriteKeepsFresh ==
  ASSUME DirectoryInv, NEW r \in Requests, NEW ks \in SUBSET Keys, EndWriting(r, ks),
         \A j \in DOMAIN users' : \A k \in Keys \ ks : j \in DOMAIN users /\ users'[j][k] = users[j][k]
  PROVE  /\ req' \in [Requests -> Request]
         /\ \A q \in Requests : Bounded(req'[q]) /\ FreshIn(users', req'[q])
         /\ \A q \in Requests : req'[q].id = 0 \/ req'[q].id = req[q].id
         /\ req'[r].pc = "idle" /\ \A q \in Requests \ {r} : req'[q].pc = req[q].pc /\ req'[q].id = req[q].id
  <1>1. DirectoryTypeOK /\ \A q \in Requests : Bounded(req[q]) /\ FreshIn(users, req[q])
    BY DEF DirectoryInv
  <1>2. /\ req' \in [Requests -> Request]
        /\ req'[r] = Idle
        /\ \A q \in Requests \ {r} :
             /\ req'[q].op = req[q].op /\ req'[q].pc = req[q].pc /\ req'[q].id = req[q].id
             /\ req'[q].want = req[q].want /\ req'[q].dirty = req[q].dirty
             /\ req[q] = Idle \/ req'[q].missed = req[q].missed \cup ks
    BY <1>1, EndWritingFacts
  <1>3. ASSUME NEW q \in Requests \ {r} PROVE Bounded(req'[q]) /\ FreshIn(users', req'[q])
    <2>1. CASE req[q] = Idle
      <3>1. req'[q].op = "none"
        BY <1>2, <2>1 DEF Idle, Ask
      <3>. QED
        BY <3>1 DEF Bounded, FreshIn, Looked
    <2>2. CASE req'[q].missed = req[q].missed \cup ks
      <3>1. Bounded(req'[q])
        BY <1>1, <1>2, <2>2 DEF Bounded
      <3>. QED
        BY <1>1, <1>2, <2>2, <3>1, StaysFresh
    <2>. QED
      BY <1>2, <2>1, <2>2
  <1>. QED
    BY <1>2, <1>3, IdleFacts

\* User i's row becomes new in columns ks, which were looked for or are marked.
Rewritten(i, ks, new, rows, marks) ==
  /\ \A j \in DOMAIN rows \ {i} : j \in DOMAIN users /\ rows[j] = users[j]
  /\ rows[i] = new
  /\ \A k \in Keys \ ks : i \in DOMAIN users /\ new[k] = users[i][k]
  /\ \A k \in ks : new[k] \notin {Null, Empty} =>
       <<i, k>> \in marks \/ \A j \in DOMAIN users \ {i} : users[j][k] # new[k]
  /\ \A j, k : (j # i \/ k \notin ks) /\ <<j, k>> \in blind => <<j, k>> \in marks

\* No two of the rows share a value, but for marked ones.
DistinctIn(rows, marks) ==
  \A a, b \in DOMAIN rows : \A k \in Keys :
    a # b /\ rows[a][k] = rows[b][k] /\ rows[a][k] \notin {Null, Empty}
      => <<a, k>> \in marks \/ <<b, k>> \in marks

LEMMA LooksKeepUnique ==
  ASSUME UniqueWhereLooked, NEW i, NEW ks, NEW new, NEW rows, NEW marks,
         Rewritten(i, ks, new, rows, marks)
  PROVE  DistinctIn(rows, marks)
  <1>. USE DEF Rewritten
  <1>1. ASSUME NEW j \in DOMAIN users \ {i}, NEW k \in Keys,
               users[j][k] = new[k], new[k] \notin {Null, Empty}
        PROVE  <<i, k>> \in marks \/ <<j, k>> \in marks
    <2>1. CASE k \in ks
      BY <1>1, <2>1
    <2>2. CASE k \notin ks
      <3>1. i \in DOMAIN users /\ new[k] = users[i][k]
        BY <2>2
      <3>2. <<i, k>> \in blind \/ <<j, k>> \in blind
        BY <1>1, <3>1 DEF UniqueWhereLooked
      <3>. QED
        BY <1>1, <2>2, <3>2
    <2>. QED
      BY <2>1, <2>2
  <1>2. ASSUME NEW a \in DOMAIN rows, NEW b \in DOMAIN rows, NEW k \in Keys,
               a # b, rows[a][k] = rows[b][k], rows[a][k] \notin {Null, Empty}
        PROVE  <<a, k>> \in marks \/ <<b, k>> \in marks
    <2>1. CASE a = i
      BY <1>1, <1>2, <2>1
    <2>2. CASE b = i
      BY <1>1, <1>2, <2>2
    <2>3. CASE a # i /\ b # i
      <3>1. a \in DOMAIN users /\ b \in DOMAIN users /\ rows[a] = users[a] /\ rows[b] = users[b]
        BY <1>2, <2>3
      <3>2. <<a, k>> \in blind \/ <<b, k>> \in blind
        BY <1>2, <3>1 DEF UniqueWhereLooked
      <3>. QED
        BY <2>3, <3>2
    <2>. QED
      BY <2>1, <2>2, <2>3
  <1>. QED
    BY <1>2 DEF DistinctIn

\* A function of the ids gets a value for the next.
LEMMA WithIds ==
  ASSUME nextId \in Nat, nextId > 0, NEW S, NEW f \in [1 .. nextId - 1 -> S], NEW v \in S
  PROVE  With(f, 1 .. nextId - 1, v) \in [1 .. nextId -> S]
  <1>. DEFINE D == 1 .. nextId - 1
  <1>1. D \cup {nextId} = 1 .. nextId /\ nextId \notin D
    OBVIOUS
  <1>2. \A i \in D : f[i] \in S
    OBVIOUS
  <1>. HIDE DEF D
  <1>3. With(f, D, v) \in [D \cup {nextId} -> S]
    BY <1>1, <1>2 DEF With
  <1>. QED
    BY <1>1, <1>3 DEF D

LEMMA InsertKeeps ==
  ASSUME DirectoryInv, NEW r \in Requests, Insert(r)
  PROVE  DirectoryInv'
  <1>. DEFINE q == req[r]
              ids == 1 .. nextId - 1
  <1>0. /\ DirectoryTypeOK /\ UniqueWhereLooked /\ NoOrphans
        /\ q \in Request /\ q.op = "create" /\ q.pc = "checked"
        /\ FreshIn(users, q)
    BY DEF DirectoryInv, DirectoryTypeOK, Insert, NewRow
  <1>1. q.want \in Row /\ q.missed \in SUBSET Keys /\ q.second \in Second /\ q.sponsor \in Nat
    BY <1>0, RequestFields
  <1>2. /\ users' = With(users, DOMAIN users, q.want)
        /\ second' = With(second, ids, q.second)
        /\ sponsor' = With(sponsor, ids, q.sponsor)
        /\ felled' = With(felled, ids, Nobody)
        /\ nextId' = nextId + 1
        /\ blind' = blind \cup ({nextId} \X q.missed)
        /\ edited' \in {edited, edited \cup {nextId}}
        /\ EndWriting(r, Keys) /\ q.sponsor \in DOMAIN users
        /\ UNCHANGED <<told, untold, load>>
    BY DEF Insert, NewRow
  <1>3. /\ nextId \in Nat /\ nextId > 1 /\ nextId \notin ids /\ nextId \notin DOMAIN users
        /\ DOMAIN users \subseteq ids /\ 0 \notin DOMAIN users
        /\ 1 .. nextId = ids \cup {nextId} /\ nextId' - 1 = nextId
        /\ blind \subseteq Nat \X Keys /\ edited \subseteq Nat
        /\ second \in [ids -> Second] /\ sponsor \in [ids -> Nat] /\ felled \in [ids -> Nat]
    BY <1>0, <1>2 DEF DirectoryTypeOK, Administrator
  <1>4. /\ DOMAIN users' = DOMAIN users \cup {nextId} /\ users'[nextId] = q.want
        /\ \A i \in DOMAIN users : users'[i] = users[i]
    BY <1>2, <1>3 DEF With
  <1>5. sponsor'[nextId] = q.sponsor /\ \A i \in ids : sponsor'[i] = sponsor[i] /\ felled'[i] = felled[i]
    BY <1>2, <1>3 DEF With
  <1>6. second' \in [1 .. nextId -> Second] /\ sponsor' \in [1 .. nextId -> Nat] /\ felled' \in [1 .. nextId -> Nat]
    <2>. HIDE DEF q
    <2>1. nextId > 0 /\ 0 \in Nat
      BY <1>3
    <2>2. second' \in [1 .. nextId -> Second]
      BY <1>1, <1>2, <1>3, <2>1, WithIds
    <2>3. sponsor' \in [1 .. nextId -> Nat]
      BY <1>1, <1>2, <1>3, <2>1, WithIds
    <2>4. felled' \in [1 .. nextId -> Nat]
      BY <1>2, <1>3, <2>1, WithIds DEF Nobody
    <2>. QED
      BY <2>2, <2>3, <2>4
  <1>7. /\ req' \in [Requests -> Request]
        /\ \A p \in Requests : Bounded(req'[p]) /\ FreshIn(users', req'[p])
        /\ \A p \in Requests : req'[p].id = 0 \/ req'[p].id = req[p].id
        /\ \A p \in Requests \ {r} : req'[p].pc = req[p].pc /\ req'[p].id = req[p].id
    BY <1>2, WriteKeepsFresh
  <1>8. DirectoryTypeOK'
    <2>1. \A i \in DOMAIN users' : users'[i] \in Row
      BY <1>0, <1>1, <1>4 DEF DirectoryTypeOK
    <2>2. \A p \in Requests : req'[p].id < nextId'
      <3>1. \A p \in Requests : req[p].id < nextId /\ req[p].id \in Nat
        BY <1>0, RequestFields DEF DirectoryTypeOK
      <3>2. \A p \in Requests : req'[p].id < nextId /\ req'[p].id \in Nat
        BY <1>3, <1>7, <3>1, RequestFields
      <3>. QED
        BY <1>2, <1>3, <3>2
    <2>3. blind' \subseteq Nat \X Keys /\ edited' \subseteq Nat
      BY <1>1, <1>2, <1>3
    <2>4. nextId' \in Nat /\ nextId' > 1 /\ DOMAIN users' \subseteq 1 .. nextId
      BY <1>2, <1>3, <1>4
    <2>5. told' \subseteq Nat /\ untold' \subseteq Nat /\ load' \in Nat
      BY <1>0, <1>2 DEF DirectoryTypeOK
    <2>. HIDE DEF q, ids
    <2>. QED
      BY <1>3, <1>6, <1>7, <2>1, <2>2, <2>3, <2>4, <2>5 DEF DirectoryTypeOK, Administrator
  <1>9. NoOrphans'
    <2>1. \A i \in DOMAIN users : Exists(sponsor[i]) /\ i \in ids
      BY <1>0, <1>3 DEF NoOrphans
    <2>2. \A i \in DOMAIN users' : sponsor'[i] \in DOMAIN users' \cup {Nobody}
      BY <1>2, <1>4, <1>5, <2>1 DEF Exists
    <2>. QED
      BY <2>2 DEF NoOrphans, Exists
  <1>10. UniqueWhereLooked'
    <2>1. Looked(q) = Keys /\ Self(q) = 0
      BY <1>0 DEF Looked, Self, Nobody
    <2>2. \A k \in Keys : q.want[k] \notin {Null, Empty} =>
            <<nextId, k>> \in blind' \/ \A j \in DOMAIN users \ {nextId} : users[j][k] # q.want[k]
      BY <1>0, <1>2, <1>3, <2>1 DEF FreshIn
    <2>3. \A j, k : <<j, k>> \in blind => <<j, k>> \in blind'
      BY <1>2
    <2>4. Rewritten(nextId, Keys, q.want, users', blind')
      BY <1>4, <2>2, <2>3 DEF Rewritten
    <2>5. DistinctIn(users', blind')
      BY <1>0, <2>4, LooksKeepUnique
    <2>. QED
      BY <2>5 DEF DistinctIn, UniqueWhereLooked
  <1>11. GoneAccountedFor'
    <2>1. SUFFICES ASSUME Administrator \in DOMAIN users', NEW i \in 1 .. nextId \ DOMAIN users'
                   PROVE  \/ felled'[i] \in told' \cup untold'
                          \/ \E p \in Requests : req'[p].pc = "log" /\ req'[p].id = felled'[i]
      BY <1>3 DEF GoneAccountedFor
    <2>2. i \in ids \ DOMAIN users /\ felled'[i] = felled[i] /\ Administrator \in DOMAIN users
      BY <1>3, <1>4, <1>5, <2>1 DEF Administrator
    <2>3. \/ felled[i] \in told \cup untold
          \/ \E p \in Requests : req[p].pc = "log" /\ req[p].id = felled[i]
      BY <2>2 DEF DirectoryInv, GoneAccountedFor
    <2>4. \A p \in Requests : req[p].pc = "log" => req'[p].pc = "log" /\ req'[p].id = req[p].id
      BY <1>0, <1>7
    <2>. QED
      BY <1>2, <2>2, <2>3, <2>4
  <1>. QED
    BY <1>7, <1>8, <1>9, <1>10, <1>11 DEF DirectoryInv

LEMMA WriteKeeps ==
  ASSUME DirectoryInv, NEW r \in Requests, Write(r)
  PROVE  DirectoryInv'
  <1>. DEFINE q == req[r]
              i == q.id
              ks == q.dirty \cap Keys
              new == [k \in Keys |-> IF k \in q.dirty THEN q.want[k] ELSE users[i][k]]
              on == IF "on" \in q.dirty THEN q.second.on ELSE second[i].on
              secret == IF "secret" \in q.dirty THEN q.second.secret ELSE second[i].secret
              p == IF "sponsor" \in q.dirty THEN q.sponsor ELSE sponsor[i]
  <1>0. /\ DirectoryTypeOK /\ q \in Request /\ q.op \in {"update", "profile"} /\ q.pc = "checked"
        /\ FreshIn(users, q) /\ Bounded(q) /\ UniqueWhereLooked /\ NoOrphans
        /\ i \in DOMAIN users /\ ("sponsor" \in q.dirty => Exists(q.sponsor))
    BY DEF DirectoryInv, DirectoryTypeOK, Write
  <1>1. q.want \in Row /\ q.second \in Second /\ q.sponsor \in Nat /\ ks \in SUBSET Keys
    BY <1>0, RequestFields
  <1>2. /\ users' = [users EXCEPT ![i] = new]
        /\ second' = [second EXCEPT ![i] = [on |-> on, secret |-> secret]]
        /\ sponsor' = [sponsor EXCEPT ![i] = p]
        /\ blind' = (blind \ ({i} \X ks)) \cup ({i} \X (ks \cap q.missed))
        /\ edited' \in {edited, edited \cup {i}}
        /\ EndWriting(r, ks)
        /\ UNCHANGED <<nextId, told, untold, felled, load>>
    BY DEF Write
  <1>3. i \in Nat /\ i \in 1 .. nextId - 1 /\ users[i] \in Row /\ second[i] \in Second /\ sponsor[i] \in Nat
    BY <1>0, UserFacts
  <1>4. new \in Row /\ \A k \in Keys : new[k] = IF k \in q.dirty THEN q.want[k] ELSE users[i][k]
    BY <1>1, <1>3 DEF Row, Keys
  <1>5. [on |-> on, secret |-> secret] \in Second
    <2>1. /\ q.second.on \in BOOLEAN /\ second[i].on \in BOOLEAN
          /\ q.second.secret \in Nat \cup Given \cup {Empty}
          /\ second[i].secret \in Nat \cup Given \cup {Empty}
      BY <1>1, <1>3 DEF Second
    <2>2. on \in BOOLEAN
      <3>1. CASE "on" \in q.dirty
        BY <2>1, <3>1, Zenon
      <3>2. CASE "on" \notin q.dirty
        BY <2>1, <3>2, Zenon
      <3>. QED
        BY <3>1, <3>2
    <2>3. secret \in Nat \cup Given \cup {Empty}
      BY <2>1
    <2>. HIDE DEF on, secret
    <2>. QED
      BY <2>2, <2>3, Zenon DEF Second
  <1>6. \A k \in ks \ q.missed : new[k] \notin {Null, Empty} =>
          \A j \in DOMAIN users \ {i} : users[j][k] # new[k]
    <2>1. ks \ q.missed \subseteq Looked(q) /\ Self(q) = i
      BY <1>0 DEF Bounded, Looked, Self, Keys
    <2>. QED
      BY <1>0, <1>4, <2>1 DEF FreshIn
  <1>7. p \in Nat /\ Exists(p)
    BY <1>0, <1>1, <1>3 DEF NoOrphans
  <1>. DEFINE sec == [on |-> on, secret |-> secret]
  <1>8. sec \in Second /\ second' = [second EXCEPT ![i] = sec]
    BY <1>2, <1>5
  <1>9. \A k \in Keys \ ks : new[k] = users[i][k]
    BY <1>4
  <1>. HIDE DEF new, on, secret, p, sec, ks
  <1>10. /\ DOMAIN users' = DOMAIN users /\ users'[i] = new
         /\ \A j \in DOMAIN users \ {i} : users'[j] = users[j]
    BY <1>0, <1>2
  <1>11. \A j \in DOMAIN users' : \A k \in Keys \ ks : j \in DOMAIN users /\ users'[j][k] = users[j][k]
    BY <1>9, <1>10
  <1>12. /\ req' \in [Requests -> Request]
         /\ \A x \in Requests : Bounded(req'[x]) /\ FreshIn(users', req'[x])
         /\ \A x \in Requests : req'[x].id = 0 \/ req'[x].id = req[x].id
         /\ \A x \in Requests \ {r} : req'[x].pc = req[x].pc /\ req'[x].id = req[x].id
    BY <1>1, <1>2, <1>11, WriteKeepsFresh
  <1>13. DirectoryTypeOK'
    <2>1. \A j \in DOMAIN users' : users'[j] \in Row
      BY <1>0, <1>4, <1>10 DEF DirectoryTypeOK
    <2>2. blind' \subseteq Nat \X Keys /\ edited' \subseteq Nat
      BY <1>0, <1>1, <1>2, <1>3 DEF DirectoryTypeOK
    <2>3. \A x \in Requests : req'[x].id < nextId
      BY <1>0, <1>12 DEF DirectoryTypeOK, Administrator
    <2>4. second' \in [1 .. nextId - 1 -> Second] /\ sponsor' \in [1 .. nextId - 1 -> Nat]
      BY <1>0, <1>2, <1>7, <1>8 DEF DirectoryTypeOK
    <2>. HIDE DEF q, i
    <2>. QED
      BY <1>0, <1>2, <1>10, <1>12, <2>1, <2>2, <2>3, <2>4 DEF DirectoryTypeOK
  <1>14. NoOrphans'
    <2>1. sponsor'[i] = p /\ \A j \in DOMAIN users \ {i} : sponsor'[j] = sponsor[j]
      BY <1>0, <1>2, <1>3, UserFacts DEF DirectoryTypeOK
    <2>2. \A j \in DOMAIN users : sponsor'[j] \in DOMAIN users \cup {Nobody}
      BY <1>0, <1>7, <2>1 DEF NoOrphans, Exists
    <2>. QED
      BY <1>10, <2>2 DEF NoOrphans, Exists
  <1>15. GoneAccountedFor'
    <2>1. \A x \in Requests : req[x].pc = "log" => req'[x].pc = "log" /\ req'[x].id = req[x].id
      BY <1>0, <1>12
    <2>. HIDE DEF q, i
    <2>. QED
      BY <1>2, <1>10, <2>1 DEF DirectoryInv, GoneAccountedFor
  <1>16. UniqueWhereLooked'
    <2>1. /\ \A j \in DOMAIN users' \ {i} : j \in DOMAIN users /\ users'[j] = users[j]
          /\ users'[i] = new
          /\ \A k \in Keys \ ks : i \in DOMAIN users /\ new[k] = users[i][k]
      BY <1>0, <1>9, <1>10
    <2>2. \A k \in ks : new[k] \notin {Null, Empty} =>
            <<i, k>> \in blind' \/ \A j \in DOMAIN users \ {i} : users[j][k] # new[k]
      BY <1>2, <1>6
    <2>3. \A j, k : (j # i \/ k \notin ks) /\ <<j, k>> \in blind => <<j, k>> \in blind'
      BY <1>2
    <2>. HIDE DEF i, q
    <2>4. Rewritten(i, ks, new, users', blind')
      BY <2>1, <2>2, <2>3, Zenon DEF Rewritten
    <2>5. DistinctIn(users', blind')
      BY <1>0, <2>4, LooksKeepUnique
    <2>. QED
      BY <2>5 DEF DistinctIn, UniqueWhereLooked
  <1>. QED
    BY <1>12, <1>13, <1>14, <1>15, <1>16 DEF DirectoryInv

\* Who is left after a deletion refers to someone left.
LEMMA CascadeClosed ==
  ASSUME NoOrphans, NEW e, NEW j \in DOMAIN users \ Cascade(e)
  PROVE  sponsor[j] \in (DOMAIN users \ Cascade(e)) \cup {Nobody}
  <1>1. SUFFICES ASSUME sponsor[j] # Nobody, sponsor[j] \in Cascade(e)
                 PROVE  j \in Cascade(e)
    BY DEF NoOrphans, Exists
  <1>2. e \in DOMAIN users /\ \A S \in SUBSET DOMAIN users : e \in S /\ ReferralsIn(S) => sponsor[j] \in S
    BY <1>1 DEF Cascade
  <1>3. ASSUME NEW S \in SUBSET DOMAIN users, e \in S, ReferralsIn(S)
        PROVE  j \in S
    BY <1>2, <1>3 DEF ReferralsIn
  <1>. QED
    BY <1>2, <1>3 DEF Cascade

LEMMA DeleteRowKeeps ==
  ASSUME DirectoryInv, NEW r \in Requests, DeleteRow(r)
  PROVE  DirectoryInv'
  <1>. DEFINE q == req[r]
              gone == Cascade(q.id)
              left == DOMAIN users \ gone
              new == [q EXCEPT !.pc = "log"]
  <1>0. DirectoryTypeOK /\ NoOrphans /\ q \in Request /\ q.op = "delete" /\ q.pc = "found" /\ q.id \in Nat
    BY RequestFields DEF DirectoryInv, DirectoryTypeOK, DeleteRow
  <1>1. /\ users' = [i \in left |-> users[i]]
        /\ felled' = [i \in 1 .. nextId - 1 |-> IF i \in gone THEN q.id ELSE felled[i]]
        /\ told' = IF Administrator \in DOMAIN users' THEN told ELSE {}
        /\ req' = [req EXCEPT ![r] = new]
        /\ UNCHANGED <<second, sponsor, nextId, untold, blind, edited, load>>
    BY <1>0 DEF DeleteRow, DirectoryTypeOK
  <1>2. new \in Request /\ new.op = "delete" /\ new.pc = "log" /\ new.id = q.id
    BY <1>0 DEF Request
  <1>3. gone \subseteq DOMAIN users
    BY DEF Cascade
  <1>4. \A i \in left : sponsor[i] \in left \cup {Nobody}
    BY <1>0, CascadeClosed
  <1>. HIDE DEF new, gone
  <1>5. DOMAIN users' = left /\ \A j \in left : users'[j] = users[j] /\ j \in DOMAIN users
    BY <1>1
  <1>6. /\ req' \in [Requests -> Request] /\ req'[r] = new
        /\ \A p \in Requests \ {r} : req'[p] = req[p]
    BY <1>0, <1>1, <1>2 DEF DirectoryTypeOK
  <1>7. DirectoryTypeOK'
    <2>1. \A p \in Requests : req'[p].id < nextId
      BY <1>0, <1>2, <1>6 DEF DirectoryTypeOK
    <2>2. \A j \in DOMAIN users' : users'[j] \in Row
      BY <1>0, <1>5 DEF DirectoryTypeOK
    <2>3. DOMAIN users' \subseteq 1 .. nextId - 1 /\ told' \subseteq Nat
      BY <1>0, <1>1, <1>5 DEF DirectoryTypeOK
    <2>4. felled' \in [1 .. nextId - 1 -> Nat]
      BY <1>0, <1>1 DEF DirectoryTypeOK
    <2>. HIDE DEF q, left
    <2>. QED
      BY <1>0, <1>1, <1>6, <2>1, <2>2, <2>3, <2>4 DEF DirectoryTypeOK
  <1>8. ASSUME NEW p \in Requests PROVE Bounded(req'[p]) /\ FreshIn(users', req'[p])
    <2>1. CASE p = r
      BY <1>2, <1>6, <2>1 DEF Bounded, FreshIn, Looked
    <2>2. CASE p # r
      <3>1. req'[p] = req[p] /\ Bounded(req[p]) /\ FreshIn(users, req[p])
        BY <1>6, <2>2 DEF DirectoryInv
      <3>. HIDE DEF left, q
      <3>. QED
        BY <1>5, <3>1 DEF FreshIn
    <2>. QED
      BY <2>1, <2>2
  <1>9. UniqueWhereLooked'
    <2>. HIDE DEF left, q
    <2>. QED
      BY <1>1, <1>5 DEF DirectoryInv, UniqueWhereLooked
  <1>10. NoOrphans'
    BY <1>1, <1>4, <1>5 DEF NoOrphans, Exists
  <1>11. GoneAccountedFor'
    <2>1. SUFFICES ASSUME Administrator \in left, NEW i \in 1 .. nextId - 1 \ left
                   PROVE  \/ felled'[i] \in told \cup untold
                          \/ \E p \in Requests : req'[p].pc = "log" /\ req'[p].id = felled'[i]
      BY <1>1, <1>5 DEF GoneAccountedFor
    <2>2. CASE i \in gone
      <3>1. felled'[i] = q.id
        BY <1>1, <2>1, <2>2
      <3>. QED
        BY <1>2, <1>6, <3>1
    <2>3. CASE i \notin gone
      <3>1. felled'[i] = felled[i] /\ i \notin DOMAIN users /\ Administrator \in DOMAIN users
        BY <1>1, <2>1, <2>3
      <3>2. \/ felled[i] \in told \cup untold
            \/ \E p \in Requests : req[p].pc = "log" /\ req[p].id = felled[i]
        BY <2>1, <3>1 DEF DirectoryInv, GoneAccountedFor
      <3>3. \A p \in Requests : req[p].pc = "log" => req'[p] = req[p]
        BY <1>0, <1>6
      <3>. QED
        BY <3>1, <3>2, <3>3
    <2>. QED
      BY <2>2, <2>3
  <1>. QED
    BY <1>6, <1>7, <1>8, <1>9, <1>10, <1>11 DEF DirectoryInv

\* The end of a deletion, with its log entry or without.
LEMMA LogOrDieKeeps ==
  ASSUME DirectoryInv, NEW r \in Requests, End(r), req[r].pc = "log",
         UNCHANGED <<users, second, sponsor, nextId, felled, blind, edited, load>>,
         told \subseteq told', untold \subseteq untold', told' \subseteq Nat, untold' \subseteq Nat,
         Administrator \in DOMAIN users => req[r].id \in told' \cup untold'
  PROVE  DirectoryInv'
  <1>1. DirectoryTypeOK /\ nextId \in Nat /\ nextId > 0
    BY DEF DirectoryInv, DirectoryTypeOK, Administrator
  <1>2. req' \in [Requests -> Request] /\ req'[r] = Idle /\ \A q \in Requests \ {r} : req'[q] = req[q]
    BY <1>1, EndFacts
  <1>3. DirectoryTypeOK'
    BY <1>1, <1>2, IdleFacts DEF DirectoryTypeOK
  <1>4. (\A q \in Requests : Bounded(req[q]) /\ FreshIn(users, req[q]))'
    BY <1>2, IdleFacts DEF DirectoryInv
  <1>5. UniqueWhereLooked' /\ NoOrphans'
    BY DEF DirectoryInv, UniqueWhereLooked, NoOrphans, Exists
  <1>6. GoneAccountedFor'
    <2>1. SUFFICES ASSUME Administrator \in DOMAIN users, NEW i \in 1 .. nextId - 1 \ DOMAIN users
                   PROVE  \/ felled[i] \in told' \cup untold'
                          \/ \E p \in Requests : req'[p].pc = "log" /\ req'[p].id = felled[i]
      BY DEF GoneAccountedFor
    <2>2. CASE felled[i] \in told \cup untold
      BY <2>2
    <2>3. ASSUME NEW p \in Requests, req[p].pc = "log", req[p].id = felled[i]
          PROVE  \/ felled[i] \in told' \cup untold'
                 \/ \E s \in Requests : req'[s].pc = "log" /\ req'[s].id = felled[i]
      BY <1>2, <2>1, <2>3
    <2>. QED
      BY <2>1, <2>2, <2>3 DEF DirectoryInv, GoneAccountedFor
  <1>. QED
    BY <1>3, <1>4, <1>5, <1>6 DEF DirectoryInv

LEMMA DirectoryKept == DirectoryInv /\ [DirectoryNext]_directoryVars => DirectoryInv'
  <1>. SUFFICES ASSUME DirectoryInv, [DirectoryNext]_directoryVars PROVE DirectoryInv'
    OBVIOUS
  <1>1. CASE UNCHANGED directoryVars
    BY <1>1 DEF directoryVars, notes, DirectoryInv, DirectoryTypeOK, UniqueWhereLooked,
                NoOrphans, Exists, GoneAccountedFor
  <1>2. ASSUME NEW r \in Requests, BeginAny(r) PROVE DirectoryInv'
    BY <1>2, BeginCreateKeeps, BeginUpdateKeeps, BeginProfileKeeps, FindModelKeeps DEF BeginAny
  <1>3. ASSUME NEW r \in Requests, Create(r) PROVE DirectoryInv'
    <2>1. CASE InsertRefused(r)
      BY <2>1, EndQuietly DEF InsertRefused
    <2>. QED
      BY <1>3, <2>1, CheckCreateKeeps, InsertKeeps DEF Create
  <1>4. ASSUME NEW r \in Requests, Edit(r) PROVE DirectoryInv'
    <2>1. CASE WriteNothing(r)
      BY <2>1, EndQuietly DEF WriteNothing
    <2>. QED
      BY <1>4, <2>1, CheckUpdateKeeps, CheckProfileKeeps, WriteKeeps DEF Edit
  <1>5. ASSUME NEW r \in Requests, req[r].pc = "log" PROVE req[r].id \in Nat /\ told \subseteq Nat /\ untold \subseteq Nat
    BY RequestFields DEF DirectoryInv, DirectoryTypeOK
  <1>6. ASSUME NEW r \in Requests, Delete(r) PROVE DirectoryInv'
    <2>1. CASE WriteDeletionLog(r)
      <3>1. req[r].pc = "log" /\ End(r)
            /\ UNCHANGED <<users, second, sponsor, nextId, untold, felled, blind, edited, load>>
        BY <2>1 DEF WriteDeletionLog
      <3>2. told \subseteq told' /\ told' \subseteq Nat
            /\ (Administrator \in DOMAIN users => req[r].id \in told')
        BY <1>5, <2>1, <3>1 DEF WriteDeletionLog
      <3>. QED
        BY <1>5, <3>1, <3>2, LogOrDieKeeps
    <2>. QED
      BY <1>6, <2>1, DeleteRowKeeps DEF Delete
  <1>7. ASSUME NEW r \in Requests, Die(r) PROVE DirectoryInv'
    <2>0. End(r) /\ UNCHANGED <<users, second, sponsor, nextId, told, felled, blind, edited, load>>
      BY <1>7 DEF Die
    <2>1. CASE req[r].pc = "log"
      <3>1. untold' = untold \cup {req[r].id}
        BY <1>7, <2>1 DEF Die
      <3>. QED
        BY <1>5, <2>0, <2>1, <3>1, LogOrDieKeeps
    <2>2. CASE req[r].pc # "log"
      <3>1. untold' = untold
        BY <1>7, <2>2 DEF Die
      <3>. QED
        BY <2>0, <2>2, <3>1, EndQuietly DEF notes
    <2>. QED
      BY <2>1, <2>2
  <1>. QED
    BY <1>1, <1>2, <1>3, <1>4, <1>6, <1>7 DEF DirectoryNext

(* Two-factor authentication. *)

\* The users of whom nothing is claimed: a form wrote their second factor, or
\* a call of theirs died with its secret saved.
Excused == torn \cup edited

\* What holds of a browser's session st and call c while its users have the
\* second factors sec, d secrets were drawn and the users t are excused: the
\* session's secret is no row's until it is saved, so that it is among what a
\* request writes.
Good(sec, st, c, d, t) ==
  /\ st = NoSetup \/ (st.secret \in 1 .. d /\ st.user \in DOMAIN sec)
  /\ c.pc # "idle" => c.user \in DOMAIN sec
  /\ c.pc \in {"enable", "end"} => st # NoSetup /\ c.user = st.user
  /\ st # NoSetup /\ st.user \notin t /\ c.pc # "end" => sec[st.user].secret # st.secret
  /\ c.pc = "enable" /\ c.user \notin t => c.old.secret # st.secret
  /\ c.pc = "enable" /\ ~c.crossed => sec[c.user] = c.old
  /\ c.pc = "end" /\ ~c.crossed => sec[c.user] = [on |-> TRUE, secret |-> st.secret]

\* A secret was drawn, and a flag has one.
Kept(sec, d, t) ==
  \A u \in DOMAIN sec \ t : sec[u].secret \in 0 .. d /\ (sec[u].on => sec[u].secret # 0)

\* No two sessions were shown the same secret.
OwnSecret ==
  \A a, b \in Browsers :
    a # b /\ setup[a] # NoSetup /\ setup[b] # NoSetup => setup[a].secret # setup[b].secret

SecondTyped == second \in [1 .. nextId - 1 -> Second]

TwoFactorInv ==
  /\ TwoFactorTypeOK /\ SecondTyped
  /\ Kept(second, drawn, Excused)
  /\ OwnSecret
  /\ \A b \in Browsers : Good(second, setup[b], call[b], drawn, Excused)

LEMMA SecondFacts ==
  /\ Off \in Second /\ ~Off.on /\ Off.secret = 0
  /\ Null \in Values
  /\ NoSetup \in [user : Nat, secret : Nat]
  BY RowFacts, ValuesFacts DEF NoSetup

LEMMA RestingFacts == Resting \in Call /\ Resting.pc = "idle"
  <1>1. FALSE \in BOOLEAN
    BY Zenon
  <1>. QED
    BY <1>1, SecondFacts DEF Resting, Call

LEMMA CallFields ==
  ASSUME NEW c \in Call
  PROVE  /\ c.pc \in {"idle", "enable", "end", "disable"} /\ c.user \in Nat
         /\ c.old \in Second /\ c.mobile \in Values /\ c.crossed \in BOOLEAN
  BY DEF Call

LEMMA SecondFields ==
  ASSUME NEW s \in Second
  PROVE  s.on \in BOOLEAN /\ s.secret \in Nat \cup Given \cup {Empty}
  BY DEF Second

LEMMA TwoFactorStart == DirectoryInit /\ TwoFactorInit => TwoFactorInv
  <1>. SUFFICES ASSUME DirectoryInit, TwoFactorInit PROVE TwoFactorInv
    OBVIOUS
  <1>1. DOMAIN second = {1} /\ second = [i \in {1} |-> Off] /\ drawn = 0 /\ 1 .. nextId - 1 = {1}
    BY DEF DirectoryInit, TwoFactorInit, Administrator
  <1>2. \A b \in Browsers : setup[b] = NoSetup /\ call[b] = Resting
    BY DEF TwoFactorInit
  <1>3. TwoFactorTypeOK /\ SecondTyped
    BY <1>1, SecondFacts, RestingFacts DEF TwoFactorInit, TwoFactorTypeOK, SecondTyped
  <1>4. Kept(second, drawn, Excused) /\ OwnSecret
    BY <1>1, <1>2, SecondFacts DEF Kept, OwnSecret
  <1>5. \A b \in Browsers : Good(second, setup[b], call[b], drawn, Excused)
    BY <1>2, RestingFacts DEF Good
  <1>. QED
    BY <1>3, <1>4, <1>5 DEF TwoFactorInv

\* A step that leaves the second factors alone and changes at most browser b.
LEMMA CallStep ==
  ASSUME TwoFactorInv, NEW b \in Browsers, UNCHANGED <<second, nextId, edited>>,
         NEW st \in [user : Nat, secret : Nat], NEW c \in Call,
         setup' = [setup EXCEPT ![b] = st], call' = [call EXCEPT ![b] = c],
         drawn' \in Nat, drawn <= drawn', torn \subseteq torn', torn' \subseteq Nat,
         Good(second, st, c, drawn', Excused'),
         \A a \in Browsers \ {b} : st # NoSetup /\ setup[a] # NoSetup => setup[a].secret # st.secret
  PROVE  TwoFactorInv'
  <1>1. setup'[b] = st /\ call'[b] = c
        /\ \A a \in Browsers \ {b} : setup'[a] = setup[a] /\ call'[a] = call[a]
    BY DEF TwoFactorInv, TwoFactorTypeOK
  <1>2. TwoFactorTypeOK' /\ SecondTyped'
    BY DEF TwoFactorInv, TwoFactorTypeOK, SecondTyped
  <1>3. Excused \subseteq Excused'
    BY DEF Excused
  <1>4. Kept(second', drawn', Excused')
    <2>1. Kept(second, drawn, Excused) /\ drawn \in Nat
      BY DEF TwoFactorInv, TwoFactorTypeOK
    <2>2. \A u \in DOMAIN second \ Excused' : second[u].secret \in 0 .. drawn'
      BY <1>3, <2>1 DEF Kept
    <2>3. \A u \in DOMAIN second \ Excused' : second[u].on => second[u].secret # 0
      BY <1>3, <2>1 DEF Kept
    <2>. QED
      BY <2>2, <2>3 DEF Kept
  <1>5. OwnSecret'
    BY <1>1 DEF TwoFactorInv, OwnSecret
  <1>6. ASSUME NEW a \in Browsers PROVE Good(second', setup'[a], call'[a], drawn', Excused')
    <2>1. CASE a = b
      BY <1>1, <2>1
    <2>2. CASE a # b
      <3>1. Good(second, setup[a], call[a], drawn, Excused) /\ drawn \in Nat /\ drawn' \in Nat
            /\ setup[a] \in [user : Nat, secret : Nat]
        BY DEF TwoFactorInv, TwoFactorTypeOK
      <3>2. Good(second, setup[a], call[a], drawn', Excused')
        BY <1>3, <3>1 DEF Good
      <3>. QED
        BY <1>1, <2>2, <3>2
    <2>. QED
      BY <2>1, <2>2
  <1>. QED
    BY <1>2, <1>4, <1>5, <1>6 DEF TwoFactorInv

\* A call that gives up, or dies, its user's secret saved or not.
LEMMA GiveUp ==
  ASSUME TwoFactorInv, NEW b \in Browsers, UNCHANGED <<second, nextId, edited, setup, drawn>>,
         call' = [call EXCEPT ![b] = Resting], torn \subseteq torn', torn' \subseteq Nat,
         call[b].pc = "end" => call[b].user \in torn'
  PROVE  TwoFactorInv'
  <1>1. /\ setup[b] \in [user : Nat, secret : Nat] /\ drawn \in Nat
        /\ setup' = [setup EXCEPT ![b] = setup[b]]
        /\ Good(second, setup[b], call[b], drawn, Excused)
    BY DEF TwoFactorInv, TwoFactorTypeOK
  <1>2. Good(second, setup[b], Resting, drawn, Excused')
    BY <1>1, RestingFacts DEF Good, Excused
  <1>3. \A a \in Browsers \ {b} : setup[b] # NoSetup /\ setup[a] # NoSetup => setup[a].secret # setup[b].secret
    BY DEF TwoFactorInv, OwnSecret
  <1>4. Resting \in Call /\ drawn' \in Nat /\ drawn <= drawn' /\ Good(second, setup[b], Resting, drawn', Excused')
    BY <1>1, <1>2, RestingFacts
  <1>. QED
    BY <1>1, <1>3, <1>4, CallStep, Zenon

\* A save of a secret that no session was shown, but the own.
LEMMA SaveStep ==
  ASSUME TwoFactorInv, NEW b \in Browsers, NEW new \in Second, NEW next \in Call,
         Save(b, new, next), UNCHANGED <<nextId, edited, setup, drawn, torn>>,
         call[b].pc \in {"enable", "disable"},
         call[b].user \notin Excused => new.secret \in 0 .. drawn /\ (new.on => new.secret # 0),
         \A a \in Browsers \ {b} :
           setup[a] # NoSetup /\ setup[a].user = call[b].user /\ call[b].user \notin Excused /\ call[a].pc # "end"
             => setup[a].secret # new.secret,
         Good([second EXCEPT ![call[b].user] = new], setup[b], next, drawn, Excused)
  PROVE  TwoFactorInv'
  <1>. DEFINE u == call[b].user
  <1>0. /\ second \in [1 .. nextId - 1 -> Second] /\ setup \in [Browsers -> [user : Nat, secret : Nat]]
        /\ call \in [Browsers -> Call] /\ drawn \in Nat /\ torn \subseteq Nat
        /\ Good(second, setup[b], call[b], drawn, Excused) /\ Excused' = Excused
    BY DEF TwoFactorInv, TwoFactorTypeOK, SecondTyped, Excused
  <1>1. u \in DOMAIN second
    BY <1>0 DEF Good
  <1>2. CASE ~(u \in DOMAIN users /\ second[u] # new)
    BY <1>0, <1>2, GiveUp DEF Save
  <1>3. CASE u \in DOMAIN users /\ second[u] # new
    <2>. DEFINE mark(a) == [call[a] EXCEPT !.crossed = @ \/ (call[a].pc # "idle" /\ call[a].user = u)]
    <2>1. second' = [second EXCEPT ![u] = new]
          /\ call' = [a \in Browsers |-> IF a = b THEN next ELSE mark(a)]
      BY <1>3 DEF Save
    <2>2. ASSUME NEW a \in Browsers
          PROVE  /\ mark(a).pc = call[a].pc /\ mark(a).user = call[a].user
                 /\ mark(a).old = call[a].old /\ mark(a).mobile = call[a].mobile
                 /\ mark(a).crossed = (call[a].crossed \/ (call[a].pc # "idle" /\ call[a].user = u))
                 /\ mark(a) \in Call
      <3>1. call[a] \in Call
        BY <1>0
      <3>2. (call[a].crossed \/ (call[a].pc # "idle" /\ call[a].user = u)) \in BOOLEAN
        BY Zenon
      <3>. DEFINE x == call[a].crossed \/ (call[a].pc # "idle" /\ call[a].user = u)
      <3>3. mark(a) = [call[a] EXCEPT !.crossed = x]
        OBVIOUS
      <3>4. x \in BOOLEAN
        BY <3>2
      <3>. HIDE DEF x
      <3>5. /\ mark(a).pc = call[a].pc /\ mark(a).user = call[a].user
            /\ mark(a).old = call[a].old /\ mark(a).mobile = call[a].mobile
            /\ mark(a).crossed = x /\ mark(a) \in Call
        BY <3>1, <3>3, <3>4 DEF Call
      <3>. QED
        BY <3>5 DEF x
    <2>. HIDE DEF mark
    <2>3. /\ call' \in [Browsers -> Call] /\ call'[b] = next
          /\ \A a \in Browsers \ {b} : call'[a] = mark(a)
      BY <2>1, <2>2
    <2>4. /\ second' \in [1 .. nextId - 1 -> Second] /\ DOMAIN second' = DOMAIN second /\ second'[u] = new
          /\ \A v \in DOMAIN second \ {u} : second'[v] = second[v]
      BY <1>0, <1>1, <2>1
    <2>5. TwoFactorTypeOK' /\ SecondTyped'
      BY <1>0, <2>3, <2>4 DEF TwoFactorTypeOK, SecondTyped
    <2>6. Kept(second', drawn', Excused')
      <3>1. Kept(second, drawn, Excused)
        BY DEF TwoFactorInv
      <3>2. ASSUME NEW v \in DOMAIN second' \ Excused
            PROVE  second'[v].secret \in 0 .. drawn /\ (second'[v].on => second'[v].secret # 0)
        <4>1. CASE v = u
          BY <2>4, <4>1
        <4>2. CASE v # u
          BY <2>4, <3>1, <4>2 DEF Kept
        <4>. QED
          BY <4>1, <4>2
      <3>. QED
        BY <1>0, <3>2 DEF Kept
    <2>7. OwnSecret'
      BY DEF TwoFactorInv, OwnSecret
    <2>8. ASSUME NEW a \in Browsers PROVE Good(second', setup'[a], call'[a], drawn', Excused')
      <3>1. CASE a = b
        BY <1>0, <2>1, <2>3, <3>1
      <3>2. CASE a # b
        <4>0. Good(second, setup[a], call[a], drawn, Excused) /\ call'[a] = mark(a)
          BY <2>3, <3>2 DEF TwoFactorInv
        <4>1. CASE call[a].pc # "idle" /\ call[a].user = u
          <5>1. mark(a).crossed
            BY <2>2, <4>1
          <5>. HIDE DEF u
          <5>. QED
            BY <1>0, <2>2, <2>4, <3>2, <4>0, <4>1, <5>1 DEF Good, u
        <4>2. CASE ~(call[a].pc # "idle" /\ call[a].user = u)
          <5>1. call[a] \in Call
            BY <1>0
          <5>2. mark(a).crossed = call[a].crossed
            BY <2>2, <4>2, <5>1, CallFields, Zenon
          <5>. QED
            BY <1>0, <2>2, <2>4, <3>2, <4>0, <4>2, <5>2 DEF Good
        <4>. QED
          BY <4>1, <4>2
      <3>. QED
        BY <3>1, <3>2
    <2>. QED
      BY <2>5, <2>6, <2>7, <2>8 DEF TwoFactorInv
  <1>. QED
    BY <1>2, <1>3

LEMMA BrowserFacts ==
  ASSUME TwoFactorInv, NEW b \in Browsers
  PROVE  /\ setup[b] \in [user : Nat, secret : Nat] /\ call[b] \in Call
         /\ drawn \in Nat /\ torn \subseteq Nat
         /\ Good(second, setup[b], call[b], drawn, Excused)
         /\ \A a \in Browsers \ {b} :
              setup[b] # NoSetup /\ setup[a] # NoSetup => setup[a].secret # setup[b].secret
         /\ \A v \in DOMAIN second : second[v] \in Second
         /\ setup = [setup EXCEPT ![b] = setup[b]] /\ call = [call EXCEPT ![b] = call[b]]
  BY DEF TwoFactorInv, TwoFactorTypeOK, SecondTyped, OwnSecret

LEMMA ProfileKeeps ==
  ASSUME TwoFactorInv, NEW b \in Browsers, NEW u \in DOMAIN second, u \in Nat, Profile(b, u),
         UNCHANGED <<nextId, edited>>
  PROVE  TwoFactorInv'
  <1>. DEFINE st == [user |-> u, secret |-> drawn + 1]
  <1>1. /\ call[b] = Resting /\ setup' = [setup EXCEPT ![b] = st] /\ drawn' = drawn + 1
        /\ UNCHANGED <<second, call, torn, nextId, edited>>
    BY DEF Profile
  <1>2. drawn \in Nat /\ st \in [user : Nat, secret : Nat] /\ st.user = u /\ st.secret = drawn + 1
        /\ st # NoSetup
    BY BrowserFacts DEF NoSetup
  <1>3. u \notin Excused => second[u].secret # drawn + 1
    BY <1>2 DEF TwoFactorInv, Kept
  <1>4. \A a \in Browsers : setup[a] # NoSetup => setup[a].secret # drawn + 1
    <2>1. ASSUME NEW a \in Browsers, setup[a] # NoSetup PROVE setup[a].secret \in 1 .. drawn
      BY <2>1 DEF TwoFactorInv, Good
    <2>. QED
      BY <1>2, <2>1
  <1>. HIDE DEF st
  <1>5. Good(second, st, Resting, drawn', Excused')
    BY <1>1, <1>2, <1>3, RestingFacts DEF Good, Excused
  <1>6. call' = [call EXCEPT ![b] = Resting] /\ Resting \in Call /\ torn' = torn /\ torn' \subseteq Nat
        /\ drawn' \in Nat /\ drawn <= drawn'
    BY <1>1, <1>2, BrowserFacts, RestingFacts
  <1>7. \A a \in Browsers \ {b} : st # NoSetup /\ setup[a] # NoSetup => setup[a].secret # st.secret
    BY <1>2, <1>4
  <1>. QED
    BY <1>1, <1>2, <1>5, <1>6, <1>7, CallStep

\* The session forgets its secret.
LEMMA Forget ==
  ASSUME TwoFactorInv, NEW b \in Browsers, UNCHANGED <<second, nextId, edited, drawn, torn>>,
         setup' = [setup EXCEPT ![b] = NoSetup], call' = [call EXCEPT ![b] = Resting]
  PROVE  TwoFactorInv'
  <1>1. Good(second, NoSetup, Resting, drawn', Excused')
    BY RestingFacts DEF Good
  <1>2. drawn \in Nat /\ drawn' \in Nat /\ drawn <= drawn' /\ torn \subseteq torn' /\ torn' \subseteq Nat
    BY BrowserFacts
  <1>. QED
    BY <1>1, <1>2, SecondFacts, RestingFacts, CallStep

\* A call that loads its user.
LEMMA BeginKeeps ==
  ASSUME TwoFactorInv, NEW b \in Browsers, NEW u \in DOMAIN second, u \in Nat, users[u]["mobile"] \in Values,
         NEW pc \in {"enable", "disable"}, BeginCall(b, u, pc), UNCHANGED <<nextId, edited>>,
         pc = "enable" => setup[b] # NoSetup /\ setup[b].user = u
  PROVE  TwoFactorInv'
  <1>. DEFINE c == [pc |-> pc, user |-> u, old |-> second[u], mobile |-> users[u]["mobile"], crossed |-> FALSE]
  <1>1. call[b] = Resting /\ call' = [call EXCEPT ![b] = c] /\ UNCHANGED <<second, setup, drawn, torn>>
    BY DEF BeginCall
  <1>2. c.pc = pc /\ c.user = u /\ c.old = second[u] /\ c.mobile = users[u]["mobile"]
    OBVIOUS
  <1>3. second[u] \in Second /\ FALSE \in BOOLEAN
    BY BrowserFacts, Zenon
  <1>4. c \in Call
    BY <1>3 DEF Call
  <1>. HIDE DEF c
  <1>5. Good(second, setup[b], call[b], drawn, Excused)
    BY BrowserFacts
  <1>6. Good(second, setup[b], c, drawn', Excused')
    BY <1>1, <1>2, <1>5, RestingFacts DEF Good, Excused
  <1>7. setup' = [setup EXCEPT ![b] = setup[b]] /\ drawn \in Nat /\ drawn' \in Nat /\ drawn <= drawn'
        /\ torn \subseteq torn' /\ torn' \subseteq Nat /\ setup[b] \in [user : Nat, secret : Nat]
    BY <1>1, BrowserFacts
  <1>8. \A a \in Browsers \ {b} : setup[b] # NoSetup /\ setup[a] # NoSetup => setup[a].secret # setup[b].secret
    BY BrowserFacts
  <1>. QED
    BY <1>1, <1>4, <1>6, <1>7, <1>8, CallStep, Zenon

LEMMA SaveEnableKeeps ==
  ASSUME TwoFactorInv, NEW b \in Browsers, SaveEnable(b), UNCHANGED <<nextId, edited>>
  PROVE  TwoFactorInv'
  <1>. DEFINE c == call[b]
              u == c.user
              new == [on |-> ~c.old.on \/ second[u].on,
                      secret |-> IF c.old.secret # setup[b].secret THEN setup[b].secret ELSE second[u].secret]
              next == [c EXCEPT !.pc = "end"]
  <1>0. /\ setup[b] \in [user : Nat, secret : Nat] /\ c \in Call /\ drawn \in Nat /\ torn \subseteq Nat
        /\ Good(second, setup[b], c, drawn, Excused) /\ c.pc = "enable"
    BY BrowserFacts DEF SaveEnable
  <1>1. Save(b, new, next) /\ UNCHANGED <<nextId, edited, setup, drawn, torn>>
    BY DEF SaveEnable
  <1>2. /\ setup[b] # NoSetup /\ setup[b].secret \in 1 .. drawn /\ setup[b].user = u
        /\ u \in DOMAIN second /\ (u \notin Excused => c.old.secret # setup[b].secret)
        /\ (~c.crossed => second[u] = c.old)
    BY <1>0 DEF Good
  <1>3. /\ next \in Call /\ next.pc = "end" /\ next.user = u /\ next.old = c.old
        /\ next.crossed = c.crossed
    BY <1>0 DEF Call
  <1>4. second[u] \in Second /\ second[u].secret \in Nat \cup Given \cup {Empty}
    BY <1>2, BrowserFacts, SecondFields
  <1>5. new.on = (~c.old.on \/ second[u].on)
        /\ new.secret = IF c.old.secret # setup[b].secret THEN setup[b].secret ELSE second[u].secret
    OBVIOUS
  <1>6. new \in Second
    <2>1. (~c.old.on \/ second[u].on) \in BOOLEAN
      BY Zenon
    <2>2. (IF c.old.secret # setup[b].secret THEN setup[b].secret ELSE second[u].secret)
            \in Nat \cup Given \cup {Empty}
      BY <1>2, <1>4, <1>0
    <2>. QED
      BY <2>1, <2>2, Zenon DEF Second
  <1>7. ~c.crossed => new = [on |-> TRUE, secret |-> setup[b].secret]
    <2>1. SUFFICES ASSUME ~c.crossed PROVE new = [on |-> TRUE, secret |-> setup[b].secret]
      OBVIOUS
    <2>2. second[u] = c.old
      BY <1>2, <2>1
    <2>3. (~c.old.on \/ second[u].on) = TRUE
      <3>1. c.old.on \in BOOLEAN
        BY <1>4, <2>2, SecondFields
      <3>. QED
        BY <2>2, <3>1, Zenon
    <2>4. (IF c.old.secret # setup[b].secret THEN setup[b].secret ELSE second[u].secret) = setup[b].secret
      BY <2>2
    <2>. QED
      BY <2>3, <2>4, Zenon
  <1>8. u \notin Excused => new.secret = setup[b].secret /\ new.secret \in 1 .. drawn
    BY <1>0, <1>2, <1>4, <1>5
  <1>9. \A a \in Browsers \ {b} : setup[a] # NoSetup => setup[a].secret # setup[b].secret
    BY <1>2, BrowserFacts
  <1>. HIDE DEF new, next, c
  <1>10. Good([second EXCEPT ![u] = new], setup[b], next, drawn, Excused)
    BY <1>0, <1>2, <1>3, <1>7 DEF Good
  <1>. QED
    BY <1>0, <1>1, <1>3, <1>6, <1>8, <1>9, <1>10, SaveStep DEF c

LEMMA SaveDisableKeeps ==
  ASSUME TwoFactorInv, NEW b \in Browsers, SaveDisable(b), UNCHANGED <<nextId, edited>>
  PROVE  TwoFactorInv'
  <1>. DEFINE c == call[b]
              u == c.user
              new == [on |-> FALSE, secret |-> IF c.old.secret # 0 THEN 0 ELSE second[u].secret]
  <1>0. /\ setup[b] \in [user : Nat, secret : Nat] /\ c \in Call /\ drawn \in Nat
        /\ Good(second, setup[b], c, drawn, Excused) /\ c.pc = "disable"
    BY BrowserFacts DEF SaveDisable
  <1>1. Save(b, new, Resting) /\ UNCHANGED <<nextId, edited, setup, drawn, torn>>
    BY DEF SaveDisable
  <1>2. u \in DOMAIN second
    BY <1>0 DEF Good
  <1>3. second[u].secret \in Nat \cup Given \cup {Empty} /\ (u \notin Excused => second[u].secret \in 0 .. drawn)
    BY <1>2, BrowserFacts, SecondFields DEF TwoFactorInv, Kept
  <1>4. /\ ~new.on /\ new.secret \in {0, second[u].secret} /\ new.secret \in Nat \cup Given \cup {Empty}
        /\ u \notin Excused => new.secret \in 0 .. drawn
    BY <1>0, <1>3
  <1>5. new \in Second
    <2>1. FALSE \in BOOLEAN
      BY Zenon
    <2>. QED
      BY <1>4, <2>1 DEF Second
  <1>6. ASSUME NEW a \in Browsers,
               setup[a] # NoSetup, setup[a].user = u, u \notin Excused, call[a].pc # "end"
        PROVE  setup[a].secret # new.secret
    <2>1. setup[a].secret \in 1 .. drawn /\ second[u].secret # setup[a].secret
      BY <1>6, BrowserFacts DEF Good
    <2>. QED
      BY <1>0, <1>4, <2>1
  <1>. HIDE DEF new
  <1>7. Good([second EXCEPT ![u] = new], setup[b], Resting, drawn, Excused)
    <2>1. setup[b] # NoSetup /\ setup[b].user = u /\ u \notin Excused => new.secret # setup[b].secret
      BY <1>0, <1>6
    <2>. HIDE DEF c
    <2>2. setup[b] = NoSetup \/ (setup[b].secret \in 1 .. drawn /\ setup[b].user \in DOMAIN second)
      BY <1>0 DEF Good
    <2>3. setup[b] # NoSetup /\ setup[b].user \notin Excused => second[setup[b].user].secret # setup[b].secret
      BY <1>0 DEF Good
    <2>. QED
      BY <2>1, <2>2, <2>3, <1>2, RestingFacts DEF Good
  <1>. QED
    BY <1>0, <1>1, <1>4, <1>5, <1>6, <1>7, RestingFacts, SaveStep

\* What a request does to the second factors: it changes only those of the
\* users that a form wrote, and new users have it off.
LEMMA SecondChanges ==
  ASSUME DirectoryTypeOK, DirectoryNext
  PROVE  /\ edited \subseteq edited' /\ DOMAIN second \subseteq DOMAIN second'
         /\ \A v \in DOMAIN second \ edited' : second'[v] = second[v]
         /\ \A v \in DOMAIN second' \ (DOMAIN second \cup edited') : second'[v] = Off
  <1>1. PICK r \in Requests : BeginAny(r) \/ Create(r) \/ Edit(r) \/ Delete(r) \/ Die(r)
    BY DEF DirectoryNext
  <1>2. CASE UNCHANGED <<second, edited>>
    BY <1>2
  <1>3. CASE Insert(r)
    <2>1. /\ second' = With(second, 1 .. nextId - 1, req[r].second)
          /\ edited' = IF req[r].second = Off THEN edited ELSE edited \cup {nextId}
      BY <1>3 DEF Insert, NewRow
    <2>2. DOMAIN second = 1 .. nextId - 1 /\ nextId \notin DOMAIN second
      BY DEF DirectoryTypeOK
    <2>3. /\ DOMAIN second' = DOMAIN second \cup {nextId} /\ second'[nextId] = req[r].second
          /\ \A v \in DOMAIN second : second'[v] = second[v]
      BY <2>1, <2>2 DEF With
    <2>. QED
      BY <2>1, <2>3
  <1>4. CASE Write(r)
    <2>. DEFINE i == req[r].id
                dirty == req[r].dirty
                on == IF "on" \in dirty THEN req[r].second.on ELSE second[i].on
                secret == IF "secret" \in dirty THEN req[r].second.secret ELSE second[i].secret
                sec == [on |-> on, secret |-> secret]
    <2>1. /\ second' = [second EXCEPT ![i] = sec] /\ i \in DOMAIN users
          /\ edited' = IF dirty \cap {"on", "secret"} = {} THEN edited ELSE edited \cup {i}
      BY <1>4 DEF Write
    <2>2. second[i] \in Second /\ i \in DOMAIN second
      BY <2>1, UserFacts DEF DirectoryTypeOK
    <2>3. ASSUME dirty \cap {"on", "secret"} = {} PROVE sec = second[i]
      <3>1. on = second[i].on /\ secret = second[i].secret
        BY <2>3, Zenon
      <3>. HIDE DEF on, secret
      <3>. QED
        BY <2>2, <3>1, Zenon DEF Second
    <2>. HIDE DEF sec, dirty, i
    <2>. QED
      BY <2>1, <2>2, <2>3
  <1>5. CASE ~Insert(r) /\ ~Write(r)
    <2>1. CASE BeginAny(r)
      <3>. DEFINE quiet == second' = second /\ edited' = edited
      <3>1. ASSUME NEW q, Begin(r, q) PROVE quiet
        BY <3>1 DEF Begin, notes
      <3>. HIDE DEF quiet
      <3>2. ASSUME NEW i, BeginCreate(r, i) PROVE quiet
        BY <3>1, <3>2 DEF BeginCreate
      <3>3. ASSUME NEW i, BeginUpdate(r, i) PROVE quiet
        BY <3>1, <3>3 DEF BeginUpdate
      <3>4. ASSUME NEW i, NEW m, BeginProfile(r, i, m) PROVE quiet
        BY <3>1, <3>4 DEF BeginProfile
      <3>5. ASSUME NEW i, FindModel(r, i) PROVE quiet
        BY <3>1, <3>5 DEF FindModel
      <3>6. quiet
        BY <2>1, <3>2, <3>3, <3>4, <3>5 DEF BeginAny
      <3>. QED
        BY <1>2, <3>6 DEF quiet
    <2>2. CASE Create(r)
      BY <1>2, <1>5, <2>2 DEF Create, CheckCreate, InsertRefused, notes
    <2>3. CASE Edit(r)
      BY <1>2, <1>5, <2>3 DEF Edit, CheckUpdate, CheckProfile, WriteNothing, notes
    <2>4. CASE Delete(r)
      BY <1>2, <2>4 DEF Delete, DeleteRow, WriteDeletionLog
    <2>5. CASE Die(r)
      BY <1>2, <2>5 DEF Die
    <2>. QED
      BY <1>1, <2>1, <2>2, <2>3, <2>4, <2>5
  <1>. QED
    BY <1>3, <1>4, <1>5

\* Requests excuse the users whose second factor they change, and the calls
\* take note of it.
LEMMA CrossKeeps ==
  ASSUME TwoFactorInv, Cross, UNCHANGED <<setup, drawn, torn>>, SecondTyped',
         edited \subseteq edited', DOMAIN second \subseteq DOMAIN second',
         \A v \in DOMAIN second \ edited' : second'[v] = second[v],
         \A v \in DOMAIN second' \ (DOMAIN second \cup edited') : second'[v] = Off
  PROVE  TwoFactorInv'
  <1>. DEFINE x(b) == call[b].crossed \/ (call[b].pc # "idle" /\ second'[call[b].user] # second[call[b].user])
  <1>1. Excused \subseteq Excused' /\ edited' \subseteq Excused'
    BY DEF Excused
  <1>2. ASSUME NEW b \in Browsers
        PROVE  /\ call'[b] \in Call /\ call'[b].pc = call[b].pc /\ call'[b].user = call[b].user
               /\ call'[b].old = call[b].old
               /\ ~call'[b].crossed => ~call[b].crossed
                    /\ (call[b].pc # "idle" => second'[call[b].user] = second[call[b].user])
    <2>1. call'[b] = [call[b] EXCEPT !.crossed = x(b)] /\ call[b] \in Call
      BY BrowserFacts DEF Cross
    <2>2. x(b) \in BOOLEAN
      BY Zenon
    <2>. DEFINE y == x(b)
    <2>3. y \in BOOLEAN /\ call'[b] = [call[b] EXCEPT !.crossed = y]
      BY <2>1, <2>2
    <2>. HIDE DEF y
    <2>4. /\ call'[b] \in Call /\ call'[b].pc = call[b].pc /\ call'[b].user = call[b].user
          /\ call'[b].old = call[b].old /\ call'[b].crossed = y
      BY <2>1, <2>3 DEF Call
    <2>5. ~y => ~call[b].crossed /\ (call[b].pc # "idle" => second'[call[b].user] = second[call[b].user])
      BY Zenon DEF y
    <2>. QED
      BY <2>4, <2>5, Zenon
  <1>3. TwoFactorTypeOK' /\ OwnSecret'
    <2>1. call' \in [Browsers -> Call]
      BY <1>2 DEF Cross
    <2>. QED
      BY <2>1 DEF TwoFactorInv, TwoFactorTypeOK, OwnSecret
  <1>4. Kept(second', drawn', Excused')
    <2>1. Kept(second, drawn, Excused) /\ drawn \in Nat
      BY DEF TwoFactorInv, TwoFactorTypeOK
    <2>2. ASSUME NEW v \in DOMAIN second' \ Excused'
          PROVE  second'[v].secret \in 0 .. drawn /\ (second'[v].on => second'[v].secret # 0)
      <3>1. CASE v \in DOMAIN second
        BY <1>1, <2>1, <2>2, <3>1 DEF Kept
      <3>2. CASE v \notin DOMAIN second
        <4>1. second'[v] = Off
          BY <1>1, <2>2, <3>2
        <4>. QED
          BY <2>1, <4>1, SecondFacts
      <3>. QED
        BY <3>1, <3>2
    <2>. QED
      BY <2>2 DEF Kept
  <1>5. ASSUME NEW b \in Browsers PROVE Good(second', setup'[b], call'[b], drawn', Excused')
    <2>1. Good(second, setup[b], call[b], drawn, Excused)
      BY BrowserFacts
    <2>. DEFINE c == call'[b]
                now == second'
                t == Excused'
    <2>2. \A v \in DOMAIN second : v \in DOMAIN now /\ (v \notin t => now[v] = second[v])
      BY <1>1
    <2>3. /\ c.pc = call[b].pc /\ c.user = call[b].user /\ c.old = call[b].old
          /\ ~c.crossed => ~call[b].crossed /\ (call[b].pc # "idle" => now[call[b].user] = second[call[b].user])
      BY <1>2
    <2>4. Excused \subseteq t
      BY <1>1
    <2>. HIDE DEF c, now, t
    <2>5. Good(now, setup[b], c, drawn, t)
      BY <2>1, <2>2, <2>3, <2>4 DEF Good
    <2>. QED
      BY <2>5 DEF c, now, t
  <1>. QED
    BY <1>3, <1>4, <1>5 DEF TwoFactorInv

LEMMA TwoFactorKept ==
  ASSUME DirectoryInv, TwoFactorInv, TwoFactorStep
  PROVE  TwoFactorInv'
  <1>1. UNCHANGED <<nextId, edited>>
    BY DEF TwoFactorStep, notes
  <1>2. \A u \in DOMAIN users : u \in DOMAIN second /\ u \in Nat /\ users[u]["mobile"] \in Values
    <2>1. \A u \in DOMAIN users : u \in Nat /\ u > 0 /\ u < nextId /\ users[u] \in Row /\ u \in DOMAIN second
      BY UserFacts DEF DirectoryInv, DirectoryTypeOK
    <2>. QED
      BY <2>1 DEF Row, Keys
  <1>. SUFFICES ASSUME NEW b \in Browsers,
                       \/ \E u \in DOMAIN users : Profile(b, u) \/ DisableTwofactor(b, u)
                       \/ ExpireSetup(b) \/ EnableTwofactor(b) \/ SaveEnable(b) \/ EndEnable(b)
                       \/ SaveDisable(b) \/ DisableRefused(b) \/ DieCalling(b)
                PROVE  TwoFactorInv'
    BY DEF TwoFactorStep, TwoFactorNext
  <1>3. ASSUME NEW u \in DOMAIN users, Profile(b, u) PROVE TwoFactorInv'
    BY <1>1, <1>2, <1>3, ProfileKeeps
  <1>4. ASSUME NEW u \in DOMAIN users, DisableTwofactor(b, u) PROVE TwoFactorInv'
    <2>1. BeginCall(b, u, "disable")
      BY <1>4 DEF DisableTwofactor
    <2>. QED
      BY <1>1, <1>2, <2>1, BeginKeeps
  <1>5. CASE ExpireSetup(b)
    <2>1. call' = [call EXCEPT ![b] = Resting] /\ setup' = [setup EXCEPT ![b] = NoSetup]
          /\ UNCHANGED <<second, drawn, torn>>
      BY <1>5, BrowserFacts DEF ExpireSetup
    <2>. QED
      BY <1>1, <2>1, Forget
  <1>6. CASE EnableTwofactor(b)
    <2>1. setup[b] # NoSetup /\ BeginCall(b, setup[b].user, "enable") /\ setup[b].user \in DOMAIN users
      BY <1>6 DEF EnableTwofactor, BeginCall
    <2>. QED
      BY <1>1, <1>2, <2>1, BeginKeeps
  <1>7. CASE EndEnable(b)
    BY <1>1, <1>7, Forget DEF EndEnable
  <1>8. CASE DisableRefused(b)
    <2>1. torn \subseteq Nat
      BY BrowserFacts
    <2>. QED
      BY <1>1, <1>8, <2>1, GiveUp DEF DisableRefused
  <1>9. CASE DieCalling(b)
    <2>1. torn' = (IF call[b].pc = "end" THEN torn \cup {call[b].user} ELSE torn) /\ call[b].user \in Nat
          /\ torn \subseteq Nat
      BY <1>9, BrowserFacts, CallFields DEF DieCalling
    <2>. QED
      BY <1>1, <1>9, <2>1, GiveUp DEF DieCalling
  <1>. QED
    BY <1>1, <1>3, <1>4, <1>5, <1>6, <1>7, <1>8, <1>9, SaveEnableKeeps, SaveDisableKeeps

LEMMA LoadKept == ASSUME DirectoryInv, TwoFactorStep, SecondTyped' PROVE DirectoryInv'
  <1>1. load \in Nat
    BY DEF DirectoryInv, DirectoryTypeOK
  <1>2. load' \in Nat
    BY <1>1 DEF TwoFactorStep, TwoFactorNext, Profile, ExpireSetup, EnableTwofactor, DisableTwofactor,
                BeginCall, SaveEnable, EndEnable, SaveDisable, DisableRefused, DieCalling
  <1>3. UNCHANGED <<users, sponsor, nextId, req, told, untold, felled, blind, edited>>
    BY DEF TwoFactorStep, notes
  <1>4. DirectoryTypeOK'
    BY <1>2, <1>3 DEF DirectoryInv, DirectoryTypeOK, SecondTyped
  <1>5. (\A r \in Requests : Bounded(req[r]) /\ FreshIn(users, req[r]))'
    BY <1>3 DEF DirectoryInv
  <1>. QED
    BY <1>3, <1>4, <1>5 DEF DirectoryInv, UniqueWhereLooked, NoOrphans, Exists, GoneAccountedFor

(* The theorems. *)

\* The users, the requests that write them and what they found, and the
\* browsers with their secrets, together.
AccountsInv == DirectoryInv /\ TwoFactorInv

LEMMA AccountsStart == Init => AccountsInv
  BY DirectoryStart, TwoFactorStart DEF Init, AccountsInv

LEMMA AccountsKept == AccountsInv /\ [Next]_accountVars => AccountsInv'
  <1>. SUFFICES ASSUME AccountsInv, [Next]_accountVars PROVE AccountsInv'
    OBVIOUS
  <1>0. DirectoryInv /\ TwoFactorInv
    BY DEF AccountsInv
  <1>1. CASE DirectoryStep
    <2>1. DirectoryNext /\ Cross /\ UNCHANGED <<setup, drawn, torn>>
      BY <1>1 DEF DirectoryStep
    <2>2. DirectoryInv'
      BY <1>0, <2>1, DirectoryKept
    <2>3. SecondTyped' /\ DirectoryTypeOK
      BY <1>0, <2>2 DEF DirectoryInv, DirectoryTypeOK, SecondTyped
    <2>4. TwoFactorInv'
      BY <1>0, <2>1, <2>3, SecondChanges, CrossKeeps
    <2>. QED
      BY <2>2, <2>4 DEF AccountsInv
  <1>2. CASE TwoFactorStep
    <2>1. TwoFactorInv'
      BY <1>0, <1>2, TwoFactorKept
    <2>2. DirectoryInv'
      BY <1>0, <1>2, <2>1, LoadKept DEF TwoFactorInv
    <2>. QED
      BY <2>1, <2>2 DEF AccountsInv
  <1>3. CASE UNCHANGED accountVars
    <2>1. UNCHANGED directoryVars
      BY <1>3 DEF accountVars
    <2>2. DirectoryInv'
      BY <1>0, <2>1, DirectoryKept
    <2>3. TwoFactorInv'
      BY <1>0, <1>3 DEF accountVars, directoryVars, notes, twoFactorVars, TwoFactorInv, TwoFactorTypeOK,
                        SecondTyped, OwnSecret, Excused
    <2>. QED
      BY <2>2, <2>3 DEF AccountsInv
  <1>. QED
    BY <1>1, <1>2, <1>3 DEF Next

\* The conjunction of what follows and of what it rests on.
THEOREM AccountsAlways == Spec => []AccountsInv
  BY AccountsStart, AccountsKept, PTL DEF Spec

\* The users table, its requests and the browsers stay what they are taken for.
THEOREM TypeCorrect == Spec => []TypeOK
  <1>1. AccountsInv => TypeOK
    BY DEF AccountsInv, DirectoryInv, TwoFactorInv, TypeOK
  <1>. QED
    BY <1>1, AccountsAlways, PTL

\* Whatever requests are under way and wherever they die, and whichever columns
\* edits change: two users share a name or a number only where a request wrote
\* one beside another that wrote the same column between the look and the
\* write, and a referral code only so or where an edit wrote it.
THEOREM LooksSuffice == Spec => []UniqueWhereLooked
  <1>1. AccountsInv => UniqueWhereLooked
    BY DEF AccountsInv, DirectoryInv
  <1>. QED
    BY <1>1, AccountsAlways, PTL

\* Whoever is there has the sponsor there, however edits move sponsors about
\* and deletions take whoever was referred along.
THEOREM SponsorsThere == Spec => []NoOrphans
  <1>1. AccountsInv => NoOrphans
    BY DEF AccountsInv, DirectoryInv
  <1>. QED
    BY <1>1, AccountsAlways, PTL

\* While the administrator is there every user who is gone is accounted for
\* by a log entry, one to come or a death, if only of the deletion of another
\* with whom this one went.
THEOREM DeletionsLogged == Spec => []GoneAccountedFor
  <1>1. AccountsInv => GoneAccountedFor
    BY DEF AccountsInv, DirectoryInv
  <1>. QED
    BY <1>1, AccountsAlways, PTL

\* No meeting of requests and calls leaves a user to be asked for a code
\* without a secret, unless a form wrote that user's second factor or a call
\* died between its two writes.
THEOREM NeverLockedOut == Spec => []FlagHasSecret
  <1>1. ASSUME AccountsInv PROVE FlagHasSecret
    <2>1. DOMAIN users \subseteq DOMAIN second
      BY <1>1, UserFacts DEF AccountsInv, DirectoryInv, TwoFactorInv, SecondTyped
    <2>2. Kept(second, drawn, Excused) /\ drawn \in Nat
      BY <1>1 DEF AccountsInv, TwoFactorInv, TwoFactorTypeOK
    <2>3. ASSUME NEW u \in DOMAIN users \ (torn \cup edited), second[u].on
          PROVE  second[u].secret \notin NoSecret
      <3>1. second[u].secret \in 0 .. drawn /\ second[u].secret # 0
        BY <2>1, <2>2, <2>3 DEF Kept, Excused
      <3>. QED
        BY <2>2, <3>1, DirectoryOK DEF NoSecret
    <2>. QED
      BY <2>3 DEF FlagHasSecret
  <1>. QED
    BY <1>1, AccountsAlways, PTL

\* Who is told that it is on, with nobody changing it meanwhile, has it on with
\* the secret that was shown.
THEOREM EnabledAsTold == Spec => []EnabledIsOn
  <1>1. ASSUME AccountsInv PROVE EnabledIsOn
    BY <1>1 DEF AccountsInv, TwoFactorInv, Good, EnabledIsOn
  <1>. QED
    BY <1>1, AccountsAlways, PTL
=============================================================================
