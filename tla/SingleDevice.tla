---------------------------- MODULE SingleDevice ----------------------------
(* What "unique sessions" promises to a member of the site, without saying  *)
(* how: each member has one slot for a device.  The slot is taken only when *)
(* it is free, so the first claim after it was vacated wins, and a page is  *)
(* served to a member only on a session holding the ticket of the slot's    *)
(* holder.  LoginSessions implements this with rows of user_sessions.       *)

CONSTANTS Users, Members, Browsers, Tickets, None

VARIABLES
  slot,     \* slot[u]: the ticket that holds u's slot, or None
  signed,   \* signed[b]: the user b's session is signed in as, or None
  ticket,   \* ticket[b]: the ticket b's session carries, or None
  serving   \* serving[b]: a protected page is being served to b

vars == <<slot, signed, ticket, serving>>

Init ==
  /\ slot = [u \in Users |-> None]
  /\ signed = [b \in Browsers |-> None]
  /\ ticket = [b \in Browsers |-> None]
  /\ serving = [b \in Browsers |-> FALSE]

\* A new login pushes out whoever holds the slot.
Vacate(u) ==
  /\ slot' = [slot EXCEPT ![u] = None]
  /\ UNCHANGED <<signed, ticket, serving>>

\* Only a free slot can be claimed.
Claim(u, t) ==
  /\ slot[u] = None
  /\ slot' = [slot EXCEPT ![u] = t]
  /\ UNCHANGED <<signed, ticket, serving>>

\* A session becomes signed in, or only carries a ticket: nothing is served.
Enter(b) ==
  /\ ~serving[b]
  /\ signed[b] = None
  /\ \E u \in Users \cup {None}, t \in Tickets \cup {None} :
       /\ signed' = [signed EXCEPT ![b] = u]
       /\ ticket' = [ticket EXCEPT ![b] = t]
  /\ UNCHANGED <<slot, serving>>

\* A member is served only with the ticket that holds the slot.
Admit(b, u) ==
  /\ ~serving[b]
  /\ signed[b] \in {u, None}
  /\ u \in Members => slot[u] # None /\ slot[u] = ticket[b]
  /\ serving' = [serving EXCEPT ![b] = TRUE]
  /\ UNCHANGED <<slot, signed, ticket>>

\* The page is done, and the session is signed in or signed out after it.
Finish(b) ==
  /\ serving' = [serving EXCEPT ![b] = FALSE]
  /\ \/ \E u \in Users :
          /\ serving[b]
          /\ signed[b] \in {u, None}
          /\ signed' = [signed EXCEPT ![b] = u]
          /\ ticket' = ticket
     \/ /\ signed' = [signed EXCEPT ![b] = None]
        /\ ticket' = [ticket EXCEPT ![b] = None]
  /\ slot' = slot

Next ==
  \/ \E u \in Users : Vacate(u) \/ \E t \in Tickets : Claim(u, t)
  \/ \E b \in Browsers : Enter(b) \/ Finish(b)
  \/ \E b \in Browsers, u \in Users : Admit(b, u)

Spec == Init /\ [][Next]_vars
=============================================================================
