----------------------------- MODULE TwoFactor -----------------------------
(* Switching two-factor authentication on and off.                           *)
(*                                                                           *)
(* The profile page puts a secret into the PHP session; a code made with it  *)
(* moves it to the user's row.  A request writes the columns that differ     *)
(* from the row it loaded, and switching off first validates the user.  One  *)
(* user may be signed in with several browsers; the requests of one browser  *)
(* wait for the lock of its session.                                         *)
EXTENDS UserDirectory

CONSTANTS
  Browsers,
  MaxSecrets   \* bound: secrets drawn; a call of this module loads 3

ASSUME TwoFactorOK == MaxSecrets \in Nat

VARIABLES
  setup,    \* google_secret of each session, and whose it is
  call,     \* what each browser's request is doing
  drawn,    \* secrets drawn so far; 0 is none
  torn      \* users one of whose requests died with its secret saved

twoFactorVars == <<setup, call, drawn, torn>>

NoSetup == [user |-> 0, secret |-> 0]
Resting == [pc |-> "idle", user |-> 0, old |-> Off, mobile |-> Null, crossed |-> FALSE]
Call ==
  [pc : {"idle", "enable", "end", "disable"},
   user : Nat,
   old : Second, mobile : Values,   \* as loaded
   crossed : BOOLEAN]               \* another request changed these columns

TwoFactorTypeOK ==
  /\ setup \in [Browsers -> [user : Nat, secret : Nat]]
  /\ call \in [Browsers -> Call]
  /\ drawn \in Nat
  /\ torn \subseteq Nat

TwoFactorInit ==
  /\ setup = [b \in Browsers |-> NoSetup]
  /\ call = [b \in Browsers |-> Resting]
  /\ drawn = 0
  /\ torn = {}

------------------------------------------------------------------------------
\* The profile page shows the session's secret, drawn if there is none.
Profile(b, u) ==
  /\ call[b] = Resting /\ setup[b] = NoSetup
  /\ u \in DOMAIN users
  /\ drawn < MaxSecrets
  /\ drawn' = drawn + 1
  /\ setup' = [setup EXCEPT ![b] = [user |-> u, secret |-> drawn']]
  /\ UNCHANGED <<second, call, torn, load>>

\* The session of a browser ends.
ExpireSetup(b) ==
  /\ call[b] = Resting /\ setup[b] # NoSetup
  /\ setup' = [setup EXCEPT ![b] = NoSetup]
  /\ UNCHANGED <<second, call, drawn, torn, load>>

BeginCall(b, u, pc) ==
  /\ call[b] = Resting
  /\ u \in DOMAIN users
  /\ load + 3 <= MaxLoad
  /\ load' = load + 3
  /\ call' = [call EXCEPT ![b] = [pc |-> pc, user |-> u, old |-> second[u],
                                  mobile |-> users[u]["mobile"], crossed |-> FALSE]]
  /\ UNCHANGED <<second, setup, drawn, torn>>

\* actionEnableTwofactor, with a code of the session's secret: the user is
\* loaded ...
EnableTwofactor(b) == setup[b] # NoSetup /\ BeginCall(b, setup[b].user, "enable")

\* actionDisableTwofactor: the user is loaded, and has it on.
DisableTwofactor(b, u) ==
  /\ setup[b] = NoSetup \/ setup[b].user = u
  /\ second[u].on
  /\ BeginCall(b, u, "disable")

\* The row of b's user becomes new, which is a success only if it was not so
\* before; b goes on with next.
Save(b, new, next) ==
  LET u == call[b].user
  IN  IF u \in DOMAIN users /\ second[u] # new
        THEN /\ second' = [second EXCEPT ![u] = new]
             /\ call' = [a \in Browsers |->
                           IF a = b THEN next
                             ELSE [call[a] EXCEPT !.crossed = @ \/ (call[a].pc # "idle" /\ call[a].user = u)]]
        ELSE /\ call' = [call EXCEPT ![b] = Resting]
             /\ UNCHANGED second

\* Mutant of SaveEnable: the flag is left out.
SaveEnableSecret(b) ==
  /\ call[b].pc = "enable"
  /\ LET u == call[b].user
     IN  Save(b, [on |-> second[u].on,
                  secret |-> IF call[b].old.secret # setup[b].secret THEN setup[b].secret ELSE second[u].secret],
              [call[b] EXCEPT !.pc = "end"])
  /\ UNCHANGED <<setup, drawn, torn, load>>

\* ... and the columns that differ from the loaded ones are written.
SaveEnable(b) ==
  /\ call[b].pc = "enable"
  /\ LET u == call[b].user
     IN  Save(b, [on |-> ~call[b].old.on \/ second[u].on,
                  secret |-> IF call[b].old.secret # setup[b].secret THEN setup[b].secret ELSE second[u].secret],
              [call[b] EXCEPT !.pc = "end"])
  /\ UNCHANGED <<setup, drawn, torn, load>>

\* The session forgets the secret.
EndEnable(b) ==
  /\ call[b].pc = "end"
  /\ setup' = [setup EXCEPT ![b] = NoSetup]
  /\ call' = [call EXCEPT ![b] = Resting]
  /\ UNCHANGED <<second, drawn, torn, load>>

\* Mutant of SaveDisable: the flag is left out.
SaveDisableSecret(b) ==
  /\ call[b].pc = "disable"
  /\ Free("mobile", call[b].mobile, call[b].user)
  /\ LET u == call[b].user
     IN  Save(b, [second[u] EXCEPT !.secret = 0], Resting)
  /\ UNCHANGED <<setup, drawn, torn, load>>

\* Validated like any update of a user, then written; there is nothing more
\* to do after a success.
SaveDisable(b) ==
  /\ call[b].pc = "disable"
  /\ Free("mobile", call[b].mobile, call[b].user)
  /\ LET u == call[b].user
     IN  Save(b, [on |-> FALSE, secret |-> IF call[b].old.secret # 0 THEN 0 ELSE second[u].secret], Resting)
  /\ UNCHANGED <<setup, drawn, torn, load>>

\* Another user has the same number, or also has none.
DisableRefused(b) ==
  /\ call[b].pc = "disable"
  /\ ~Free("mobile", call[b].mobile, call[b].user)
  /\ call' = [call EXCEPT ![b] = Resting]
  /\ UNCHANGED <<second, setup, drawn, torn, load>>

DieCalling(b) ==
  /\ call[b] # Resting
  /\ call' = [call EXCEPT ![b] = Resting]
  /\ torn' = IF call[b].pc = "end" THEN torn \cup {call[b].user} ELSE torn
  /\ UNCHANGED <<second, setup, drawn, load>>

\* The calls under way take note of what an edit does to their user.
Cross ==
  call' = [b \in Browsers |->
             [call[b] EXCEPT !.crossed =
                @ \/ (call[b].pc # "idle" /\ second'[call[b].user] # second[call[b].user])]]

TwoFactorNext ==
  \E b \in Browsers :
    \/ \E u \in DOMAIN users : Profile(b, u) \/ DisableTwofactor(b, u)
    \/ ExpireSetup(b) \/ EnableTwofactor(b) \/ SaveEnable(b) \/ EndEnable(b)
    \/ SaveDisable(b) \/ DisableRefused(b) \/ DieCalling(b)

------------------------------------------------------------------------------
\* A user who is asked for a code has a secret to make one with, whatever
\* calls of the user's browsers met: only a form may write the flag without the
\* secret, and only if a call died between saving its secret and forgetting it
\* may the flag of one be left without the secret of another.
FlagHasSecret ==
  \A u \in DOMAIN users \ (torn \cup edited) : second[u].on => second[u].secret \notin NoSecret

\* A user who is told that it was switched on has it on, with the secret just
\* shown, unless another changed that after this one loaded the user.
EnabledIsOn ==
  \A b \in Browsers :
    call[b].pc = "end" /\ ~call[b].crossed
      => second[call[b].user] = [on |-> TRUE, secret |-> setup[b].secret]
=============================================================================
