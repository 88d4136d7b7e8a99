------------------------------ MODULE TabTitle ------------------------------
(* The title of a hidden tab.                                                *)
(*                                                                           *)
(* While the page is hidden a chain of promises shows one teaser after the   *)
(* other, each kept for the length of a timeout.  When the page is seen      *)
(* again, clearing one timeout is all that stops the chain.                  *)
EXTENDS Naturals

CONSTANTS
  Teasers,   \* the titles of the array, numbered from 1
  Handles    \* bound: what setTimeout may return

ASSUME TeasersOK == Teasers \in Nat \ {0}

VARIABLES
  hidden,        \* the page is
  changeTitle,
  title,         \* 0 is originalTitle
  timers,        \* timeouts of chains: their handle, the title they keep
  timeoutClear   \* handle of the timeout set last

titleVars == <<hidden, changeTitle, title, timers, timeoutClear>>

Timer == [handle : Handles, keeps : 1 .. Teasers]

TitleTypeOK ==
  /\ hidden \in BOOLEAN /\ changeTitle \in BOOLEAN
  /\ title \in 0 .. Teasers
  /\ timers \subseteq Timer
  /\ timeoutClear \in Handles

------------------------------------------------------------------------------
\* A step of a chain: the title, and a timeout with a new handle.
Tease(k, others) ==
  \E h \in Handles \ ({t.handle : t \in timers} \cup {timeoutClear}) :
    /\ title' = k
    /\ timers' = others \cup {[handle |-> h, keeps |-> k]}
    /\ timeoutClear' = h

\* The state that the first call of onchange leaves.
TitleInit ==
  /\ timeoutClear \in Handles
  /\ \/ /\ hidden = FALSE /\ changeTitle = FALSE
        /\ title = 0 /\ timers = {}
     \/ /\ hidden = TRUE /\ changeTitle = TRUE
        /\ title = 1 /\ timers = {[handle |-> timeoutClear, keeps |-> 1]}

\* onchange, for a page that is hidden: changeTitleName begins a chain.
Hide ==
  /\ ~hidden
  /\ hidden' = TRUE
  /\ changeTitle' = TRUE
  /\ Tease(1, timers)

\* Mutant of Seen: the timeout goes on.
SeenWithoutClear ==
  /\ hidden
  /\ hidden' = FALSE
  /\ changeTitle' = FALSE
  /\ title' = 0
  /\ UNCHANGED <<timers, timeoutClear>>

\* onchange, for a page that is seen again.
Seen ==
  /\ hidden
  /\ hidden' = FALSE
  /\ changeTitle' = FALSE
  /\ timers' = {t \in timers : t.handle # timeoutClear}
  /\ title' = 0
  /\ UNCHANGED timeoutClear

\* Mutant of Expire: a chain that has shown all titles is not begun again.
ExpireOnce(t) ==
  /\ \/ t.keeps < Teasers /\ Tease(t.keeps + 1, timers \ {t})
     \/ /\ t.keeps = Teasers
        /\ timers' = timers \ {t}
        /\ UNCHANGED <<title, timeoutClear>>
  /\ UNCHANGED <<hidden, changeTitle>>

\* A timeout ends: its chain goes on to the next title, or to a new chain.
\* Only a new chain asks whether titles are still to be changed.
Expire(t) ==
  /\ \/ t.keeps < Teasers /\ Tease(t.keeps + 1, timers \ {t})
     \/ /\ t.keeps = Teasers
        /\ IF changeTitle
             THEN Tease(1, timers \ {t})
             ELSE timers' = timers \ {t} /\ UNCHANGED <<title, timeoutClear>>
  /\ UNCHANGED <<hidden, changeTitle>>

Ticking == \E t \in timers : Expire(t)

TitleNext == Hide \/ Seen \/ Ticking

\* Browsers run the timeouts of hidden pages late, but run them.
TitleSpec == TitleInit /\ [][TitleNext]_titleVars /\ WF_titleVars(Ticking)

------------------------------------------------------------------------------
\* A page that is seen has its own title and will keep it: however showing and
\* hiding fell between the steps of a chain, no timeout is left that could put
\* a teaser there.
OwnTitleWhenSeen == ~hidden => title = 0 /\ timers = {}
=============================================================================
