------------------------------ MODULE LoanPage ------------------------------
(* web/frontend/js/script.js in the page with the loan form: the form and    *)
(* the title of the tab, until the page is replaced.                         *)
EXTENDS TabTitle, LoanForm

pageVars == <<titleVars, formVars>>

Init == TitleInit /\ FormInit

TitleStep == ~gone /\ TitleNext /\ UNCHANGED formVars
FormStep == FormNext /\ UNCHANGED titleVars

Next == TitleStep \/ FormStep

Spec ==
  /\ Init /\ [][Next]_pageVars
  /\ WF_pageVars(~gone /\ Ticking /\ UNCHANGED formVars)
  /\ WF_pageVars(GoNextForm /\ UNCHANGED titleVars)
  /\ WF_pageVars(CheckDone /\ UNCHANGED titleVars)

------------------------------------------------------------------------------
TypeOK == TitleTypeOK /\ FormTypeOK

\* A page that stays hidden goes round all the teasers for as long as it is
\* there, whatever its form is waiting for.
TeasersGoRound ==
  \A k \in 1 .. Teasers : <>[](hidden /\ ~gone) => []<>(title = k)
=============================================================================
