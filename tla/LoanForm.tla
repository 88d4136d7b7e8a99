------------------------------ MODULE LoanForm ------------------------------
(* The loan form and its script, in one page.                                *)
(*                                                                           *)
(* A click on the button merges the parts of the date into a hidden field,   *)
(* sets timers, and sends a submit event.  yii.activeForm (not in this       *)
(* repository) answers the event by checking the fields; 200 ms later it     *)
(* submits the form again, and only then does the page's own handler read    *)
(* the fields and post them.  Everything is one thread of callbacks, and the *)
(* visitor types and clicks between them.                                    *)
EXTENDS Naturals, Sequences

CONSTANTS
  Parts,      \* the boxes whose values make up a merged field
  Values,     \* what a box may hold
  Blank,
  MaxClicks   \* bound: clicks on the button

ASSUME FormOK == Blank \notin Values /\ MaxClicks \in Nat

VARIABLES
  parts,      \* parts[p]: the value shown in box p
  merged,     \* the hidden field: the values it was made of
  other,      \* the other fields would pass the check
  captcha,    \* the captcha is solved
  label,      \* of the button
  delays,     \* timers of goNextForm, 500 ms after a click
  checks,     \* timers of yii.activeForm: what each check found, oldest first
  validated,  \* yii.activeForm: the form passed a check
  flights,    \* POSTs under way
  loading,    \* "Please wait" covers the form
  gone,       \* the page was replaced by the thank-you page
  clicks,
  handled,    \* submit events that got to the page's handler
  edited,     \* the visitor changed a field since the first pending check
  lost,       \* a POST was lost
  sent        \* of each POST: it would pass, it was the first, edited

formVars == <<parts, merged, other, captcha, label, delays, checks, validated,
              flights, loading, gone, clicks, handled, edited, lost, sent>>
user == <<parts, other, captcha>>
button == <<label, delays>>
network == <<flights, loading, handled, sent>>

Filling == [Parts -> Values \cup {Blank}]
Nothing == [p \in Parts |-> Blank]

FormTypeOK ==
  /\ parts \in Filling /\ merged \in Filling
  /\ other \in BOOLEAN /\ captcha \in BOOLEAN
  /\ label \in {"Submit", "Loading..", "Continue"}
  /\ delays \in Nat
  /\ checks \in Seq(BOOLEAN)
  /\ validated \in BOOLEAN /\ loading \in BOOLEAN /\ gone \in BOOLEAN
  /\ edited \in BOOLEAN /\ lost \in BOOLEAN
  /\ flights \in Nat /\ clicks \in Nat /\ handled \in Nat
  /\ sent \subseteq [ok : BOOLEAN, first : BOOLEAN, edited : BOOLEAN]

FormInit ==
  /\ parts = Nothing /\ merged = Nothing
  /\ other = FALSE /\ captcha = FALSE
  /\ label = "Submit" /\ delays = 0
  /\ checks = <<>> /\ validated = FALSE
  /\ flights = 0 /\ loading = FALSE /\ gone = FALSE
  /\ clicks = 0 /\ handled = 0
  /\ edited = FALSE /\ lost = FALSE
  /\ sent = {}

------------------------------------------------------------------------------
\* The check of yii.activeForm: required fields.  A date with a part missing
\* is not empty.
Passes(date) == other /\ date # Nothing

\* The visitor.

Disturb == edited' = (edited \/ checks # <<>>)

FillPart(p, v) ==
  /\ ~gone
  /\ parts' = [parts EXCEPT ![p] = v]
  /\ Disturb
  /\ UNCHANGED <<merged, other, captcha, button, checks, validated, network, gone, clicks, lost>>

FillOther(good) ==
  /\ ~gone
  /\ other' = good
  /\ Disturb
  /\ UNCHANGED <<parts, merged, captcha, button, checks, validated, network, gone, clicks, lost>>

\* Solved, or run out.
Captcha(solved) ==
  /\ ~gone
  /\ captcha' = solved
  /\ UNCHANGED <<parts, merged, other, button, checks, validated, network, gone, clicks, edited, lost>>

\* Mutant of SubmitHandler: the page is covered before the captcha is asked for.
SubmitHandlerHasty(date) ==
  /\ handled' = handled + 1
  /\ loading' = TRUE
  /\ \/ /\ captcha
        /\ flights' = flights + 1
        /\ sent' = sent \cup {[ok |-> Passes(date), first |-> handled = 0, edited |-> edited]}
     \/ /\ ~captcha
        /\ UNCHANGED <<flights, sent>>

\* Mutant of SubmitHandler: the captcha is asked for when it is there.
SubmitHandlerCaptcha(date) ==
  /\ handled' = handled + 1
  /\ \/ /\ ~captcha
        /\ loading' = TRUE
        /\ flights' = flights + 1
        /\ sent' = sent \cup {[ok |-> Passes(date), first |-> handled = 0, edited |-> edited]}
     \/ /\ captcha
        /\ UNCHANGED <<flights, loading, sent>>

\* The page's handler of submit events: the fields are read and posted, or
\* the visitor is told to solve the captcha.
SubmitHandler(date) ==
  /\ handled' = handled + 1
  /\ \/ /\ captcha
        /\ loading' = TRUE
        /\ flights' = flights + 1
        /\ sent' = sent \cup {[ok |-> Passes(date), first |-> handled = 0, edited |-> edited]}
     \/ /\ ~captcha
        /\ UNCHANGED <<flights, loading, sent>>

\* The handler of clicks: the label, the merged field, a timer.
NextPage ==
  /\ ~gone
  /\ clicks < MaxClicks
  /\ clicks' = clicks + 1
  /\ label' = "Loading.."
  /\ merged' = parts
  /\ delays' = delays + 1

\* The browser sends no submit event: the terms are not ticked.
ClickUnticked ==
  /\ NextPage
  /\ UNCHANGED <<user, checks, validated, network, gone, edited, lost>>

\* yii.activeForm stops the event, checks and sets its timer.
ClickUnchecked ==
  /\ NextPage
  /\ ~validated
  /\ checks' = Append(checks, Passes(merged'))
  /\ edited' = (edited /\ checks # <<>>)
  /\ UNCHANGED <<user, validated, network, gone, lost>>

\* Mutant of ClickValidated: the page's handler is run by the click.
ClickUnvalidated ==
  /\ NextPage
  /\ SubmitHandler(parts)
  /\ UNCHANGED <<user, checks, validated, gone, edited, lost>>

\* yii.activeForm lets an event through once a check was passed.
ClickValidated ==
  /\ NextPage
  /\ validated
  /\ SubmitHandler(parts)
  /\ UNCHANGED <<user, checks, validated, gone, edited, lost>>

\* Mutant of GoNextForm: the label is left alone.
GoNextFormQuietly ==
  /\ ~gone
  /\ delays > 0
  /\ delays' = delays - 1
  /\ UNCHANGED <<user, merged, label, checks, validated, network, gone, clicks, edited, lost>>

\* Mutant of GoNextForm: after the last page it submits the form.
GoNextFormSubmits ==
  /\ ~gone
  /\ delays > 0
  /\ delays' = delays - 1
  /\ label' = "Continue"
  /\ SubmitHandler(merged)
  /\ UNCHANGED <<user, merged, checks, validated, gone, clicks, edited, lost>>

\* Mutant of GoNextForm: it is run for a click that has set no timer.
GoNextFormAnytime ==
  /\ ~gone
  /\ delays' = delays - 1
  /\ label' = "Continue"
  /\ UNCHANGED <<user, merged, checks, validated, network, gone, clicks, edited, lost>>

\* The form has one page: there is no page to go to.
GoNextForm ==
  /\ ~gone
  /\ delays > 0
  /\ delays' = delays - 1
  /\ label' = "Continue"
  /\ UNCHANGED <<user, merged, checks, validated, network, gone, clicks, edited, lost>>

\* The timer of yii.activeForm: a form that passed is submitted again, with
\* the fields as they are now.
CheckDone ==
  /\ ~gone
  /\ checks # <<>>
  /\ checks' = Tail(checks)
  /\ \/ /\ Head(checks)
        /\ validated' = TRUE
        /\ SubmitHandler(merged)
     \/ /\ ~Head(checks)
        /\ UNCHANGED <<validated, network>>
  /\ UNCHANGED <<user, merged, button, gone, clicks, edited, lost>>

\* An answer: whatever it says, its url replaces the page.
Answered ==
  /\ ~gone
  /\ flights > 0
  /\ flights' = flights - 1
  /\ gone' = TRUE
  /\ UNCHANGED <<user, merged, button, checks, validated, loading, handled, clicks, edited, lost, sent>>

\* Nothing, or no JSON, comes back: the script has no callback for that.
LosePost ==
  /\ ~gone
  /\ flights > 0
  /\ flights' = flights - 1
  /\ lost' = TRUE
  /\ UNCHANGED <<user, merged, button, checks, validated, loading, gone, handled, clicks, edited, sent>>

Fill ==
  \/ \E p \in Parts, v \in Values \cup {Blank} : FillPart(p, v)
  \/ \E b \in BOOLEAN : FillOther(b) \/ Captcha(b)
Click == ClickUnticked \/ ClickUnchecked \/ ClickValidated

FormNext == Fill \/ Click \/ GoNextForm \/ CheckDone \/ Answered \/ LosePost

\* Timers run; visitors and the network may do nothing.
FormSpec ==
  FormInit /\ [][FormNext]_formVars /\ WF_formVars(GoNextForm) /\ WF_formVars(CheckDone)

------------------------------------------------------------------------------
\* An application that would not pass the check is posted only if the visitor
\* changed a field while a check was pending, or after the page's handler had
\* run before (yii.activeForm then lets every later click through).
UncheckedOnlyIf == \A s \in sent : s.ok \/ ~s.first \/ s.edited

\* A click posts at most one application, however clicks, checks and timers
\* overlap.
OnePerClick == handled + Len(checks) <= clicks

\* "Please wait" is shown while an answer is awaited, or for ever after a POST
\* was lost, but never without a POST.
WaitsForAnswer == loading => flights > 0 \/ gone \/ lost

\* The button does not stay at "Loading..".
LabelComesBack == label = "Loading.." ~> label # "Loading.." \/ gone

\* An application that passed the check is posted, whatever else is clicked and
\* typed meanwhile, unless its captcha runs out.
CheckedIsPosted == checks # <<>> /\ Head(checks) /\ captcha ~> sent # {} \/ ~captcha \/ gone
=============================================================================
