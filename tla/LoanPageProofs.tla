--------------------------- MODULE LoanPageProofs ---------------------------
(* Proofs about LoanPage, for every number of boxes, clicks and handles.     *)
EXTENDS LoanPage, SequenceTheorems, TLAPS

(* The title. *)

\* The chain whose timeout changeTitleName set last is the only one, and a
\* page has none while it is seen.
OneChain ==
  /\ changeTitle = hidden
  /\ \A t \in timers : t.handle = timeoutClear /\ timers = {t}
  /\ OwnTitleWhenSeen

TitleInv == TitleTypeOK /\ OneChain

LEMMA TeaseTypes ==
  ASSUME TitleTypeOK, NEW k \in 1 .. Teasers, NEW others \in SUBSET Timer, Tease(k, others)
  PROVE  /\ title' \in 0 .. Teasers /\ timers' \subseteq Timer /\ timeoutClear' \in Handles
         /\ others = {} => \A t \in timers' : t.handle = timeoutClear' /\ timers' = {t}
  <1>1. PICK h \in Handles : /\ title' = k
                             /\ timers' = others \cup {[handle |-> h, keeps |-> k]}
                             /\ timeoutClear' = h
    BY DEF Tease
  <1>2. [handle |-> h, keeps |-> k] \in Timer
    BY DEF Timer
  <1>. QED
    BY <1>1, <1>2, TeasersOK

LEMMA TitleStart == TitleInit => TitleInv
  <1>. SUFFICES ASSUME TitleInit PROVE TitleInv
    OBVIOUS
  <1>1. [handle |-> timeoutClear, keeps |-> 1] \in Timer
    BY TeasersOK DEF Timer, TitleInit
  <1>2. CASE hidden = FALSE /\ changeTitle = FALSE /\ title = 0 /\ timers = {}
    <2>1. hidden \in BOOLEAN /\ changeTitle \in BOOLEAN /\ changeTitle = hidden
      BY <1>2, Zenon
    <2>. QED
      BY <1>2, <2>1, TeasersOK DEF TitleInit, TitleInv, TitleTypeOK, OneChain, OwnTitleWhenSeen
  <1>3. CASE /\ hidden = TRUE /\ changeTitle = TRUE /\ title = 1
             /\ timers = {[handle |-> timeoutClear, keeps |-> 1]}
    <2>1. TitleTypeOK
      BY <1>1, <1>3, TeasersOK DEF TitleInit, TitleTypeOK
    <2>2. OneChain
      BY <1>3 DEF OneChain, OwnTitleWhenSeen
    <2>. QED
      BY <2>1, <2>2 DEF TitleInv
  <1>. QED
    BY <1>2, <1>3 DEF TitleInit

LEMMA TitleKept == TitleInv /\ [TitleNext]_titleVars => TitleInv'
  <1>. SUFFICES ASSUME TitleInv, [TitleNext]_titleVars PROVE TitleInv'
    OBVIOUS
  <1>. USE DEF TitleInv, OneChain, OwnTitleWhenSeen
  <1>0. 1 \in 1 .. Teasers /\ timers \in SUBSET Timer
    BY TeasersOK DEF TitleTypeOK
  <1>1. CASE Hide
    <2>1. timers = {} /\ hidden' = TRUE /\ changeTitle' = TRUE /\ Tease(1, timers)
      BY <1>1 DEF Hide
    <2>. QED
      BY <1>0, <2>1, TeaseTypes DEF TitleTypeOK
  <1>2. CASE Seen
    <2>1. timers' = {}
      BY <1>2 DEF Seen
    <2>2. hidden' = FALSE /\ changeTitle' = FALSE /\ title' = 0 /\ timeoutClear' = timeoutClear
      BY <1>2 DEF Seen
    <2>3. hidden' \in BOOLEAN /\ changeTitle' \in BOOLEAN /\ changeTitle' = hidden'
      BY <2>2, Zenon
    <2>. QED
      BY <2>1, <2>2, <2>3, TeasersOK DEF TitleTypeOK
  <1>3. ASSUME NEW t \in timers, Expire(t) PROVE TitleInv'
    <2>0. /\ t \in Timer /\ t.keeps \in 1 .. Teasers
          /\ timers = {t} /\ timers \ {t} = {}
          /\ hidden /\ changeTitle
      BY <1>0 DEF Timer
    <2>1. /\ UNCHANGED <<hidden, changeTitle>>
          /\ \/ t.keeps < Teasers /\ Tease(t.keeps + 1, {})
             \/ Tease(1, {})
      BY <1>3, <2>0 DEF Expire
    <2>2. {} \in SUBSET Timer
      OBVIOUS
    <2>3. CASE Tease(1, {})
      BY <1>0, <2>0, <2>1, <2>2, <2>3, TeaseTypes DEF TitleTypeOK
    <2>4. CASE t.keeps < Teasers /\ Tease(t.keeps + 1, {})
      <3>1. t.keeps + 1 \in 1 .. Teasers
        BY <2>0, <2>4, TeasersOK
      <3>. QED
        BY <3>1, <2>0, <2>1, <2>2, <2>4, TeaseTypes DEF TitleTypeOK
    <2>. QED
      BY <2>1, <2>3, <2>4
  <1>4. CASE UNCHANGED titleVars
    BY <1>4 DEF titleVars, TitleTypeOK
  <1>. QED
    BY <1>1, <1>2, <1>3, <1>4 DEF TitleNext, Ticking

(* The form. *)

LEMMA FillingTypes ==
  /\ Nothing \in Filling
  /\ \A f \in Filling, p \in Parts, v \in Values \cup {Blank} : [f EXCEPT ![p] = v] \in Filling
  BY DEF Nothing, Filling

LEMMA PassesBoolean ==
  ASSUME other \in BOOLEAN, NEW date PROVE Passes(date) \in BOOLEAN
  BY DEF Passes

LEMMA HandlerTypes ==
  ASSUME FormTypeOK, NEW date, SubmitHandler(date)
  PROVE  /\ handled' \in Nat /\ flights' \in Nat /\ loading' \in BOOLEAN
         /\ sent' \subseteq [ok : BOOLEAN, first : BOOLEAN, edited : BOOLEAN]
  <1>1. [ok |-> Passes(date), first |-> handled = 0, edited |-> edited]
          \in [ok : BOOLEAN, first : BOOLEAN, edited : BOOLEAN]
    BY PassesBoolean DEF FormTypeOK
  <1>2. handled' \in Nat /\ flights' \in Nat
    BY DEF SubmitHandler, FormTypeOK
  <1>3. loading' \in BOOLEAN
    BY DEF SubmitHandler, FormTypeOK
  <1>4. sent' \subseteq [ok : BOOLEAN, first : BOOLEAN, edited : BOOLEAN]
    BY <1>1 DEF SubmitHandler, FormTypeOK
  <1>. QED
    BY <1>2, <1>3, <1>4

LEMMA FormStart == FormInit => FormTypeOK
  <1>. SUFFICES ASSUME FormInit PROVE FormTypeOK
    OBVIOUS
  <1>1. other \in BOOLEAN /\ captcha \in BOOLEAN /\ validated \in BOOLEAN /\ loading \in BOOLEAN
    BY Zenon DEF FormInit
  <1>2. gone \in BOOLEAN /\ edited \in BOOLEAN /\ lost \in BOOLEAN
    BY Zenon DEF FormInit
  <1>. QED
    BY <1>1, <1>2, FillingTypes DEF FormInit, FormTypeOK

\* What CheckDone does to the pending checks.
LEMMA TailFacts ==
  ASSUME NEW S, NEW s \in Seq(S), s # <<>>
  PROVE  /\ Tail(s) \in Seq(S) /\ Len(Tail(s)) = Len(s) - 1
         /\ \A i \in 1 .. Len(Tail(s)) : i + 1 \in 1 .. Len(s) /\ Tail(s)[i] = s[i + 1]
         /\ Head(s) = s[1] /\ 1 \in 1 .. Len(s)
  <1>1. Len(s) \in Nat \ {0} /\ Tail(s) \in Seq(S) /\ Len(Tail(s)) = Len(s) - 1
    BY HeadTailProperties, EmptySeq, LenProperties
  <1>2. \A i \in 1 .. Len(Tail(s)) : i + 1 \in 1 .. Len(s)
    BY <1>1
  <1>3. \A i \in 1 .. Len(Tail(s)) : Tail(s)[i] = s[i + 1]
    BY HeadTailProperties
  <1>4. Head(s) = s[1] /\ 1 \in 1 .. Len(s)
    BY <1>1
  <1>. QED
    BY <1>1, <1>2, <1>3, <1>4, Zenon

LEMMA FormTypeKept == FormTypeOK /\ [FormNext]_formVars => FormTypeOK'
  <1>. SUFFICES ASSUME FormTypeOK, [FormNext]_formVars PROVE FormTypeOK'
    OBVIOUS
  <1>. USE DEF user, button, network
  <1>1. ASSUME NEW p \in Parts, NEW v \in Values \cup {Blank}, FillPart(p, v) PROVE FormTypeOK'
    BY <1>1, FillingTypes DEF FillPart, Disturb, FormTypeOK
  <1>2. ASSUME NEW b \in BOOLEAN, FillOther(b) \/ Captcha(b) PROVE FormTypeOK'
    BY <1>2 DEF FillOther, Captcha, Disturb, FormTypeOK
  <1>3. CASE ClickUnticked
    BY <1>3 DEF ClickUnticked, NextPage, FormTypeOK
  <1>4. CASE ClickUnchecked
    <2>1. \E b \in BOOLEAN : checks' = Append(checks, b)
      BY <1>4 DEF ClickUnchecked, NextPage, Passes, FormTypeOK
    <2>2. checks' \in Seq(BOOLEAN)
      BY <2>1 DEF FormTypeOK
    <2>. QED
      BY <1>4, <2>2 DEF ClickUnchecked, NextPage, FormTypeOK
  <1>5. CASE ClickValidated
    BY <1>5, HandlerTypes DEF ClickValidated, NextPage, FormTypeOK
  <1>6. CASE GoNextForm
    BY <1>6 DEF GoNextForm, FormTypeOK
  <1>7. CASE CheckDone
    <2>1. checks' \in Seq(BOOLEAN)
      BY <1>7, TailFacts DEF CheckDone, FormTypeOK
    <2>2. CASE SubmitHandler(merged)
      BY <1>7, <2>1, <2>2, HandlerTypes DEF CheckDone, FormTypeOK
    <2>. QED
      BY <1>7, <2>1, <2>2 DEF CheckDone, FormTypeOK
  <1>8. CASE Answered \/ LosePost
    <2>1. flights' \in Nat
      BY <1>8 DEF Answered, LosePost, FormTypeOK
    <2>2. gone' \in BOOLEAN /\ lost' \in BOOLEAN
      BY <1>8 DEF Answered, LosePost, FormTypeOK
    <2>. QED
      BY <1>8, <2>1, <2>2 DEF Answered, LosePost, FormTypeOK
  <1>9. CASE UNCHANGED formVars
    BY <1>9 DEF formVars, FormTypeOK
  <1>. QED
    BY <1>1, <1>2, <1>3, <1>4, <1>5, <1>6, <1>7, <1>8, <1>9 DEF FormNext, Fill, Click

\* What lets the pending checks speak for the fields: unless something was
\* changed since the first of them, each found what a new one would find.
ChecksFresh ==
  checks # <<>> /\ ~edited =>
    /\ merged = parts
    /\ \A i \in 1 .. Len(checks) : checks[i] = Passes(parts)

FormInv ==
  /\ FormTypeOK
  /\ OnePerClick
  /\ WaitsForAnswer
  /\ UncheckedOnlyIf
  /\ ChecksFresh
  /\ validated => handled > 0

LEMMA HandlerKeeps ==
  ASSUME FormInv, NEW date, SubmitHandler(date),
         handled = 0 /\ ~edited => Passes(date)
  PROVE  /\ handled' = handled + 1 /\ handled' > 0
         /\ UncheckedOnlyIf'
         /\ loading' => flights' > 0 \/ gone \/ lost
  BY DEF FormInv, FormTypeOK, SubmitHandler, UncheckedOnlyIf, WaitsForAnswer, network

LEMMA FormKept == FormInv /\ [FormNext]_formVars => FormInv'
  <1>. SUFFICES ASSUME FormInv, [FormNext]_formVars PROVE FormInv'
    OBVIOUS
  <1>0. FormTypeOK /\ FormTypeOK'
    BY FormTypeKept DEF FormInv
  <1>. USE DEF user, button, network
  <1>1. ASSUME NEW p \in Parts, NEW v \in Values \cup {Blank}, FillPart(p, v) PROVE FormInv'
    BY <1>0, <1>1 DEF FillPart, Disturb, FormInv, OnePerClick, WaitsForAnswer, UncheckedOnlyIf, ChecksFresh
  <1>2. ASSUME NEW b \in BOOLEAN, FillOther(b) \/ Captcha(b) PROVE FormInv'
    <2>1. CASE FillOther(b)
      <3>1. ChecksFresh'
        BY <2>1 DEF FillOther, Disturb, ChecksFresh
      <3>. QED
        BY <1>0, <2>1, <3>1 DEF FillOther, FormInv, OnePerClick, WaitsForAnswer, UncheckedOnlyIf
    <2>2. CASE Captcha(b)
      BY <1>0, <2>2 DEF Captcha, FormInv, OnePerClick, WaitsForAnswer, UncheckedOnlyIf, ChecksFresh, Passes
    <2>. QED
      BY <1>2, <2>1, <2>2
  <1>3. CASE ClickUnticked
    BY <1>0, <1>3 DEF ClickUnticked, NextPage, FormInv, FormTypeOK, OnePerClick, WaitsForAnswer,
                      UncheckedOnlyIf, ChecksFresh, Passes
  <1>4. CASE ClickUnchecked
    <2>1. PICK b \in BOOLEAN : b = Passes(parts) /\ checks' = Append(checks, b)
      BY <1>0, <1>4 DEF ClickUnchecked, NextPage, Passes, FormTypeOK
    <2>2. checks \in Seq(BOOLEAN) /\ Len(checks') = Len(checks) + 1
      BY <1>0, <2>1 DEF FormTypeOK
    <2>3. OnePerClick'
      BY <1>0, <1>4, <2>2 DEF ClickUnchecked, NextPage, FormInv, FormTypeOK, OnePerClick
    <2>4. ChecksFresh'
      <3>1. SUFFICES ASSUME ~edited' PROVE ChecksFresh'
        BY DEF ChecksFresh
      <3>2. merged' = parts' /\ parts' = parts /\ Passes(parts)' = Passes(parts)
        BY <1>4 DEF ClickUnchecked, NextPage, Passes
      <3>3. checks = <<>> \/ ~edited
        BY <1>4, <3>1 DEF ClickUnchecked
      <3>4. \A i \in 1 .. Len(checks) : checks[i] = Passes(parts)
        BY <3>3, <2>2 DEF FormInv, ChecksFresh
      <3>5. \A i \in 1 .. Len(checks') : checks'[i] = Passes(parts)
        BY <3>4, <2>1, <2>2
      <3>. QED
        BY <3>2, <3>5 DEF ChecksFresh
    <2>. QED
      BY <1>0, <1>4, <2>3, <2>4 DEF ClickUnchecked, FormInv, WaitsForAnswer, UncheckedOnlyIf, NextPage
  <1>5. CASE ClickValidated
    <2>1. handled > 0 /\ SubmitHandler(parts)
      BY <1>5 DEF ClickValidated, FormInv
    <2>2. /\ handled' = handled + 1 /\ handled' > 0 /\ UncheckedOnlyIf'
          /\ loading' => flights' > 0 \/ gone \/ lost
      BY <1>0, <2>1, HandlerKeeps DEF FormTypeOK
    <2>. QED
      BY <1>0, <1>5, <2>2 DEF ClickValidated, NextPage, FormInv, FormTypeOK, OnePerClick,
                              WaitsForAnswer, ChecksFresh, Passes
  <1>6. CASE GoNextForm
    BY <1>0, <1>6 DEF GoNextForm, FormInv, OnePerClick, WaitsForAnswer, UncheckedOnlyIf, ChecksFresh, Passes
  <1>7. CASE CheckDone
    <2>1. /\ checks \in Seq(BOOLEAN) /\ checks # <<>> /\ checks' = Tail(checks)
          /\ Len(checks') = Len(checks) - 1
          /\ \A i \in 1 .. Len(checks') : i + 1 \in 1 .. Len(checks) /\ checks'[i] = checks[i + 1]
          /\ Head(checks) = checks[1] /\ 1 \in 1 .. Len(checks)
      BY <1>0, <1>7, TailFacts DEF CheckDone, FormTypeOK
    <2>2. ChecksFresh'
      <3>1. SUFFICES ASSUME checks' # <<>>, ~edited' PROVE ChecksFresh'
        BY DEF ChecksFresh
      <3>2. ~edited /\ merged' = merged /\ parts' = parts /\ Passes(parts)' = Passes(parts)
        BY <1>7, <3>1 DEF CheckDone, Passes
      <3>3. merged = parts /\ \A i \in 1 .. Len(checks) : checks[i] = Passes(parts)
        BY <2>1, <3>2 DEF FormInv, ChecksFresh
      <3>4. \A i \in 1 .. Len(checks') : checks'[i] = Passes(parts)
        BY <2>1, <3>3, Zenon
      <3>. QED
        BY <3>2, <3>3, <3>4, Zenon DEF ChecksFresh
    <2>3. CASE Head(checks) /\ validated' = TRUE /\ SubmitHandler(merged)
      <3>1. ~edited => Passes(merged)
        BY <2>1, <2>3 DEF FormInv, ChecksFresh
      <3>2. /\ handled' = handled + 1 /\ handled' > 0 /\ UncheckedOnlyIf'
            /\ loading' => flights' > 0 \/ gone \/ lost
        BY <2>3, <3>1, HandlerKeeps
      <3>3. OnePerClick'
        <4>1. handled + Len(checks) <= clicks /\ clicks' = clicks
          BY <1>7 DEF CheckDone, FormInv, OnePerClick
        <4>2. Len(checks') = Len(checks) - 1 /\ Len(checks) \in Nat /\ handled \in Nat /\ clicks \in Nat
          BY <1>0, <2>1, LenProperties DEF FormTypeOK
        <4>. QED
          BY <3>2, <4>1, <4>2 DEF OnePerClick
      <3>4. WaitsForAnswer'
        BY <1>7, <3>2 DEF CheckDone, WaitsForAnswer
      <3>. QED
        BY <1>0, <2>2, <3>2, <3>3, <3>4 DEF FormInv
    <2>4. CASE ~Head(checks) /\ UNCHANGED <<validated, network>>
      <3>1. OnePerClick'
        <4>1. handled + Len(checks) <= clicks /\ clicks' = clicks
          BY <1>7 DEF CheckDone, FormInv, OnePerClick
        <4>2. Len(checks') = Len(checks) - 1 /\ Len(checks) \in Nat /\ handled \in Nat /\ clicks \in Nat
          BY <1>0, <2>1, LenProperties DEF FormTypeOK
        <4>3. handled' = handled
          BY <2>4
        <4>. QED
          BY <4>1, <4>2, <4>3 DEF OnePerClick
      <3>2. WaitsForAnswer' /\ UncheckedOnlyIf'
        BY <1>7, <2>4 DEF CheckDone, FormInv, WaitsForAnswer, UncheckedOnlyIf
      <3>3. validated' => handled' > 0
        BY <2>4 DEF FormInv
      <3>. QED
        BY <1>0, <2>2, <3>1, <3>2, <3>3 DEF FormInv
    <2>. QED
      BY <1>7, <2>3, <2>4 DEF CheckDone
  <1>8. CASE Answered \/ LosePost
    BY <1>0, <1>8 DEF Answered, LosePost, FormInv, OnePerClick, WaitsForAnswer, UncheckedOnlyIf, ChecksFresh, Passes
  <1>9. CASE UNCHANGED formVars
    BY <1>0, <1>9 DEF formVars, FormInv, OnePerClick, WaitsForAnswer, UncheckedOnlyIf, ChecksFresh, Passes
  <1>. QED
    BY <1>1, <1>2, <1>3, <1>4, <1>5, <1>6, <1>7, <1>8, <1>9 DEF FormNext, Fill, Click

(* The page. *)

PageInv == TitleInv /\ FormInv

LEMMA PageStart == Init => PageInv
  <1>1. FormInit => FormInv
    BY FormStart DEF FormInit, FormInv, FormTypeOK, OnePerClick, WaitsForAnswer, UncheckedOnlyIf, ChecksFresh
  <1>. QED
    BY <1>1, TitleStart DEF Init, PageInv

LEMMA PageKept == PageInv /\ [Next]_pageVars => PageInv'
  <1>. SUFFICES ASSUME PageInv, [Next]_pageVars PROVE PageInv'
    OBVIOUS
  <1>1. [TitleNext]_titleVars /\ [FormNext]_formVars
    BY DEF Next, TitleStep, FormStep, pageVars
  <1>. QED
    BY <1>1, TitleKept, FormKept DEF PageInv

LEMMA PageInvariant == Spec => []PageInv
  BY PageStart, PageKept, PTL DEF Spec

\* script.js keeps every variable of the page within its type.
THEOREM TypeCorrect == Spec => []TypeOK
  <1>1. PageInv => TypeOK
    BY DEF PageInv, TitleInv, FormInv, TypeOK
  <1>. QED
    BY <1>1, PageInvariant, PTL

\* A page that is seen has its own title and no timeout that could change it
\* (onchange and changeTitleName of script.js).
THEOREM OwnTitle == Spec => []OwnTitleWhenSeen
  <1>1. PageInv => OwnTitleWhenSeen
    BY DEF PageInv, TitleInv, OneChain
  <1>. QED
    BY <1>1, PageInvariant, PTL

\* The handler of submit events is run at most once for each click, whatever
\* checks and timers overlap.
THEOREM AtMostOnePerClick == Spec => []OnePerClick
  <1>1. PageInv => OnePerClick
    BY DEF PageInv, FormInv
  <1>. QED
    BY <1>1, PageInvariant, PTL

\* An application that would not pass the check is posted only after an edit
\* beside a pending check, or by a later run of the handler.
THEOREM FirstPostChecked == Spec => []UncheckedOnlyIf
  <1>1. PageInv => UncheckedOnlyIf
    BY DEF PageInv, FormInv
  <1>. QED
    BY <1>1, PageInvariant, PTL

\* The page is covered only while an answer is awaited, or once a POST was
\* lost (submit handler of script.js).
THEOREM CoveredForAPost == Spec => []WaitsForAnswer
  <1>1. PageInv => WaitsForAnswer
    BY DEF PageInv, FormInv
  <1>. QED
    BY <1>1, PageInvariant, PTL
=============================================================================
