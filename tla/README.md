# A verification of cashlen in TLA+

cashlen (`src/`) is a Yii 2 web application in PHP: a public site on which
visitors apply for loans, a members' area behind login with one device at a
time and optional two-factor codes, an administration area, and background jobs
on a RabbitMQ queue. Most of the 5079 files are vendored JavaScript, themes and
images; the program's own logic is some 10 000 lines of PHP under `controllers`,
`models`, `common`, `components`, `background`, `commands` and `base`, and one
script, `web/frontend/js/script.js`. The JavaScript of the tree is otherwise
plug-ins of the themes (charts, date pickers, editors) and phpMyAdmin, which are
other people's programs: counted by lines, nearly all code here is vendored, and
nothing is said about it.

Nothing in PHP runs concurrently inside one request, but requests of different
browsers, jobs of different workers and steps of the broker do interleave, at
every database statement: almost nothing in the program runs in a database
transaction, and almost nothing that must be unique has a unique key. That is
what the models here are about.

## Inventory

For each part: the state it keeps, what changes it, whom it talks to, what is
hard about it, and what makes it correct.

**Login, single-device sessions, protected pages.** `AuthController`,
`LoginForm`, `Users` (`isSessionUnique`, `postLogin`, `isSessionValid`),
`UserSessions`, `BaseController`, `ProtectedController`, `AppController`,
`UserController`. State: the rows of `user_sessions`, `users.is_two_fa`,
`users.status_id`, each browser's PHP session (user, `session_hash`,
`login_two_fa`, `two_fa_secret`) and identity cookie. Operations: log in by form
or by the master route, be checked by every protected page, give the owed code,
switch 2FA on and off, log out. Hard: a login is a delete, a look, an insert and
a session write, interleaved with those of other browsers; a login may die in
between; a session outlives what it was computed from. Correct when a member has
one device slot, the page is served to its holder only, no overlap of logins
loses the slot, and a code that is owed stays owed.

**Retryable background tasks.** `RetryableWorker`, its one subclass
`EmailSenderNew`, `BackgroundTasks`. State: the messages in RabbitMQ, the
`attempts` inside each, the row of the task. Operations: execute, and
`checkOrRetry`, which pushes the job again and then saves the row. It talks to
yii2-queue (external). Hard: at-least-once delivery, jobs killed at their time
limit, listeners that die between push, save and acknowledgement. Correct when
attempts are bounded, nothing is given up early, and every task settles.

**Daily return on investment.** `RoiWorker`. State: investments, wallets, cycles
and transactions (models that are not in the repository, nor are the classes of
`app\components` that the file names) and the queue. One operation: load, look for an earlier credit, pay in a database transaction.
Hard: loads and look are outside the transaction; redelivery after the commit; a
job without a date takes the day it runs on. Correct when an investment is
credited once for a date and all accounts tell the same sum.

**Loan applications.** `SiteController`, `_loan_form.php`, `script.js`,
`Submissions`, `SubmissionsController`. State: rows of `submissions`, the page
in each tab, the POSTs under way. Operations: render the form (unless the
address applied within 24 hours), post it, answer, go to the thank-you page,
delete with a log entry. Hard: eligibility is asked at rendering and not at
saving; answers race reloads; deletion and its log entry are two steps. Correct
when close applications come only from forms open together, a deletion is
logged, and thanks are for what was saved.

**The loan form's page.** `script.js` and `_loan_form.php` in the browser, with
yii.activeForm (external). State: the boxes and the hidden field merged from
them, the button's label, timers, the "Please wait" cover, the title of the tab.
Hard: one thread of callbacks, but clicks, edits, hiding and showing the tab fall
anywhere between timers; the form is submitted twice for each click, the second
time 200 ms after the check. Correct when a click posts at most once, what is
posted was checked unless it was edited meanwhile or the form had been let
through, label and title come back, and the cover means a post.

**User directory.** `UsersController`, `UserController::actionProfile`, `Users`
(rules, `beforeValidate`), `BaseActiveRecord::afterDelete`, the users' migration.
State: users with name, number, referral code, sponsor and second factor.
Operations: create, edit, delete, by whoever is signed in (`users` is not among the
`ADMIN_ROUTES` of `ProtectedController`), and the user's own profile. Hard: username,
email, mobile number and a drawn referral code are unique by a look before the write;
an edit takes over every safe attribute that is posted, the code, the sponsor and the
second factor among them, and looks for no code; the sponsor is looked up long before
the insert; deletion cascades to referred users, logs after the fact, and in the
administrator's name. Correct when only overlapping writes defeat a look, no user
outlives a sponsor, and deletions are accounted for.

**Two-factor secrets and password reset.** `UserController`, `Helper`, `Users`.
State: the secret and its flag in the user's row, the secret that a session
shows. Operations: show the profile, enable with a code, disable. Hard: requests
of several browsers load the row, change it in memory and write only what differs
from what they loaded; enabling writes two places. Correct when a flag that no
form wrote has a secret and who is told that it is on has it on. Password reset and activation
have no behaviour: `actionForgotPassword` and `actionRegister` redirect in their
first statement, so no code is ever sent.

**Daily attendance.** `CronController`, `Users::getAttendanceOfDay`. The class
`UserAttendance` is not in the repository; none of it can run.

**Missing translations.** `TranslationEventHandler`. No configuration attaches it to
an event; it is never called.

**Record identity and uploads.** `BaseActiveRecord`, `Files`. Identifiers, slugs (of
which no table has a column), upload names with a resolution of a second, and the
log entry of a deletion, which is modelled in `LoanSubmissions` and `UserDirectory`.

**Logs.** `SystemLog`, `Logs`. Modelled where a property is about an entry.

**Helper algorithms.** `Helper`: roman numerals, Base58 and the like, pure
functions, of which the program calls only the formatting ones. `getSponsor` and
`getGoogleSecretKey`, which are no pure functions, are in `UserDirectory` and
`TwoFactor`.

**Not modelled**, for want of anything to get wrong in any order: settings and
bulk mail (single-row updates and loops over external services), the video, key
and ping jobs (one call each of a class or service that is not in the
repository), administration pages, search models and reference tables (queries
and constants), and the copies of controllers under `components` (unused).

How they interact: every protected page goes through `ProtectedController`, so
the session check and the owed code stand before all members' and administrators'
operations; `users/update-status` changes what `AppController` looks at; jobs and
requests share only the database; `BaseActiveRecord` writes the log entries of all
deletions.

## Modules

| Module | Models | Checked by |
| --- | --- | --- |
| `SingleDevice` | what "unique sessions" promises, abstractly | as `DeviceSlot` |
| `LoginSessions` | login, session check, 2FA, logout | `login_sessions`, `login_twofa`, `login_refused`, `login_cookie` |
| `LoginSessionsProofs` | its theorems | `tlapm` |
| `RetryQueue` | retryable jobs over an at-least-once queue | `retry_queue`, `email_retry` |
| `RetryQueueProofs` | its theorems | `tlapm` |
| `SumTheorems` | lemmas about sums over finite sets, for the proofs of `RetryQueue` and `RoiCredit` | `tlapm` |
| `DailyCredit` | what crediting promises, abstractly | as `CreditsDaily` |
| `RoiCredit` | `RoiWorker::execute` | `roi_one_worker`, `roi_two_workers` |
| `RoiCreditProofs` | its theorems | `tlapm` |
| `LoanSubmissions` | applying, and deleting applications | `submissions`, `submissions_thanks` |
| `LoanSubmissionsProofs` | its theorems | `tlapm` |
| `TabTitle` | the title of a hidden tab | in `LoanPage` |
| `LoanForm` | the form's script, with the visitor and the network | in `LoanPage` |
| `LoanPage` | both, in one page | `loan_page` |
| `LoanPageProofs` | its theorems | `tlapm` |
| `UserDirectory` | the rows of users and the requests that write them | in `UserAccounts` |
| `TwoFactor` | switching two-factor authentication on and off; extends `UserDirectory` | in `UserAccounts` |
| `UserAccounts` | both, on one table | `user_accounts` |
| `UserAccountsProofs` | its theorems | `tlapm` |
| `MC...` | the values of the constants for TLC | |

`PROJECT.json` maps each definition to the lines it was translated from.

### LoginSessions

One action per database statement or session write of a login: `EvictRows`
(`isSessionUnique`, which deletes every row of a member and then sets
`login_two_fa`), `CheckRow` and `InsertRow` (`postLogin`), `SignIn` (Yii's
`login`). `AbortLogin` is a login that dies after any of them. A protected page is
`Serve` (the check of `beforeAction`) followed by one `Act...`, or `Bounce` (sent
to the code form) or `TurnAway` (signed out). A browser has one request in flight,
because PHP locks the session file. Passwords, codes and hashes are reduced to
right and wrong and to the pair of user and fingerprint (user agent and
address). A row of `user_sessions` is its hash; `Slot` is the row that `->one()`
returns, the oldest. `orphaned`, `owing` and `solo` only remember what happened,
for the properties. PHP sessions may expire at any time, 2FA may be switched on
for `Enrollers`, the status of any user may change.

### RetryQueue

A job is `Deliver`, `Run`, `CheckOrRetry` (the push), `Save`, `Acknowledge`. The
queue is a bag: RabbitMQ does not keep delayed messages in order, and the 25
seconds of a retry are only a lower bound on its delay. `Fail` is a job that throws or is
killed at the time limit: yii2-queue acknowledges it (its own attempts are 1).
`Crash` is a listener that dies; its message goes back marked redelivered, and
yii2-queue answers such a message by acknowledging it and sending it again
(`Resend`). The child process may survive its listener and finish alone.
`task.response` is not modelled: nothing reads it.

### RoiCredit

`Load` takes everything the job reads before the duplicate check, in one step;
`CheckDuplicate`, then `Pay` (one database transaction) or `RollBack`. `Pay`
writes the values loaded plus the bonus, as the code does, if each statement changes its
row (`Changes`): an update that changes none, for a bonus of 0 or because another worker
has written the same sum, answers 0, which the code rolls back. `NotApplicable` is
`isApplicableForROI` answering no. The amount of a bonus is any of `Bonuses`, with 0
for an investment of which no part qualifies. `getCurrentCycle` is one row per user;
everything the worker calls outside the repository is marked external in the map.

### LoanSubmissions

Tabs, POSTs and administrators' requests. A tab shows a page with a number;
`opened` records the id that the next row would have had when the form was
rendered, for `CloseOnesOverlap`. The page itself is in `LoanPage`: here
its last step is the POST. A tick is some hours, so that saving is one step of time.

### TabTitle, LoanForm and LoanPage

`TabTitle`: `Hide` and `Seen` are the two branches of `onchange`; a chain of promises
is always at one timeout, so it is a member of `timers` with the title it keeps,
and `Expire` is the promise that its timeout resolves. `timeoutClear` is the
script's variable: the handle of the timeout set last, of whichever chain.

`LoanForm`: a click runs `NextPage` (the page's handler of clicks: label, merged
field, timer), then, in the same event, the browser's own submit. `ClickUnticked` has
none, because the required tick is missing. In `ClickUnchecked` yii.activeForm stops
it, checks, and will submit again (`CheckDone`); in `ClickValidated` it has passed
before and lets it through to `SubmitHandler`. `merged` is what `serialize` reads of the
date, and an edit of a box does not change it before the next click. The code sets
a timer of `goNextForm` for every field of the page, all ending at once; the model
has one. `gone` is the page replaced: its callbacks end.

Every handler of `script.js` that the page's template can trigger is here, but for
moving the focus on `keyup`. There is one page of fields, so `goNextForm` finds no
next one; `.btn-back`, `.hidden-elem-assign` and the fields of `runCustomConditions`
are in no template.

### UserDirectory, TwoFactor and UserAccounts

`UserDirectory`: a request is at `looked` once it has loaded its row (and, to create
one, found the sponsor and drawn a code), at `checked` once its validators are
through, at `log` once its row is deleted; every other request may be between.
`CheckCreate` and `CheckUpdate` are the validators in one step. A username stands for
the email as well, which is looked for beside it and in the same way. `Null` and
`Empty` are the two ways of having no number: the `unique` validator skips both, the
query of `beforeValidate` skips neither, and a profile form turns the first into the
second.

Anybody signed in may create, edit and delete. `BeginUpdate` is `load`, which takes
over every attribute that the rules do not mark with `!`; no view in the repository
restricts the form. Of the columns modelled, `dirty` is what the edit changes (a string
is dirty only if it differs, an integer always, being compared with a string, as in
`Posted`), and `Write` writes that and nothing else. A typed secret is one of `Given`;
the flag of a form may be either.

`sponsor` is `referred_by`. Edits may make a user the sponsor of those who referred it,
so sponsors may form cycles; `Cascade` is the smallest set closed under referral, which
is where `ON DELETE CASCADE` ends (that InnoDB refuses to go deeper than 15 levels is
not modelled), and `felled` remembers whose deletion took a user.
`missed` are the columns that others wrote since a request looked, and the code that an
edit changes, which is never looked for; what is written all the same is `blind`.
`edited` are the users whose second factor a form wrote. `told` is the log entries of
deletions, and `untold` remembers the deaths before one.

A request may die in any of its states. `postRegistration` (a code that nothing
reads, two log entries) follows `Insert` and is left out; so is the second save of
`actionUpdate`, which writes the role and the status.

`TwoFactor`: `Profile` draws a secret into the session, `EnableTwofactor` and
`DisableTwofactor` load the user, `SaveEnable` and `SaveDisable` are Yii's
`update`: dirty columns only, and a success only when the row changed (`Save`).
`EndEnable` makes the session forget. `update(true, ...)` validates first:
`DisableRefused` is the validation that finds somebody else without a number.
Codes are right: a wrong one changes nothing. `crossed` and `torn` only remember. No secret
is either way of having none, 0 (NULL) or `Empty` (`NoSecret`).
`second` keeps the columns of deleted users, which nothing can write any more.

`UserAccounts` puts both on one table; `Cross` notes an edit of a user's second factor in the
calls of that user. `LoginSessions` has the flag without the secret,
for what a login owes.

## What the runs show

| Run | Shows |
| --- | --- |
| `login_sessions` | three browsers, two with one fingerprint, log in one member: `SlotKept`, `SoloLoginHolds`, and the refinement `DeviceSlot` of `SingleDevice` |
| `login_twofa` | a member who switches 2FA in one browser while logging in with another, beside an administrator: `CodeStaysOwed` |
| `login_refused` | *violation*: a login that `postLogin` refuses is signed in all the same |
| `login_cookie` | *violation*: the cookie that is to "authenticate user even if PHP session has been expired" signs in, and the first page signs out |
| `retry_queue` | two workers, a task of any kind and a mail, two faults: `RetriesBounded`, `RunsBounded`, `GivesUpOnlyAtLimit`, and liveness `AllSettle` |
| `email_retry` | *violation*: a mail is never retried, because its job throws |
| `roi_one_worker` | one job at a time, pushed twice, delivered twice or cut off: `StatementAdds`, `BooksBalance`, and the refinement `CreditsDaily` of `DailyCredit` |
| `roi_two_workers` | *violation*: two workers credit one investment twice for one date; the later one loaded before others paid, and writes its old sums back |
| `submissions` | two tabs and two administrators: `CloseOnesOverlap`, `DeletedAreLogged` |
| `submissions_thanks` | *violation*: thanks for an application that was not saved |
| `loan_page` | a visitor fills, clicks twice, looks away: `OwnTitleWhenSeen`, `UncheckedOnlyIf`, `OnePerClick`, `WaitsForAnswer`, and liveness `LabelComesBack`, `CheckedIsPosted`, `TeasersGoRound` |
| `user_accounts` | two requests on the table, which edit any column, beside three browsers, any of which dies: `UniqueWhereLooked`, `NoOrphans`, `GoneAccountedFor`, `FlagHasSecret`, `EnabledIsOn` |

`PROJECT.json` quotes, for each violation, the line of the repository that it
contradicts, and has for each property a mutant, a plausible bug in the mapped
code that makes the property fail.

### Bounds

- `MaxLogins` (3 or 4): three logins overlap and a fourth comes after them; a
  row is left behind by two logins at once only when three took part.
  `Enrollers` names the users who may have 2FA on, none where it does not matter.
- `RetryCount` 3: a first, a middle and a last attempt. `MaxFaults` 2: a fork of a
  task by a dying listener, and a fault of one of the two chains.
- `LastDay` 2: one midnight. `MaxJobs` 3: a duplicate and another investment or
  date; `MaxCrashes` 1; `Bonuses` {0, 2}: nothing and something.
- `Window` 2, `MaxTime` 2: rows exactly 24 hours apart and less. `MaxPages` 2 (3 for the
  violation) and `MaxPosts` 3: a double click and a second tab. Tabs and
  administrators are interchangeable, which the symmetry set says.
- `Teasers` 3, the script's own; `Handles` 2: one timeout runs at a time, and the
  next needs another handle. `MaxClicks` 2: a double click, and a click after a check.
  Two boxes are merged, so that a date may be half filled.
- `MaxLoad` 15: a request on the table loads 5 and a call of a browser 3, so that three
  requests are made, two beside one call, one beside three, or five calls. The
  flag of one call meets the secret of another only after five, over three browsers and
  two secrets (`MaxSecrets`), which is why these are the bounds: without the exception for
  `torn`, this run finds `FlagHasSecret` violated. Two requests that race, and a
  deletion or creation between, fit as well. `MaxForm` 1: an edit changes one
  column, any of them; more at once only add up. `Given` is the empty string: a form
  clears a secret, or sets the flag beside none; that it retypes a secret is left to the
  theorems. Requests, browsers, names and codes
  are interchangeable; no property is a liveness property.

Runs with `CHECK_DEADLOCK FALSE` are those that stop by themselves: when all tasks
have settled, when the bounds on pages, posts, time and load are used up, or when
the page is gone.

### Fairness

`RetryQueue`: weak fairness of each worker's own steps and of
taking a message. `queue/listen` is a daemon, a job is killed at its time limit, and
RabbitMQ hands out what it holds. Faults have no fairness and are bounded: if
listeners died forever, tasks would be redelivered forever.

`LoanPage`: weak fairness of the timers of titles, of `GoNextForm` and of `CheckDone`, each
for itself. A browser runs a page's timeouts late, when the page is hidden, but runs
them; none of the three disables another for good, and a page that is replaced has
none any more, which the properties allow for. The visitor and the network have no
fairness.

Web requests have none: any of them may be abandoned, so their properties are safety.

## What is proved

The theorems hold for every value of the constants that satisfies the named
assumptions (`ConstantsOK`, `TeasersOK`, `FormOK`, `DirectoryOK`, `TwoFactorOK`) and no
others, but for the one hypothesis of `RoiCreditProofs` that is named below. Beside
types and bounds they say that what is added up is finite: the listeners of the queue
(`IsFiniteSet(Workers)`) and the rows of investments (`IsFiniteSet(Investments)`).
Every safety property of the passing runs is the property of a theorem.

`LoginSessionsProofs`. The inductive invariants are
- `TypeInv`: the types, and that a request in flight has a user;
- `RequestConsistent`: what a request in each stage knows of its browser's session;
- `CodeKept`: a session, and the copy of it a request works on, owes the code that
  `owing` says. The copy is why `CodeStaysOwed` is not inductive by itself: the
  debt of a login in flight is in the copy until `SignIn`;
- `SoloKept`: an undisturbed login sees no row after its own delete, then its own
  row first. `SoloLoginHolds` speaks of the end of the login only;
- `SlotKept`, on top of `RequestConsistent`.

From them follow `TypeCorrect`, `CodeOwed`, `SoloLogin`, `SlotNotLost` and
`ImplementsSingleDevice`. The last has one lemma for each action, which maps it to
a step of `SingleDevice` or to a stutter under `SlotMap`, `SignedMap`,
`TicketMap`, `ServingMap`.

`RetryQueueProofs`. `TypeOK` and `RetriesBounded` are inductive together (the row
holds the attempts of a message and one more): `TypeCorrect`, `AttemptsBounded`.
`GivesUpAtLimit` needs to know why a task ended when nothing of it is left, so its
invariant, `Chain`, is about tasks on the way: a task none of whose jobs died has
at most one message or undecided job, which is at the attempt that the runs so far
say (`ChainMessages`, `ChainJobs`), no two jobs at one attempt (`ChainOrder`), or it
ended for a reason (`ChainEnd`), and the newest job has still to save its row or
did, unless an older save came late (`ChainRow`).

`RunsAreBounded` is about all chains of a task, also those that dying listeners made, so
nothing local bounds a task's runs. What is bounded is a sum (`RunsCovered`): the runs so far
and what is left, where each message in the queue weighs the attempts it still has (`Left`),
and each job what it may yet hand on (`JobLeft`). A step of a worker moves weight
between the three; a death puts at most `RetryCount` back, which it pays for by one
of `crashes`.

`OnlyFaultsAddEffort` is `AllSettle` but for fairness. The weights are finer (`Effort`):
five for each attempt of a message, two for a redelivery, and for a job the steps it has
still to take. Every step without a fault takes something off the effort of one task and
leaves the others' as it is (`NearsEnd`); a fault adds no more than one redelivered message
weighs, and there are at most `MaxFaults`; an effort of 0 is a task that has settled.
`SettledForGood` follows: what has settled stays so, the second half of `<>[]`. That a
step is taken at all is fairness, and left to TLC.

`RoiCreditProofs`. `TypeCorrect` is for any workers. The others have the hypothesis
`[]UsersApart`: no two jobs of one user are between loading and paying. The code does not
see to that, as the run `roi_two_workers` shows; it is what whoever starts the workers has to
see to, and workers that pay different users satisfy it. Then what a job loaded, wallet,
cycle and earnings, is still so when it pays, and what it did not find was not credited since
(`LoadedIsCurrent`). On it rest `StatementReads`, `NeverCreditedTwice`, `ImplementsDailyCredit`
(every change of the accounts is a `Credit` of `DailyCredit`, `AccountStep`) and `BooksAgree`, whose
invariant `BooksInv` says the sum over a user's investments by `Total`, so that
a payment changes one summand. `OneAtATime` has them all for a single worker, with no
hypothesis on behaviours. `UsersApart` with two workers at once is no empty case: TLC finds all
four to hold with two users paid side by side, too large to be a run.

`SumTheorems`. `Total` is `MapThenSumSet` of a function: it does not depend on the order that
`CHOOSE` takes the elements in (`TotalSplit`), a change of one value changes it by as much
(`TotalChange`), and no summand of a sum of natural numbers exceeds it (`TotalMember`).
Induction over the set is the existence of a smallest subset for which the claim fails (`SubsetInduction`, from the library's theorem
that strict inclusion is well-founded), which takes a set and no predicate as its parameter.

`LoanSubmissionsProofs`. `TypeCorrect` with `IdsGiven`. For `Overlap`: rows with higher
ids are younger (`TimesOrdered`), and a form that can be posted was rendered when
the rows of its address were a day old (`FormsFresh`); `EligibleMeans` is why a look
at the row with the highest id alone is enough, even when rows are deleted. For
`DeletionsLogged`: `DeletedAreLogged` is inductive with the types.

`LoanPageProofs`. `OwnTitle`: there is at most one timeout, it is the one that
`timeoutClear` names, and there is none while the page is seen, so that clearing
one is enough. `AtMostOnePerClick`: clicks count what
was handled and what is being checked. `FirstPostChecked`: a check that passed tells
the truth about the fields until an edit, and `validated` means that the handler has
run. `CoveredForAPost`: the cover is there only from a post on.

`UserAccountsProofs`. For the table, `DirectoryInv`: the three properties, the types, and
- `FreshIn`: what a request looked for, and no other wrote since (`missed`), is still
  free. `UniqueWhereLooked` needs it at the write, long after the look;
- `Bounded`: the code that an edit changes counts as missed, and a profile's edit
  changes the number only.

`LooksKeepUnique` is the step from there: a row rewritten in columns that are free or marked
keeps all rows distinct but for marked ones. `CascadeClosed`: whoever is left after a
deletion refers to somebody left, because the smallest closed set is closed. From them
`LooksSuffice`, `SponsorsThere`, `DeletionsLogged`.

For the second factor, `TwoFactorInv`: no two sessions were shown one secret (`OwnSecret`);
a session's secret is not its user's row's until it is saved, nor what its own request
loaded (in `Good`), so that enabling always writes it beside the flag; a row that a request
loaded is the row still, unless it was `crossed`; and a flag has a secret (`Kept`). The second
and the last are claimed of the users who are not `Excused`: no form wrote their second
factor, and no call of theirs died with its secret saved. What the requests on the table do
to this is in two lemmas: they change the second factors of edited users only
(`SecondChanges`), and the calls under way take note (`CrossKeeps`). From it
`NeverLockedOut` and `EnabledAsTold`, and with both `TypeCorrect`.

Only model-checked: the liveness properties `AllSettle`, `LabelComesBack`, `CheckedIsPosted`
and `TeasersGoRound`, because fairness is about `ENABLED`; and the five disagreements of the
violation runs, which are counterexamples. (`CreditedOnce`, violated by two workers that
pay one user, is proved of users kept apart.)

## Not modelled

- Vendored code: the themes' plug-ins and `web/hexy1234` (phpMyAdmin).
- What cannot run: attendance and videos (their classes are missing), registration
  and password reset by mail (their actions return in the first statement), the
  translation handler (attached to nothing), the status history (no migration creates
  its table), the handlers of `script.js` that no template triggers.
- What has no order to get wrong: settings, bulk mail, exports, searches, static pages,
  changing a password, pictures (file I/O; their names have a resolution of a second, so that
  two users who upload in one second share the file of the later one).
- `user/index` sends a member to `app/index`, which sends back to `user/index`
  (`controllers/AppController.php:58`, `controllers/UserController.php:22`): a loop
  of two redirects that any first login shows, and that no model is needed for.

## Plan

The parts of the program that have behaviour are modelled, and the safety properties of
the passing runs are proved. What could still be added:
1. abstract specifications of an application and of a retried task, for the detailed ones
   to implement, as `SingleDevice` and `DailyCredit` are;
2. for `LoanPage`, what `LabelComesBack` and `CheckedIsPosted` rest on but for fairness, as
   `OnlyFaultsAddEffort` is for `AllSettle`.
