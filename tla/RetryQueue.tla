------------------------------ MODULE RetryQueue ------------------------------
(* Background tasks that may be retried.                                     *)
(*                                                                           *)
(* A RetryableWorker is a job of the yii2-queue over RabbitMQ.  A listener   *)
(* takes a message, lets a child process execute the job and acknowledges    *)
(* the message; a job whose run() asks for a retry pushes itself again, with *)
(* one attempt more, before it saves its row of background_tasks.  The       *)
(* broker gives a message back when its listener dies, so that one task can  *)
(* come to have several messages, run by several workers at once.            *)
EXTENDS Integers, FiniteSets, Bags

CONSTANTS
  Tasks,
  Emails,      \* the tasks that are EmailSenderNew jobs
  Workers,     \* queue/listen processes
  RetryCount,  \* retry_count
  MaxFaults    \* bound: jobs that are killed or throw, listeners that die

ASSUME ConstantsOK ==
  /\ Emails \subseteq Tasks
  /\ IsFiniteSet(Workers)
  /\ RetryCount \in Nat \ {0}
  /\ MaxFaults \in Nat

VARIABLES
  queue,    \* the bag of messages ready for delivery, delayed ones included
  job,      \* job[w]: what worker w is doing
  row,      \* row[t]: background_tasks.attempts
  runs,     \* runs[t]: executions of t begun
  verdict,  \* verdict[t]: exit_status of the last run() of t to return
  late,     \* tasks of which a save came when the next attempt had begun
  failed,   \* tasks of which some job died, threw or was handed out twice
  crashes,  \* crashes[t]: listeners that died with a message of t
  faults    \* Fail and Crash steps taken

vars == <<queue, job, row, runs, verdict, late, failed, crashes, faults>>

\* The serialized job; attempts is that of the task inside it.
Message == [task : Tasks, attempts : 0 .. RetryCount, redelivered : BOOLEAN]

ExitStatus == {"ok", "failed", "retry"}

Job == [pc : {"run", "check", "save", "ack", "resend"}, msg : Message,
        status : ExitStatus, held : BOOLEAN]   \* held: its listener is alive
Idle == [pc |-> "idle"]

TypeOK ==
  /\ IsABag(queue) /\ BagToSet(queue) \subseteq Message
  /\ job \in [Workers -> Job \cup {Idle}]
  /\ row \in [Tasks -> 0 .. RetryCount]
  /\ runs \in [Tasks -> Nat]
  /\ verdict \in [Tasks -> ExitStatus]
  /\ late \subseteq Tasks
  /\ failed \subseteq Tasks
  /\ crashes \in [Tasks -> Nat]
  /\ faults \in 0 .. MaxFaults

Init ==
  /\ queue = SetToBag({[task |-> t, attempts |-> 0, redelivered |-> FALSE] : t \in Tasks})
  /\ job = [w \in Workers |-> Idle]
  /\ row = [t \in Tasks |-> 0]
  /\ runs = [t \in Tasks |-> 0]
  /\ verdict = [t \in Tasks |-> "failed"]
  /\ late = {}
  /\ failed = {}
  /\ crashes = [t \in Tasks |-> 0]
  /\ faults = 0

------------------------------------------------------------------------------
Send(m) == queue' = queue (+) SetToBag({m})

TaskOf(w) == job[w].msg.task

\* Mutant of Attempt: counted by execute() and once more by the push.
AttemptTwice(w) == job[w].msg.attempts + 2

\* task->attempts after execute() added one to it.
Attempt(w) == job[w].msg.attempts + 1

At(w, pcs) == job[w].pc \in pcs

\* A message is handed to a listener.  One that was redelivered is only
\* acknowledged and sent again; any other is executed.
Deliver(w, m) ==
  /\ At(w, {"idle"})
  /\ BagIn(m, queue)
  /\ queue' = queue (-) SetToBag({m})
  /\ job' = [job EXCEPT ![w] = [pc |-> IF m.redelivered THEN "resend" ELSE "run",
                                msg |-> m, status |-> "failed", held |-> TRUE]]
  /\ runs' = IF m.redelivered THEN runs ELSE [runs EXCEPT ![m.task] = @ + 1]
  /\ UNCHANGED <<row, verdict, late, failed, crashes, faults>>

Resend(w) ==
  /\ At(w, {"resend"})
  /\ Send([job[w].msg EXCEPT !.redelivered = FALSE])
  /\ job' = [job EXCEPT ![w] = Idle]
  /\ UNCHANGED <<row, runs, verdict, late, failed, crashes, faults>>

\* run() of any subclass.
Run(w) ==
  /\ At(w, {"run"})
  /\ TaskOf(w) \notin Emails
  /\ \E status \in ExitStatus :
       /\ job' = [job EXCEPT ![w].pc = "check", ![w].status = status]
       /\ verdict' = [verdict EXCEPT ![TaskOf(w)] = status]
  /\ UNCHANGED <<queue, row, runs, late, failed, crashes, faults>>

\* EmailSenderNew::run calls Helper::sendEmail without the arguments it needs:
\* an ArgumentCountError ends the job, and the queue acknowledges the message.
RunEmail(w) ==
  /\ At(w, {"run"})
  /\ TaskOf(w) \in Emails
  /\ job' = [job EXCEPT ![w] = Idle]
  /\ failed' = failed \cup {TaskOf(w)}
  /\ UNCHANGED <<queue, row, runs, verdict, late, crashes, faults>>

\* Mutant of Retries: one attempt too few.
RetriesOnceLess(w) == job[w].status = "retry" /\ Attempt(w) + 1 < RetryCount

\* Mutant of Retries: one attempt too many.
RetriesOnceMore(w) == job[w].status = "retry" /\ Attempt(w) <= RetryCount

Retries(w) == job[w].status = "retry" /\ Attempt(w) < RetryCount

\* Mutant of Again: the job is pushed as it was before this attempt.
AgainUncounted(w) == [job[w].msg EXCEPT !.redelivered = FALSE]

\* The message of a job that pushes itself.
Again(w) == [task |-> TaskOf(w), attempts |-> Attempt(w), redelivered |-> FALSE]

\* Mutant of CheckOrRetry: the worker runs the job again itself.
RetryInPlace(w) ==
  /\ At(w, {"check"})
  /\ job' = [job EXCEPT ![w].pc = IF job[w].status = "retry" THEN "run" ELSE "save"]
  /\ UNCHANGED <<queue, row, runs, verdict, late, failed, crashes, faults>>

\* checkOrRetry, as far as the push.
CheckOrRetry(w) ==
  /\ At(w, {"check"})
  /\ IF Retries(w) THEN Send(Again(w)) ELSE UNCHANGED queue
  /\ job' = [job EXCEPT ![w].pc = "save"]
  /\ UNCHANGED <<row, runs, verdict, late, failed, crashes, faults>>

\* checkOrRetry's save: attempts of this job, whatever the row holds by now.
Save(w) ==
  /\ At(w, {"save"})
  /\ row' = [row EXCEPT ![TaskOf(w)] = Attempt(w)]
  /\ late' = IF runs[TaskOf(w)] > Attempt(w) THEN late \cup {TaskOf(w)} ELSE late
  /\ job' = [job EXCEPT ![w].pc = "ack"]
  /\ UNCHANGED <<queue, runs, verdict, failed, crashes, faults>>

Acknowledge(w) ==
  /\ At(w, {"ack"})
  /\ job' = [job EXCEPT ![w] = Idle]
  /\ UNCHANGED <<queue, row, runs, verdict, late, failed, crashes, faults>>

\* The job throws (in run, in the push or in the save) or its child process is
\* killed after the queue's time limit.  The message is acknowledged: the
\* queue's own attempts are 1.
Fail(w) ==
  /\ At(w, {"run", "check", "save"})
  /\ faults < MaxFaults
  /\ faults' = faults + 1
  /\ failed' = failed \cup {TaskOf(w)}
  /\ job' = [job EXCEPT ![w] = Idle]
  /\ UNCHANGED <<queue, row, runs, verdict, late, crashes>>

\* The listener dies; its child process dies with it or goes on alone.  What
\* was not acknowledged goes back to the queue, marked as redelivered.
Crash(w) ==
  /\ job[w] # Idle /\ job[w].held
  /\ faults < MaxFaults
  /\ faults' = faults + 1
  /\ failed' = failed \cup {TaskOf(w)}
  /\ crashes' = [crashes EXCEPT ![TaskOf(w)] = @ + 1]
  /\ IF At(w, {"resend"}) THEN UNCHANGED queue
     ELSE Send([job[w].msg EXCEPT !.redelivered = TRUE])
  /\ \/ job' = [job EXCEPT ![w] = Idle]
     \/ At(w, {"run", "check", "save"}) /\ job' = [job EXCEPT ![w].held = FALSE]
  /\ UNCHANGED <<row, runs, verdict, late>>

Work(w) ==
  Resend(w) \/ Run(w) \/ RunEmail(w) \/ CheckOrRetry(w) \/ Save(w) \/ Acknowledge(w)

Take(w) == \E m \in BagToSet(queue) : Deliver(w, m)

Next == \E w \in Workers : Take(w) \/ Work(w) \/ Fail(w) \/ Crash(w)

\* The listeners are daemons and a job ends, if only by its time limit; the
\* broker hands out what is in its queue.
Fairness == \A w \in Workers : WF_vars(Work(w)) /\ WF_vars(Take(w))

Spec == Init /\ [][Next]_vars /\ Fairness

------------------------------------------------------------------------------
Settled(t) ==
  /\ \A m \in BagToSet(queue) : m.task # t
  /\ \A w \in Workers : job[w] # Idle => TaskOf(w) # t

\* No message asks for an attempt beyond retry_count, however many copies of
\* the task were made by redelivery and retried side by side.
RetriesBounded ==
  /\ \A m \in BagToSet(queue) : m.attempts < RetryCount
  /\ \A w \in Workers : job[w] # Idle => job[w].msg.attempts < RetryCount

\* A task is executed at most retry_count times for its first message and for
\* each listener that died with one: only a death hands a task out twice.
RunsBounded == \A t \in Tasks : runs[t] <= RetryCount * (1 + crashes[t])

\* A task none of whose jobs died or threw is given up only for an answer
\* other than RETRY or after retry_count attempts.  Its row then counts its
\* runs, unless a save was overtaken: the job is pushed before the row is
\* saved, so that a save that hangs can come after that of the next attempt.
GivesUpOnlyAtLimit ==
  \A t \in Tasks \ failed : Settled(t) =>
    /\ verdict[t] = "retry" => runs[t] = RetryCount
    /\ row[t] = runs[t] \/ t \in late

\* Retries do not go on forever: every task comes to an end.
AllSettle == \A t \in Tasks : <>[]Settled(t)

\* README: "RetryableWorker - for Background Tasks that should be retried".
\* With no process ever killed, a mail that was not sent has been tried
\* retry_count times.
EmailsRetried ==
  \A t \in Emails : Settled(t) /\ faults = 0 => runs[t] = RetryCount
=============================================================================
