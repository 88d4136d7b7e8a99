--------------------------- MODULE RetryQueueProofs ---------------------------
(* Proofs about RetryQueue, for any tasks, workers, retry limit and number   *)
(* of faults.                                                                *)
EXTENDS RetryQueue, SumTheorems, TLAPS

\* What putting one message in a bag, and taking one out, do to it.

LEMMA PutInBag ==
  ASSUME NEW B, IsABag(B), NEW m
  PROVE  LET C == B (+) SetToBag({m}) IN
         /\ IsABag(C)
         /\ BagToSet(C) = BagToSet(B) \cup {m}
         /\ \A x \in BagToSet(B) : x # m => C[x] = B[x]
         /\ m \notin BagToSet(B) => C[m] = 1
  BY DEF IsABag, BagToSet, SetToBag, (+)

LEMMA TakeFromBag ==
  ASSUME NEW B, IsABag(B), NEW m \in BagToSet(B)
  PROVE  LET C == B (-) SetToBag({m}) IN
         /\ IsABag(C)
         /\ BagToSet(C) \subseteq BagToSet(B)
         /\ \A x \in BagToSet(B) : x # m => x \in BagToSet(C) /\ C[x] = B[x]
         /\ B[m] = 1 => m \notin BagToSet(C)
  BY DEF IsABag, BagToSet, SetToBag, (-)

LEMMA FreshBag ==
  ASSUME NEW S
  PROVE  /\ IsABag(SetToBag(S)) /\ BagToSet(SetToBag(S)) = S
         /\ \A m \in S : SetToBag(S)[m] = 1
  BY DEF IsABag, BagToSet, SetToBag

------------------------------------------------------------------------------
\* The attempts that a row can hold are those of a message and one more, so
\* the types need the bound on the messages.

TypeInv == TypeOK /\ RetriesBounded

LEMMA JobKinds ==
  ASSUME TypeOK, NEW w \in Workers
  PROVE  \/ job[w] = Idle /\ job[w].pc = "idle"
         \/ /\ job[w] # Idle /\ job[w] \in Job /\ job[w].pc # "idle"
            /\ job[w].msg \in Message /\ TaskOf(w) \in Tasks
            /\ job[w].msg.attempts \in Nat /\ Attempt(w) \in Nat
  <1>1. CASE job[w] = Idle
    BY <1>1 DEF Idle
  <1>2. CASE job[w] # Idle
    <2>1. job[w] \in Job
      BY <1>2 DEF TypeOK
    <2>2. job[w].msg \in Message /\ job[w].pc # "idle"
      BY <2>1 DEF Job
    <2>3. job[w].msg.attempts \in Nat /\ TaskOf(w) \in Tasks
      BY <2>2, ConstantsOK DEF Message, TaskOf
    <2>. QED
      BY <1>2, <2>1, <2>2, <2>3 DEF Attempt
  <1>. QED
    BY <1>1, <1>2

LEMMA TypeInit == Init => TypeInv
  <1>. SUFFICES ASSUME Init PROVE TypeInv
    OBVIOUS
  <1>. DEFINE first == {[task |-> t, attempts |-> 0, redelivered |-> FALSE] : t \in Tasks}
  <1>1. first \subseteq Message
    <2>1. 0 \in 0 .. RetryCount
      BY ConstantsOK
    <2>2. \A t \in Tasks : [task |-> t, attempts |-> 0, redelivered |-> FALSE] \in Message
      BY <2>1 DEF Message
    <2>. QED
      BY <2>2
  <1>2. IsABag(queue) /\ BagToSet(queue) = first
    <2>1. queue = SetToBag(first)
      BY DEF Init
    <2>. HIDE DEF first
    <2>. QED
      BY <2>1, FreshBag
  <1>3. TypeOK
    BY <1>1, <1>2, ConstantsOK DEF Init, TypeOK, ExitStatus
  <1>4. RetriesBounded
    <2>1. \A m \in first : m.attempts = 0
      OBVIOUS
    <2>. QED
      BY <1>2, <2>1, ConstantsOK DEF Init, RetriesBounded
  <1>. QED
    BY <1>3, <1>4 DEF TypeInv

\* The part of the state that an action of worker w can disturb.
BoundedMessage(m) == m \in Message /\ m.attempts < RetryCount
BoundedJob(j) == j = Idle \/ (j \in Job /\ j.msg.attempts < RetryCount)

LEMMA TypeStep ==
  ASSUME TypeInv,
         IsABag(queue'), \A m \in BagToSet(queue') : m \in BagToSet(queue) \/ BoundedMessage(m),
         NEW w \in Workers, NEW j, BoundedJob(j), job' = [job EXCEPT ![w] = j],
         row' \in [Tasks -> 0 .. RetryCount], runs' \in [Tasks -> Nat],
         verdict' \in [Tasks -> ExitStatus], late' \subseteq Tasks, failed' \subseteq Tasks,
         crashes' \in [Tasks -> Nat], faults' \in 0 .. MaxFaults
  PROVE  TypeInv'
  <1>1. BagToSet(queue') \subseteq Message
    BY DEF TypeInv, TypeOK, BoundedMessage
  <1>2. job' \in [Workers -> Job \cup {Idle}]
    BY DEF TypeInv, TypeOK, BoundedJob
  <1>3. \A m \in BagToSet(queue') : m.attempts < RetryCount
    BY DEF TypeInv, RetriesBounded, BoundedMessage
  <1>4. \A v \in Workers : job'[v] # Idle => job'[v].msg.attempts < RetryCount
    BY DEF TypeInv, TypeOK, RetriesBounded, BoundedJob
  <1>5. TypeOK'
    BY <1>1, <1>2 DEF TypeOK
  <1>. QED
    BY <1>3, <1>4, <1>5 DEF TypeInv, RetriesBounded

LEMMA TypeNext == TypeInv /\ [Next]_vars => TypeInv'
  <1>. SUFFICES ASSUME TypeInv, [Next]_vars PROVE TypeInv'
    OBVIOUS
  <1>. USE DEF TypeInv
  <1>0. BoundedJob(Idle)
    BY DEF BoundedJob
  <1>1. ASSUME NEW w \in Workers, NEW m \in BagToSet(queue), Deliver(w, m) PROVE TypeInv'
    <2>. DEFINE j == [pc |-> IF m.redelivered THEN "resend" ELSE "run",
                      msg |-> m, status |-> "failed", held |-> TRUE]
    <2>1. m \in Message /\ m.attempts < RetryCount /\ m.task \in Tasks /\ m.redelivered \in BOOLEAN
      BY DEF TypeOK, RetriesBounded, Message
    <2>2. BoundedJob(j)
      BY <2>1 DEF BoundedJob, Job, ExitStatus
    <2>3. IsABag(queue') /\ BagToSet(queue') \subseteq BagToSet(queue)
      BY <1>1, TakeFromBag DEF Deliver, TypeOK
    <2>4. runs' \in [Tasks -> Nat]
      BY <1>1, <2>1 DEF Deliver, TypeOK
    <2>5. /\ job' = [job EXCEPT ![w] = j]
          /\ UNCHANGED <<row, verdict, late, failed, crashes, faults>>
      BY <1>1 DEF Deliver
    <2>. HIDE DEF j
    <2>. QED
      BY <2>2, <2>3, <2>4, <2>5, TypeStep DEF TypeOK
  <1>2. ASSUME NEW w \in Workers, Work(w) \/ Fail(w) \/ Crash(w) PROVE TypeInv'
    <2>1. /\ job[w] \in Job /\ job[w].msg \in Message /\ job[w].msg.attempts < RetryCount
          /\ TaskOf(w) \in Tasks /\ Attempt(w) \in 0 .. RetryCount
      <3>1. job[w].pc # "idle"
        BY <1>2 DEF Work, Resend, Run, RunEmail, CheckOrRetry, Save, Acknowledge, Fail, Crash, At, Idle,
                    TypeOK, Job
      <3>2. job[w].msg.attempts < RetryCount /\ job[w].msg.attempts \in Nat
        BY <3>1, JobKinds DEF RetriesBounded
      <3>. QED
        BY <3>1, <3>2, JobKinds, ConstantsOK DEF Attempt
    <2>2. /\ \A pc \in {"run", "check", "save", "ack"} : BoundedJob([job[w] EXCEPT !.pc = pc])
          /\ \A s \in ExitStatus : BoundedJob([job[w] EXCEPT !.pc = "check", !.status = s])
          /\ BoundedJob([job[w] EXCEPT !.held = FALSE])
      BY <2>1 DEF BoundedJob, Job
    <2>3. \A f \in BOOLEAN : BoundedMessage([job[w].msg EXCEPT !.redelivered = f])
      BY <2>1 DEF BoundedMessage, Message
    <2>4. ASSUME NEW m, BoundedMessage(m), Send(m)
          PROVE  IsABag(queue') /\ \A x \in BagToSet(queue') : x \in BagToSet(queue) \/ BoundedMessage(x)
      BY <2>4, PutInBag DEF Send, TypeOK
    <2>5. UNCHANGED queue =>
            IsABag(queue') /\ \A x \in BagToSet(queue') : x \in BagToSet(queue)
      BY DEF TypeOK
    <2>6. CASE Resend(w)
      BY <1>0, <2>3, <2>4, <2>6, TypeStep DEF Resend, TypeOK
    <2>7. CASE Run(w)
      <3>1. PICK s \in ExitStatus :
              /\ job' = [job EXCEPT ![w] = [job[w] EXCEPT !.pc = "check", !.status = s]]
              /\ verdict' = [verdict EXCEPT ![TaskOf(w)] = s]
        BY <2>7 DEF Run, TypeOK
      <3>. QED
        BY <2>1, <2>2, <2>5, <2>7, <3>1, TypeStep DEF Run, TypeOK
    <2>8. CASE RunEmail(w)
      BY <1>0, <2>1, <2>5, <2>8, TypeStep DEF RunEmail, TypeOK
    <2>9. CASE CheckOrRetry(w)
      <3>1. Retries(w) => BoundedMessage(Again(w))
        BY <2>1 DEF Retries, Again, BoundedMessage, Message
      <3>2. IsABag(queue') /\ \A x \in BagToSet(queue') : x \in BagToSet(queue) \/ BoundedMessage(x)
        BY <2>4, <2>5, <2>9, <3>1 DEF CheckOrRetry
      <3>3. /\ job' = [job EXCEPT ![w] = [job[w] EXCEPT !.pc = "save"]]
            /\ UNCHANGED <<row, runs, verdict, late, failed, crashes, faults>>
        BY <2>9 DEF CheckOrRetry, TypeOK
      <3>. QED
        BY <2>2, <3>2, <3>3, TypeStep DEF TypeOK
    <2>10. CASE Save(w)
      <3>1. /\ job' = [job EXCEPT ![w] = [job[w] EXCEPT !.pc = "ack"]]
            /\ row' \in [Tasks -> 0 .. RetryCount] /\ late' \subseteq Tasks
            /\ UNCHANGED <<queue, runs, verdict, failed, crashes, faults>>
        BY <2>1, <2>10 DEF Save, TypeOK
      <3>. QED
        BY <2>2, <2>5, <3>1, TypeStep DEF TypeOK
    <2>11. CASE Acknowledge(w)
      BY <1>0, <2>5, <2>11, TypeStep DEF Acknowledge, TypeOK
    <2>12. CASE Fail(w)
      <3>1. /\ job' = [job EXCEPT ![w] = Idle]
            /\ failed' \subseteq Tasks /\ faults' \in 0 .. MaxFaults
            /\ UNCHANGED <<queue, row, runs, verdict, late, crashes>>
        BY <2>1, <2>12, ConstantsOK DEF Fail, TypeOK
      <3>. QED
        BY <1>0, <2>5, <3>1, TypeStep DEF TypeOK
    <2>13. CASE Crash(w)
      <3>1. IsABag(queue') /\ \A x \in BagToSet(queue') : x \in BagToSet(queue) \/ BoundedMessage(x)
        BY <2>3, <2>4, <2>5, <2>13 DEF Crash
      <3>2. PICK j : BoundedJob(j) /\ job' = [job EXCEPT ![w] = j]
        BY <1>0, <2>2, <2>13 DEF Crash, TypeOK
      <3>3. /\ failed' \subseteq Tasks /\ crashes' \in [Tasks -> Nat] /\ faults' \in 0 .. MaxFaults
            /\ UNCHANGED <<row, runs, verdict, late>>
        BY <2>1, <2>13, ConstantsOK DEF Crash, TypeOK
      <3>. QED
        BY <3>1, <3>2, <3>3, TypeStep DEF TypeOK
    <2>. QED
      BY <1>2, <2>6, <2>7, <2>8, <2>9, <2>10, <2>11, <2>12, <2>13 DEF Work
  <1>3. CASE UNCHANGED vars
    BY <1>3 DEF vars, TypeOK, RetriesBounded, TaskOf
  <1>. QED
    BY <1>1, <1>2, <1>3 DEF Next, Take

LEMMA TypeInvariant == Spec => []TypeInv
  BY TypeInit, TypeNext, PTL DEF Spec

\* TypeOK: the queue stays a bag of messages, and no row counts more than
\* retry_count attempts.
THEOREM TypeCorrect == Spec => []TypeOK
  BY TypeInvariant, PTL DEF TypeInv

\* RetriesBounded: no message asks for an attempt beyond retry_count, however
\* often its task was handed out twice.
THEOREM AttemptsBounded == Spec => []RetriesBounded
  BY TypeInvariant, PTL DEF TypeInv

------------------------------------------------------------------------------
\* A task none of whose jobs died or threw has one chain of attempts: at most
\* one message, or one job that has still to decide, and it is at the attempt
\* that the runs so far say; jobs behind it have pushed theirs and only save.

Works(w, t) == job[w].pc # "idle" /\ TaskOf(w) = t
Queued(t) == \E m \in BagToSet(queue) : m.task = t
Deciding(w, t) == Works(w, t) /\ At(w, {"run", "check"})

ChainMessages(t) ==
  \A m \in BagToSet(queue) : m.task = t =>
    m.redelivered = FALSE /\ m.attempts = runs[t] /\ queue[m] = 1

ChainJobs(t) ==
  \A w \in Workers : Works(w, t) =>
    /\ ~At(w, {"resend"})
    /\ Attempt(w) <= runs[t]
    /\ Deciding(w, t) => Attempt(w) = runs[t] /\ ~Queued(t)
    /\ At(w, {"check"}) => verdict[t] = job[w].status

\* Two jobs of the task are never at the same attempt.
ChainOrder(t) ==
  \A v, w \in Workers : Works(v, t) /\ Works(w, t) /\ Attempt(v) = Attempt(w) => v = w

\* The chain goes on, or ended for a reason.
ChainEnd(t) ==
  \/ Queued(t)
  \/ \E w \in Workers : Deciding(w, t)
  \/ verdict[t] = "retry" => runs[t] = RetryCount

\* The row counts the runs, or will when the newest job has saved it.
ChainRow(t) ==
  \/ row[t] = runs[t] \/ t \in late \/ Queued(t)
  \/ \E w \in Workers : Works(w, t) /\ At(w, {"run", "check", "save"}) /\ Attempt(w) = runs[t]

Chain(t) ==
  ChainMessages(t) /\ ChainJobs(t) /\ ChainOrder(t) /\ ChainEnd(t) /\ ChainRow(t)

ChainInv == \A t \in Tasks \ failed : Chain(t)

LEMMA ChainInit == Init => ChainInv
  <1>. SUFFICES ASSUME Init, NEW t \in Tasks PROVE Chain(t)
    BY DEF ChainInv
  <1>. DEFINE first == {[task |-> u, attempts |-> 0, redelivered |-> FALSE] : u \in Tasks}
              mine == [task |-> t, attempts |-> 0, redelivered |-> FALSE]
  <1>1. queue = SetToBag(first)
    BY DEF Init
  <1>2. BagToSet(queue) = first /\ \A m \in first : queue[m] = 1
    <2>. HIDE DEF first
    <2>. QED
      BY <1>1, FreshBag
  <1>3. mine \in first /\ mine.task = t /\ \A m \in first : m.attempts = 0 /\ m.redelivered = FALSE
    <2>1. mine \in first
      OBVIOUS
    <2>2. ASSUME NEW m \in first PROVE m.attempts = 0 /\ m.redelivered = FALSE
      <3>1. PICK u \in Tasks : m = [task |-> u, attempts |-> 0, redelivered |-> FALSE]
        OBVIOUS
      <3>. QED
        BY <3>1
    <2>. QED
      BY <2>1, <2>2
  <1>4. Queued(t)
    BY <1>2, <1>3 DEF Queued
  <1>5. ChainMessages(t)
    BY <1>2, <1>3 DEF ChainMessages, Init
  <1>6. \A w \in Workers : ~Works(w, t)
    BY DEF Works, Init, Idle
  <1>. QED
    BY <1>4, <1>5, <1>6 DEF Chain, ChainJobs, ChainOrder, ChainEnd, ChainRow

\* A step that is about other tasks leaves the chain of t as it was.
SameTask(t) ==
  /\ \A m : m.task = t =>
       /\ m \in BagToSet(queue') <=> m \in BagToSet(queue)
       /\ m \in BagToSet(queue) => queue'[m] = queue[m]
  /\ \A w \in Workers :
       /\ Works(w, t)' <=> Works(w, t)
       /\ Works(w, t) => job'[w] = job[w]
  /\ row'[t] = row[t] /\ runs'[t] = runs[t] /\ verdict'[t] = verdict[t]
  /\ t \in late => t \in late'

LEMMA ChainElsewhere ==
  ASSUME NEW t \in Tasks, Chain(t), SameTask(t)
  PROVE  Chain(t)'
  <1>1. Queued(t)' <=> Queued(t)
    BY DEF SameTask, Queued
  <1>2. \A w \in Workers : Works(w, t) =>
          /\ \A pcs : At(w, pcs)' <=> At(w, pcs)
          /\ Attempt(w)' = Attempt(w)
    BY DEF SameTask, At, Attempt
  <1>3. \A w \in Workers : Deciding(w, t)' <=> Deciding(w, t)
    BY DEF SameTask, Deciding, At
  <1>4. ChainMessages(t)'
    BY DEF SameTask, Chain, ChainMessages
  <1>5. ChainJobs(t)'
    BY <1>1, <1>3 DEF SameTask, Chain, ChainJobs, At, Attempt
  <1>6. ChainOrder(t)'
    BY DEF SameTask, Chain, ChainOrder, Attempt
  <1>7. ChainEnd(t)'
    BY <1>1, <1>3 DEF SameTask, Chain, ChainEnd
  <1>8. ChainRow(t)'
    BY <1>1 DEF SameTask, Chain, ChainRow, At, Attempt
  <1>. QED
    BY <1>4, <1>5, <1>6, <1>7, <1>8 DEF Chain

\* Only the job of worker w changes, and the queue by messages of one task.
LEMMA OtherTask ==
  ASSUME TypeInv, NEW w \in Workers, NEW j, job' = [job EXCEPT ![w] = j],
         NEW t \in Tasks, ~Works(w, t), j.pc = "idle" \/ j.msg.task # t,
         row'[t] = row[t], runs'[t] = runs[t], verdict'[t] = verdict[t], t \in late => t \in late',
         \A m : m.task = t =>
           /\ m \in BagToSet(queue') <=> m \in BagToSet(queue)
           /\ m \in BagToSet(queue) => queue'[m] = queue[m]
  PROVE  SameTask(t)
  <1>1. job' \in [Workers -> {job'[v] : v \in Workers}] /\ job'[w] = j
        /\ \A v \in Workers : v # w => job'[v] = job[v]
    BY DEF TypeInv, TypeOK
  <1>2. \A v \in Workers : (Works(v, t)' <=> Works(v, t)) /\ (Works(v, t) => job'[v] = job[v])
    BY <1>1 DEF Works, TaskOf
  <1>. QED
    BY <1>2 DEF SameTask

\* Putting a message of another task in the queue.
LEMMA PutElsewhere ==
  ASSUME TypeInv, NEW m, Send(m), NEW t, m.task # t
  PROVE  \A x : x.task = t =>
           /\ x \in BagToSet(queue') <=> x \in BagToSet(queue)
           /\ x \in BagToSet(queue) => queue'[x] = queue[x]
  <1>1. IsABag(queue) /\ queue' = queue (+) SetToBag({m})
    BY DEF Send, TypeInv, TypeOK
  <1>2. LET C == queue (+) SetToBag({m}) IN
          /\ BagToSet(C) = BagToSet(queue) \cup {m}
          /\ \A x \in BagToSet(queue) : x # m => C[x] = queue[x]
    BY <1>1, PutInBag, Zenon
  <1>. QED
    BY <1>1, <1>2

LEMMA ChainDeliver ==
  ASSUME TypeInv, NEW w \in Workers, NEW m \in BagToSet(queue), Deliver(w, m),
         NEW t \in Tasks, Chain(t)
  PROVE  Chain(t)'
  <1>. DEFINE j == [pc |-> IF m.redelivered THEN "resend" ELSE "run",
                    msg |-> m, status |-> "failed", held |-> TRUE]
  <1>1. /\ job[w].pc = "idle"
        /\ queue' = queue (-) SetToBag({m})
        /\ job' = [job EXCEPT ![w] = j]
        /\ runs' = IF m.redelivered THEN runs ELSE [runs EXCEPT ![m.task] = @ + 1]
        /\ row' = row /\ verdict' = verdict /\ late' = late
    BY DEF Deliver, At
  <1>2. /\ m \in Message /\ m.task \in Tasks /\ m.attempts \in Nat
        /\ \A u \in Tasks : runs[u] \in Nat
    BY ConstantsOK DEF TypeInv, TypeOK, Message
  <1>3. /\ BagToSet(queue') \subseteq BagToSet(queue)
        /\ \A x \in BagToSet(queue) : x # m => x \in BagToSet(queue') /\ queue'[x] = queue[x]
        /\ queue[m] = 1 => m \notin BagToSet(queue')
    BY <1>1, TakeFromBag DEF TypeInv, TypeOK
  <1>4. CASE m.task # t
    <2>1. runs'[t] = runs[t]
      BY <1>1, <1>2, <1>4 DEF TypeInv, TypeOK
    <2>2. j.msg.task # t /\ ~Works(w, t)
      BY <1>1, <1>4 DEF Works
    <2>3. \A x : x.task = t =>
            /\ x \in BagToSet(queue') <=> x \in BagToSet(queue)
            /\ x \in BagToSet(queue) => queue'[x] = queue[x]
      BY <1>3, <1>4
    <2>. HIDE DEF j
    <2>4. SameTask(t)
      BY <1>1, <2>1, <2>2, <2>3, OtherTask
    <2>. QED
      BY <2>4, ChainElsewhere
  <1>5. CASE m.task = t
    <2>1. m.redelivered = FALSE /\ m.attempts = runs[t] /\ queue[m] = 1
      BY <1>5 DEF Chain, ChainMessages
    <2>2. ASSUME NEW x \in BagToSet(queue), x.task = t PROVE x = m
      <3>1. x.redelivered = FALSE /\ x.attempts = runs[t] /\ x \in Message
        BY <2>2 DEF Chain, ChainMessages, TypeInv, TypeOK
      <3>. QED
        BY <1>2, <1>5, <2>1, <2>2, <3>1 DEF Message
    <2>3. ~Queued(t)' /\ Queued(t)
      BY <1>3, <1>5, <2>1, <2>2 DEF Queued
    <2>4. /\ runs'[t] = runs[t] + 1
          /\ job'[w].pc = "run" /\ job'[w].msg = m
          /\ \A v \in Workers : v # w => job'[v] = job[v]
      BY <1>1, <1>2, <1>5, <2>1 DEF TypeInv, TypeOK
    <2>5. Works(w, t)' /\ Attempt(w)' = runs'[t] /\ Deciding(w, t)'
      BY <1>2, <1>5, <2>1, <2>4 DEF Works, TaskOf, Attempt, Deciding, At
    <2>6. \A v \in Workers : v # w /\ Works(v, t)' =>
            /\ Works(v, t) /\ job'[v] = job[v] /\ Attempt(v) <= runs[t]
            /\ Attempt(v)' = Attempt(v) /\ Attempt(v) \in Nat
            /\ ~At(v, {"resend", "run", "check"})
      BY <2>3, <2>4, JobKinds DEF Works, TaskOf, Chain, ChainJobs, Attempt, Deciding, At, TypeInv
    <2>7. ChainMessages(t)'
      BY <2>3 DEF ChainMessages, Queued
    <2>8. ChainJobs(t)'
      BY <1>2, <2>3, <2>4, <2>5, <2>6 DEF ChainJobs, Deciding, At
    <2>9. ChainOrder(t)'
      BY <1>2, <2>4, <2>5, <2>6 DEF Chain, ChainOrder
    <2>10. ChainEnd(t)' /\ ChainRow(t)'
      BY <2>4, <2>5 DEF ChainEnd, ChainRow, At
    <2>. QED
      BY <2>7, <2>8, <2>9, <2>10 DEF Chain
  <1>. QED
    BY <1>4, <1>5

\* A worker's step that is about a task other than t.
LEMMA ChainOthersWork ==
  ASSUME TypeInv, NEW w \in Workers, Work(w) \/ Fail(w) \/ Crash(w),
         NEW t \in Tasks, TaskOf(w) # t, Chain(t)
  PROVE  Chain(t)'
  <1>1. job[w].pc # "idle" /\ TaskOf(w) \in Tasks
    BY JobKinds DEF TypeInv, Work, Resend, Run, RunEmail, CheckOrRetry, Save, Acknowledge,
                    Fail, Crash, At
  <1>2. ~Works(w, t)
    BY DEF Works
  <1>3. PICK j : job' = [job EXCEPT ![w] = j] /\ (j.pc = "idle" \/ j.msg.task # t)
    <2>1. Idle.pc = "idle"
      BY DEF Idle
    <2>2. job[w] \in Job /\ job[w].msg.task # t
      BY <1>1, JobKinds DEF TaskOf, TypeInv
    <2>3. ASSUME NEW pc, NEW s PROVE [job[w] EXCEPT !.pc = pc, !.status = s].msg.task # t
      BY <2>2 DEF Job
    <2>4. ASSUME NEW pc PROVE [job[w] EXCEPT !.pc = pc].msg.task # t
      BY <2>2 DEF Job
    <2>5. [job[w] EXCEPT !.held = FALSE].msg.task # t
      BY <2>2 DEF Job
    <2>6. CASE job' = [job EXCEPT ![w] = Idle]
      BY <2>1, <2>6
    <2>7. CASE Run(w)
      <3>1. PICK s : job' = [job EXCEPT ![w] = [job[w] EXCEPT !.pc = "check", !.status = s]]
        BY <2>7 DEF Run, TypeInv, TypeOK
      <3>. QED
        BY <2>3, <3>1
    <2>8. CASE CheckOrRetry(w)
      BY <2>4, <2>8 DEF CheckOrRetry, TypeInv, TypeOK
    <2>9. CASE Save(w)
      BY <2>4, <2>9 DEF Save, TypeInv, TypeOK
    <2>10. CASE job' = [job EXCEPT ![w].held = FALSE]
      BY <2>5, <2>10 DEF TypeInv, TypeOK
    <2>. QED
      BY <2>6, <2>7, <2>8, <2>9, <2>10 DEF Work, Resend, RunEmail, Acknowledge, Fail, Crash
  <1>4. /\ row'[t] = row[t] /\ runs' = runs /\ verdict'[t] = verdict[t] /\ (t \in late => t \in late')
    BY <1>1 DEF TypeInv, TypeOK, Work, Resend, Run, RunEmail, CheckOrRetry, Save, Acknowledge, Fail, Crash
  <1>5. \A x : x.task = t =>
          /\ x \in BagToSet(queue') <=> x \in BagToSet(queue)
          /\ x \in BagToSet(queue) => queue'[x] = queue[x]
    <2>1. /\ \A f \in BOOLEAN : [job[w].msg EXCEPT !.redelivered = f].task # t
          /\ Again(w).task # t
      BY <1>1, JobKinds DEF Message, Again, TaskOf, TypeInv
    <2>2. queue' = queue \/ Send(Again(w)) \/ \E f \in BOOLEAN : Send([job[w].msg EXCEPT !.redelivered = f])
      BY DEF Work, Resend, Run, RunEmail, CheckOrRetry, Save, Acknowledge, Fail, Crash
    <2>. QED
      BY <2>1, <2>2, PutElsewhere
  <1>6. SameTask(t)
    BY <1>2, <1>3, <1>4, <1>5, OtherTask
  <1>. QED
    BY <1>6, ChainElsewhere

\* A worker's step in its job of t.
LEMMA ChainOwnWork ==
  ASSUME TypeInv, NEW w \in Workers, NEW t \in Tasks, Works(w, t), Chain(t),
         Run(w) \/ CheckOrRetry(w) \/ Save(w) \/ Acknowledge(w)
  PROVE  Chain(t)'
  <1>0. /\ TaskOf(w) = t /\ job[w] \in Job /\ job[w].msg \in Message /\ runs[t] \in Nat
        /\ \A v \in Workers : Works(v, t) => Attempt(v) \in Nat /\ Attempt(v) <= runs[t]
    BY JobKinds DEF Works, TypeInv, TypeOK, Chain, ChainJobs
  <1>1. runs' = runs /\ \A v \in Workers : v # w => job'[v] = job[v]
    BY DEF Run, CheckOrRetry, Save, Acknowledge, TypeInv, TypeOK
  <1>2. \A v \in Workers : v # w =>
          /\ Works(v, t)' <=> Works(v, t)
          /\ Works(v, t) => Attempt(v)' = Attempt(v) /\ Attempt(v) # Attempt(w)
          /\ \A pcs : At(v, pcs)' <=> At(v, pcs)
    BY <1>1 DEF Works, TaskOf, Attempt, At, Chain, ChainOrder
  <1>3. CASE Run(w)
    <2>1. PICK s \in ExitStatus :
            /\ job' = [job EXCEPT ![w].pc = "check", ![w].status = s]
            /\ verdict' = [verdict EXCEPT ![TaskOf(w)] = s]
      BY <1>3 DEF Run
    <2>2. /\ job'[w].pc = "check" /\ job'[w].status = s /\ job'[w].msg = job[w].msg
          /\ verdict'[t] = s
      BY <1>0, <2>1 DEF TypeInv, TypeOK, Job
    <2>3. Works(w, t)' /\ Deciding(w, t)' /\ Attempt(w)' = Attempt(w) /\ At(w, {"check"})'
      BY <1>0, <2>2 DEF Works, TaskOf, Deciding, Attempt, At
    <2>4. Attempt(w) = runs[t] /\ ~Queued(t) /\ queue' = queue /\ row' = row /\ late' = late
      BY <1>3 DEF Run, Chain, ChainJobs, Deciding, At
    <2>5. \A v \in Workers : v # w /\ Works(v, t) => ~Deciding(v, t) /\ ~At(v, {"check", "run"})
      BY <1>2, <2>4 DEF Chain, ChainJobs, Deciding, At
    <2>6. ChainMessages(t)' /\ ~Queued(t)'
      BY <2>4 DEF ChainMessages, Queued
    <2>7. ChainJobs(t)'
      BY <1>0, <1>1, <1>2, <2>2, <2>3, <2>4, <2>5, <2>6 DEF Chain, ChainJobs, Deciding, At
    <2>8. ChainOrder(t)'
      BY <1>2, <2>3 DEF Chain, ChainOrder
    <2>9. ChainEnd(t)' /\ ChainRow(t)'
      BY <1>1, <2>3, <2>4 DEF ChainEnd, ChainRow, At
    <2>. QED
      BY <2>6, <2>7, <2>8, <2>9 DEF Chain
  <1>4. CASE CheckOrRetry(w)
    <2>1. /\ job'[w].pc = "save" /\ job'[w].status = job[w].status /\ job'[w].msg = job[w].msg
          /\ verdict' = verdict /\ row' = row /\ late' = late
      BY <1>0, <1>4 DEF CheckOrRetry, TypeInv, TypeOK, Job
    <2>2. Works(w, t)' /\ Attempt(w)' = Attempt(w) /\ At(w, {"save"})'
      BY <1>0, <2>1 DEF Works, TaskOf, Attempt, At
    <2>3. /\ Attempt(w) = runs[t] /\ ~Queued(t) /\ verdict[t] = job[w].status
          /\ \A v \in Workers : v # w => ~Deciding(v, t)
      <3>1. Deciding(w, t) /\ At(w, {"check"})
        BY <1>4 DEF CheckOrRetry, Deciding, At
      <3>2. Attempt(w) = runs[t] /\ ~Queued(t) /\ verdict[t] = job[w].status
        BY <3>1 DEF Chain, ChainJobs
      <3>3. \A v \in Workers : v # w => ~Deciding(v, t)
        BY <1>2, <3>2 DEF Chain, ChainJobs, Deciding
      <3>. QED
        BY <3>2, <3>3
    <2>4. \A v \in Workers : ~Deciding(v, t)'
      BY <1>2, <2>1, <2>3 DEF Deciding, At
    <2>5. ChainOrder(t)'
      BY <1>2, <2>2 DEF Chain, ChainOrder
    <2>6. ChainJobs(t)'
      BY <1>0, <1>1, <1>2, <2>1, <2>2, <2>4 DEF Chain, ChainJobs, At
    <2>7. ChainRow(t)'
      BY <1>1, <2>2, <2>3 DEF ChainRow, At
    <2>8. CASE Retries(w)
      <3>1. Send(Again(w)) /\ Again(w).task = t /\ Again(w).attempts = runs[t]
            /\ Again(w).redelivered = FALSE
        BY <1>0, <1>4, <2>3, <2>8 DEF CheckOrRetry, Again
      <3>2. Again(w) \notin BagToSet(queue)
        BY <2>3, <3>1 DEF Queued
      <3>3. /\ BagToSet(queue') = BagToSet(queue) \cup {Again(w)}
            /\ queue'[Again(w)] = 1
        BY <3>1, <3>2, PutInBag DEF Send, TypeInv, TypeOK
      <3>4. Queued(t)'
        BY <3>1, <3>3 DEF Queued
      <3>5. ChainMessages(t)'
        BY <1>1, <2>3, <3>1, <3>3 DEF ChainMessages, Queued
      <3>. QED
        BY <2>5, <2>6, <2>7, <3>4, <3>5 DEF Chain, ChainEnd
    <2>9. CASE ~Retries(w)
      <3>1. queue' = queue
        BY <1>4, <2>9 DEF CheckOrRetry
      <3>2. job[w].msg.attempts < RetryCount
        BY <1>0 DEF TypeInv, RetriesBounded, Works, Idle
      <3>3. verdict[t] = "retry" => runs[t] = RetryCount
        BY <1>0, <2>3, <2>9, <3>2, ConstantsOK DEF Retries, Attempt, Message
      <3>. QED
        BY <1>1, <2>1, <2>3, <2>5, <2>6, <2>7, <3>1, <3>3
           DEF Chain, ChainEnd, ChainMessages, Queued
    <2>. QED
      BY <2>8, <2>9
  <1>5. CASE Save(w)
    <2>1. /\ job'[w].pc = "ack" /\ job'[w].msg = job[w].msg /\ At(w, {"save"})
          /\ verdict' = verdict /\ queue' = queue /\ row'[t] = Attempt(w)
          /\ late' = IF runs[t] > Attempt(w) THEN late \cup {t} ELSE late
      BY <1>0, <1>5 DEF Save, TypeInv, TypeOK, Job
    <2>2. Works(w, t)' /\ Attempt(w)' = Attempt(w) /\ ~At(w, {"resend", "run", "check"})'
      BY <1>0, <2>1 DEF Works, TaskOf, Attempt, At
    <2>3. \A v \in Workers : Deciding(v, t)' <=> Deciding(v, t)
      BY <1>2, <2>1, <2>2 DEF Deciding, At
    <2>4. ChainMessages(t)' /\ (Queued(t)' <=> Queued(t))
      BY <1>1, <2>1 DEF Chain, ChainMessages, Queued
    <2>5. ChainJobs(t)'
      BY <1>0, <1>1, <1>2, <2>1, <2>2, <2>3, <2>4 DEF Chain, ChainJobs, Deciding, At
    <2>6. ChainOrder(t)'
      BY <1>2, <2>2 DEF Chain, ChainOrder
    <2>7. ChainEnd(t)'
      BY <1>1, <2>1, <2>3, <2>4 DEF Chain, ChainEnd
    <2>8. ChainRow(t)'
      <3>1. CASE Attempt(w) = runs[t]
        BY <1>1, <2>1, <3>1 DEF ChainRow
      <3>2. CASE runs[t] > Attempt(w)
        BY <2>1, <3>2 DEF ChainRow
      <3>. QED
        BY <1>0, <3>1, <3>2
    <2>. QED
      BY <2>4, <2>5, <2>6, <2>7, <2>8 DEF Chain
  <1>6. CASE Acknowledge(w)
    <2>1. /\ job'[w] = Idle /\ At(w, {"ack"})
          /\ verdict' = verdict /\ queue' = queue /\ row' = row /\ late' = late
      BY <1>6 DEF Acknowledge, TypeInv, TypeOK
    <2>2. ~Works(w, t)'
      BY <2>1 DEF Works, Idle
    <2>3. \A v \in Workers : Deciding(v, t)' <=> Deciding(v, t)
      BY <1>2, <2>1, <2>2 DEF Deciding, At
    <2>4. ChainMessages(t)' /\ (Queued(t)' <=> Queued(t))
      BY <1>1, <2>1 DEF Chain, ChainMessages, Queued
    <2>5. ChainJobs(t)'
      BY <1>1, <1>2, <2>1, <2>2, <2>3, <2>4 DEF Chain, ChainJobs
    <2>6. ChainOrder(t)'
      BY <1>2, <2>2 DEF Chain, ChainOrder
    <2>7. ChainEnd(t)'
      BY <1>1, <2>1, <2>3, <2>4 DEF Chain, ChainEnd
    <2>8. ChainRow(t)'
      BY <1>1, <1>2, <2>1, <2>4 DEF Chain, ChainRow, At
    <2>. QED
      BY <2>4, <2>5, <2>6, <2>7, <2>8 DEF Chain
  <1>. QED
    BY <1>3, <1>4, <1>5, <1>6

LEMMA ChainNext == TypeInv /\ ChainInv /\ [Next]_vars => ChainInv'
  <1>. SUFFICES ASSUME TypeInv, ChainInv, [Next]_vars, NEW t \in Tasks, t \notin failed'
                PROVE  Chain(t)'
    BY DEF ChainInv
  <1>1. Chain(t)
    <2>1. failed \subseteq failed'
      BY DEF Next, Take, Deliver, Work, Resend, Run, RunEmail, CheckOrRetry, Save, Acknowledge,
             Fail, Crash, vars
    <2>. QED
      BY <2>1 DEF ChainInv
  <1>2. ASSUME NEW w \in Workers, Take(w) PROVE Chain(t)'
    BY <1>1, <1>2, ChainDeliver DEF Take
  <1>3. ASSUME NEW w \in Workers, Work(w) \/ Fail(w) \/ Crash(w) PROVE Chain(t)'
    <2>1. CASE TaskOf(w) # t
      BY <1>1, <1>3, <2>1, ChainOthersWork
    <2>2. CASE TaskOf(w) = t
      <3>1. ~Fail(w) /\ ~Crash(w) /\ ~RunEmail(w)
        BY <2>2 DEF Fail, Crash, RunEmail
      <3>2. Works(w, t)
        BY <1>3, <2>2, JobKinds
           DEF TypeInv, Works, Work, Resend, Run, RunEmail, CheckOrRetry, Save, Acknowledge,
               Fail, Crash, At
      <3>3. ~Resend(w)
        BY <1>1, <3>2 DEF Chain, ChainJobs, Resend
      <3>. QED
        BY <1>1, <1>3, <3>1, <3>2, <3>3, ChainOwnWork DEF Work
    <2>. QED
      BY <2>1, <2>2
  <1>4. CASE UNCHANGED vars
    <2>1. SameTask(t)
      BY <1>4 DEF vars, SameTask, Works, TaskOf
    <2>. QED
      BY <1>1, <2>1, ChainElsewhere
  <1>. QED
    BY <1>2, <1>3, <1>4 DEF Next

\* GivesUpOnlyAtLimit: a task none of whose jobs died or threw is given up only
\* for an answer other than RETRY or after retry_count attempts, and its row
\* counts its runs unless a save was overtaken.
THEOREM GivesUpAtLimit == Spec => []GivesUpOnlyAtLimit
  <1>1. ChainInv /\ TypeInv => GivesUpOnlyAtLimit
    <2>. SUFFICES ASSUME ChainInv, TypeInv, NEW t \in Tasks \ failed, Settled(t)
                  PROVE  /\ verdict[t] = "retry" => runs[t] = RetryCount
                         /\ row[t] = runs[t] \/ t \in late
      BY DEF GivesUpOnlyAtLimit
    <2>1. ~Queued(t) /\ \A w \in Workers : ~Works(w, t)
      BY JobKinds DEF Settled, Queued, Works, TypeInv
    <2>. QED
      BY <2>1 DEF ChainInv, Chain, ChainEnd, ChainRow, Deciding
  <1>. QED
    BY <1>1, TypeInvariant, ChainInit, ChainNext, PTL DEF Spec

------------------------------------------------------------------------------
\* What is left of a task: the executions that its messages and jobs can still
\* lead to.  A job that is executed has used one of its message's; one that
\* saves or acknowledges has handed on what was left.

Copies(m) == IF BagIn(m, queue) THEN queue[m] ELSE 0
Left(m) == RetryCount - m.attempts

JobLeft(j, t) ==
  IF j.pc = "idle" \/ j.msg.task # t THEN 0
  ELSE IF j.pc = "resend" THEN Left(j.msg)
  ELSE IF j.pc \in {"run", "check"} THEN Left(j.msg) - 1
  ELSE 0

MessagesOf(t) == {m \in Message : m.task = t}
QueueLeft(t) == Total([m \in MessagesOf(t) |-> Copies(m) * Left(m)], MessagesOf(t))
JobsLeft(t) == Total([w \in Workers |-> JobLeft(job[w], t)], Workers)

\* Runs and what is left never exceed retry_count for the first message and
\* for each that a listener's death put back.
RunsCovered(t) == runs[t] + QueueLeft(t) + JobsLeft(t) <= RetryCount * (1 + crashes[t])

RunsInv == \A t \in Tasks : RunsCovered(t)

\* The effort that a task still takes.  A step of a worker takes one off; a
\* message costs five steps for each attempt it has left, and the two of being
\* sent again if its listener died.

MessageEffort(m) == 5 * Left(m) + (IF m.redelivered THEN 2 ELSE 0)

JobEffort(j, t) ==
  IF j.pc = "idle" \/ j.msg.task # t THEN 0
  ELSE IF j.pc = "resend" THEN 5 * Left(j.msg) + 1
  ELSE IF j.pc = "run" THEN 5 * Left(j.msg) - 1
  ELSE IF j.pc = "check" THEN 5 * Left(j.msg) - 2
  ELSE IF j.pc = "save" THEN 2
  ELSE 1

QueueEffort(t) == Total([m \in MessagesOf(t) |-> Copies(m) * MessageEffort(m)], MessagesOf(t))
JobsEffort(t) == Total([w \in Workers |-> JobEffort(job[w], t)], Workers)
Effort(t) == QueueEffort(t) + JobsEffort(t)

LEMMA MessageEffortType ==
  ASSUME NEW m \in Message
  PROVE  MessageEffort(m) \in Nat /\ (m.attempts < RetryCount => MessageEffort(m) > 0)
  <1>1. m.attempts \in 0 .. RetryCount
    BY DEF Message
  <1>. QED
    BY <1>1, ConstantsOK DEF MessageEffort, Left

\* The messages of a task are finitely many: an attempt and a mark each.
LEMMA FiniteMessages ==
  ASSUME NEW t \in Tasks
  PROVE  IsFiniteSet(MessagesOf(t))
  <1>. DEFINE D == (0 .. RetryCount) \X BOOLEAN
              message == [d \in D |-> [task |-> t, attempts |-> d[1], redelivered |-> d[2]]]
  <1>1. IsFiniteSet(D)
    <2>1. IsFiniteSet(0 .. RetryCount)
      BY ConstantsOK, FS_Interval
    <2>2. IsFiniteSet(BOOLEAN)
      <3>1. IsFiniteSet({TRUE})
        BY FS_Singleton
      <3>2. IsFiniteSet({TRUE} \cup {FALSE})
        BY <3>1, FS_AddElement
      <3>3. BOOLEAN = {TRUE} \cup {FALSE}
        OBVIOUS
      <3>. QED
        BY <3>2, <3>3, Zenon
    <2>. QED
      BY <2>1, <2>2, FS_Product
  <1>2. message \in Surjection(D, MessagesOf(t))
    <2>1. \A d \in D : message[d] \in MessagesOf(t)
      BY DEF MessagesOf, Message
    <2>2. ASSUME NEW m \in MessagesOf(t) PROVE \E d \in D : message[d] = m
      <3>. DEFINE d == <<m.attempts, m.redelivered>>
      <3>1. d \in D
        BY DEF MessagesOf, Message
      <3>2. message[d] = m
        BY <3>1 DEF MessagesOf, Message
      <3>. QED
        BY <3>1, <3>2
    <2>3. message \in [D -> MessagesOf(t)]
      BY <2>1
    <2>. HIDE DEF message, D
    <2>. QED
      BY <2>2, <2>3 DEF Surjection
  <1>. QED
    BY <1>1, <1>2, FS_Surjection

LEMMA LeftTypes ==
  ASSUME TypeInv, NEW t \in Tasks
  PROVE  /\ \A m \in MessagesOf(t) : Copies(m) \in Nat /\ Left(m) \in Nat
         /\ \A m \in MessagesOf(t) : Copies(m) * Left(m) \in Nat
         /\ \A w \in Workers : JobLeft(job[w], t) \in Nat
         /\ QueueLeft(t) \in Nat /\ JobsLeft(t) \in Nat
  <1>1. ASSUME NEW m \in MessagesOf(t) PROVE Copies(m) \in Nat /\ Left(m) \in Nat
    <2>1. Copies(m) \in Nat
      BY DEF TypeInv, TypeOK, Copies, BagIn, IsABag, BagToSet
    <2>2. m.attempts \in 0 .. RetryCount
      BY DEF MessagesOf, Message
    <2>. QED
      BY <2>1, <2>2, ConstantsOK DEF Left
  <1>2. \A m \in MessagesOf(t) : Copies(m) * Left(m) \in Nat
    BY <1>1
  <1>3. ASSUME NEW w \in Workers PROVE JobLeft(job[w], t) \in Nat
    <2>1. CASE job[w].pc = "idle"
      BY <2>1 DEF JobLeft
    <2>2. CASE job[w].pc # "idle"
      <3>1. job[w].msg.attempts \in Nat /\ job[w].msg.attempts < RetryCount
        BY <2>2, JobKinds DEF TypeInv, RetriesBounded
      <3>. QED
        BY <3>1, ConstantsOK DEF JobLeft, Left
    <2>. QED
      BY <2>1, <2>2
  <1>4. QueueLeft(t) \in Nat
    <2>. DEFINE f == [m \in MessagesOf(t) |-> Copies(m) * Left(m)]
    <2>1. \A m \in MessagesOf(t) : f[m] \in Int /\ f[m] >= 0
      BY <1>2
    <2>2. QueueLeft(t) = Total(f, MessagesOf(t))
      BY DEF QueueLeft
    <2>. HIDE DEF f
    <2>. QED
      BY <2>1, <2>2, FiniteMessages, TotalType
  <1>5. JobsLeft(t) \in Nat
    <2>. DEFINE f == [w \in Workers |-> JobLeft(job[w], t)]
    <2>1. \A w \in Workers : f[w] \in Int /\ f[w] >= 0
      BY <1>3
    <2>2. JobsLeft(t) = Total(f, Workers)
      BY DEF JobsLeft
    <2>. HIDE DEF f
    <2>. QED
      BY <2>1, <2>2, ConstantsOK, TotalType
  <1>. QED
    BY <1>1, <1>2, <1>3, <1>4, <1>5

\* What a message put in or taken out, and a job that changes, do to what is
\* left.

LEMMA PutCopies ==
  ASSUME TypeInv, NEW m, Send(m)
  PROVE  /\ Copies(m)' = Copies(m) + 1
         /\ \A x : x # m => Copies(x)' = Copies(x)
  BY DEF TypeInv, TypeOK, Send, Copies, BagIn, IsABag, BagToSet, SetToBag, (+)

LEMMA TakeCopies ==
  ASSUME TypeInv, NEW m \in BagToSet(queue), queue' = queue (-) SetToBag({m})
  PROVE  /\ Copies(m)' = Copies(m) - 1
         /\ \A x : x # m => Copies(x)' = Copies(x)
  BY DEF TypeInv, TypeOK, Copies, BagIn, IsABag, BagToSet, SetToBag, (-)

LEMMA CopiesChange ==
  ASSUME TypeInv, NEW t \in Tasks, NEW weight, \A x \in MessagesOf(t) : weight[x] \in Nat,
         NEW m \in Message, NEW d \in Int,
         Copies(m)' = Copies(m) + d, \A x : x # m => Copies(x)' = Copies(x)
  PROVE  Total([x \in MessagesOf(t) |-> Copies(x)' * weight[x]], MessagesOf(t))
           = Total([x \in MessagesOf(t) |-> Copies(x) * weight[x]], MessagesOf(t))
               + (IF m.task = t THEN d * weight[m] ELSE 0)
  <1>. DEFINE S == MessagesOf(t)
              f == [x \in S |-> Copies(x) * weight[x]]
              g == [x \in S |-> Copies(x)' * weight[x]]
  <1>. SUFFICES Total(g, S) = Total(f, S) + (IF m.task = t THEN d * weight[m] ELSE 0)
    OBVIOUS
  <1>1. IsFiniteSet(S) /\ \A x \in S : f[x] \in Int
    BY FiniteMessages, LeftTypes
  <1>2. Total(f, S) \in Int
    <2>. HIDE DEF f, S
    <2>. QED
      BY <1>1, TotalType
  <1>3. CASE m.task = t
    <2>1. m \in S
      BY <1>3 DEF MessagesOf
    <2>2. \A x \in S \ {m} : g[x] = f[x]
      OBVIOUS
    <2>3. Copies(m) \in Nat /\ weight[m] \in Nat
      BY <2>1, LeftTypes
    <2>4. g[m] = f[m] + d * weight[m] /\ g[m] \in Int /\ f[m] \in Int /\ d * weight[m] \in Int
      <3>1. f[m] = Copies(m) * weight[m] /\ g[m] = (Copies(m) + d) * weight[m]
        BY <2>1
      <3>2. (Copies(m) + d) * weight[m] = Copies(m) * weight[m] + d * weight[m]
        BY <2>3
      <3>3. Copies(m) * weight[m] \in Int /\ d * weight[m] \in Int
        BY <2>3
      <3>. QED
        BY <3>1, <3>2, <3>3
    <2>. HIDE DEF f, g
    <2>5. Total(g, S) = Total(f, S) - f[m] + g[m]
      BY <1>1, <2>1, <2>2, <2>4, TotalChange
    <2>. QED
      BY <1>2, <1>3, <2>4, <2>5
  <1>4. CASE m.task # t
    <2>1. \A x \in S : f[x] = g[x]
      BY <1>4 DEF MessagesOf
    <2>. HIDE DEF f, g
    <2>2. Total(f, S) = Total(g, S)
      BY <1>1, <2>1, TotalSame
    <2>. QED
      BY <1>2, <1>4, <2>2
  <1>. QED
    BY <1>3, <1>4

LEMMA QueueChange ==
  ASSUME TypeInv, NEW t \in Tasks, NEW m \in Message, NEW d \in Int,
         Copies(m)' = Copies(m) + d, \A x : x # m => Copies(x)' = Copies(x)
  PROVE  /\ QueueLeft(t)' = QueueLeft(t) + (IF m.task = t THEN d * Left(m) ELSE 0)
         /\ QueueEffort(t)' = QueueEffort(t) + (IF m.task = t THEN d * MessageEffort(m) ELSE 0)
  <1>. DEFINE S == MessagesOf(t)
              left == [x \in S |-> Left(x)]
              effort == [x \in S |-> MessageEffort(x)]
  <1>1. /\ QueueLeft(t) = Total([x \in S |-> Copies(x) * left[x]], S)
        /\ QueueLeft(t)' = Total([x \in S |-> Copies(x)' * left[x]], S)
        /\ m.task = t => left[m] = Left(m)
    BY DEF QueueLeft, MessagesOf, Left
  <1>2. /\ QueueEffort(t) = Total([x \in S |-> Copies(x) * effort[x]], S)
        /\ QueueEffort(t)' = Total([x \in S |-> Copies(x)' * effort[x]], S)
        /\ m.task = t => effort[m] = MessageEffort(m)
    BY DEF QueueEffort, MessagesOf, MessageEffort, Left
  <1>3. \A x \in S : left[x] \in Nat /\ effort[x] \in Nat
    BY LeftTypes, MessageEffortType DEF MessagesOf
  <1>. HIDE DEF left, effort
  <1>. QED
    BY <1>1, <1>2, <1>3, CopiesChange

LEMMA PutLeft ==
  ASSUME TypeInv, NEW t \in Tasks, NEW m \in Message, Send(m)
  PROVE  QueueLeft(t)' = QueueLeft(t) + (IF m.task = t THEN Left(m) ELSE 0)
  <1>1. QueueLeft(t)' = QueueLeft(t) + (IF m.task = t THEN 1 * Left(m) ELSE 0)
    BY PutCopies, QueueChange
  <1>2. Left(m) \in Int
    BY ConstantsOK DEF Left, Message
  <1>. QED
    BY <1>1, <1>2

LEMMA TakeLeft ==
  ASSUME TypeInv, NEW t \in Tasks, NEW m \in BagToSet(queue), queue' = queue (-) SetToBag({m})
  PROVE  QueueLeft(t)' = QueueLeft(t) - (IF m.task = t THEN Left(m) ELSE 0)
  <1>1. m \in Message
    BY DEF TypeInv, TypeOK
  <1>2. Left(m) \in Int /\ QueueLeft(t) \in Nat
    BY <1>1, ConstantsOK, LeftTypes DEF Left, Message
  <1>3. Copies(m) \in Int
    BY DEF TypeInv, TypeOK, Copies, BagIn, IsABag, BagToSet
  <1>4. Copies(m)' = Copies(m) + (-1) /\ \A x : x # m => Copies(x)' = Copies(x)
    BY <1>3, TakeCopies
  <1>5. QueueLeft(t)' = QueueLeft(t) + (IF m.task = t THEN (-1) * Left(m) ELSE 0)
    BY <1>1, <1>4, QueueChange
  <1>. QED
    BY <1>2, <1>5

LEMMA JobChange ==
  ASSUME TypeInv, NEW t \in Tasks, NEW w \in Workers, NEW j, job' = [job EXCEPT ![w] = j],
         JobLeft(j, t) \in Int
  PROVE  JobsLeft(t)' = JobsLeft(t) - JobLeft(job[w], t) + JobLeft(j, t)
  <1>. DEFINE f == [v \in Workers |-> JobLeft(job[v], t)]
              g == [v \in Workers |-> JobLeft(job'[v], t)]
  <1>1. JobsLeft(t) = Total(f, Workers) /\ JobsLeft(t)' = Total(g, Workers)
    BY DEF JobsLeft, JobLeft, Left
  <1>2. job'[w] = j /\ \A v \in Workers \ {w} : job'[v] = job[v]
    BY DEF TypeInv, TypeOK
  <1>3. /\ f[w] = JobLeft(job[w], t) /\ g[w] = JobLeft(j, t)
        /\ \A v \in Workers \ {w} : g[v] = f[v]
        /\ \A v \in Workers : f[v] \in Int
    BY <1>2, LeftTypes
  <1>. HIDE DEF f, g
  <1>4. Total(g, Workers) = Total(f, Workers) - f[w] + g[w]
    BY <1>3, ConstantsOK, TotalChange
  <1>. QED
    BY <1>1, <1>3, <1>4

LEMMA RunsInit == Init => RunsInv
  <1>. SUFFICES ASSUME Init, NEW t \in Tasks PROVE RunsCovered(t)
    BY DEF RunsInv
  <1>. DEFINE first == {[task |-> u, attempts |-> 0, redelivered |-> FALSE] : u \in Tasks}
              mine == [task |-> t, attempts |-> 0, redelivered |-> FALSE]
              S == MessagesOf(t)
              f == [m \in S |-> Copies(m) * Left(m)]
              zero == [m \in S |-> 0]
  <1>1. TypeInv
    BY TypeInit
  <1>2. BagToSet(queue) = first /\ \A m \in first : queue[m] = 1
    <2>1. queue = SetToBag(first)
      BY DEF Init
    <2>. HIDE DEF first
    <2>. QED
      BY <2>1, FreshBag
  <1>3. mine \in first /\ mine \in Message /\ mine \in S
    <2>1. mine \in first
      OBVIOUS
    <2>2. mine \in Message
      BY <1>1, <1>2, <2>1 DEF TypeInv, TypeOK
    <2>. QED
      BY <2>1, <2>2 DEF MessagesOf
  <1>4. Copies(mine) = 1 /\ Left(mine) = RetryCount
    <2>1. BagIn(mine, queue) /\ queue[mine] = 1
      BY <1>2, <1>3 DEF BagIn, BagToSet
    <2>. QED
      BY <2>1, ConstantsOK DEF Copies, Left
  <1>5. \A m \in S \ {mine} : Copies(m) = 0
    <2>1. ASSUME NEW m \in S, m \in first PROVE m = mine
      <3>1. PICK u \in Tasks : m = [task |-> u, attempts |-> 0, redelivered |-> FALSE]
        BY <2>1
      <3>. QED
        BY <3>1 DEF MessagesOf
    <2>. HIDE DEF first, mine
    <2>. QED
      BY <1>2, <2>1 DEF Copies, BagIn, BagToSet
  <1>6. QueueLeft(t) = RetryCount
    <2>1. /\ \A m \in S \ {mine} : f[m] = zero[m]
          /\ f[mine] = RetryCount /\ zero[mine] = 0 /\ \A m \in S : zero[m] \in Int
      <3>1. \A m \in S \ {mine} : f[m] = 0 * Left(m) /\ Left(m) \in Nat
        BY <1>1, <1>5, LeftTypes
      <3>2. \A m \in S \ {mine} : f[m] = 0
        BY <3>1
      <3>3. f[mine] = RetryCount
        BY <1>3, <1>4, ConstantsOK
      <3>. QED
        BY <1>3, <3>2, <3>3
    <2>2. \A m \in S : zero[m] = 0
      OBVIOUS
    <2>3. QueueLeft(t) = Total(f, S)
      BY DEF QueueLeft
    <2>4. IsFiniteSet(S)
      BY FiniteMessages
    <2>. HIDE DEF f, zero, S, mine
    <2>5. Total(zero, S) = 0
      BY <2>2, <2>4, TotalZero
    <2>6. Total(f, S) = Total(zero, S) - zero[mine] + f[mine]
      BY <1>3, <2>1, <2>4, ConstantsOK, TotalChange
    <2>. QED
      BY <2>1, <2>3, <2>5, <2>6, ConstantsOK
  <1>7. JobsLeft(t) = 0
    <2>. DEFINE g == [w \in Workers |-> JobLeft(job[w], t)]
    <2>1. \A w \in Workers : g[w] = 0
      BY DEF Init, Idle, JobLeft
    <2>2. JobsLeft(t) = Total(g, Workers)
      BY DEF JobsLeft
    <2>. HIDE DEF g
    <2>. QED
      BY <2>1, <2>2, ConstantsOK, TotalZero
  <1>. QED
    BY <1>6, <1>7, ConstantsOK DEF RunsCovered, Init

\* A step of worker w that leaves no more than there was, for what it ran.
LEMMA RunsStep ==
  ASSUME TypeInv, NEW t \in Tasks, RunsCovered(t),
         NEW w \in Workers, NEW j, job' = [job EXCEPT ![w] = j], JobLeft(j, t) \in Int,
         NEW queued \in Int, QueueLeft(t)' = QueueLeft(t) + queued,
         NEW ran \in Int, runs'[t] = runs[t] + ran,
         NEW died \in Nat, crashes'[t] = crashes[t] + died,
         ran + queued + JobLeft(j, t) <= JobLeft(job[w], t) + RetryCount * died
  PROVE  RunsCovered(t)'
  <1>1. JobsLeft(t)' = JobsLeft(t) - JobLeft(job[w], t) + JobLeft(j, t)
    BY JobChange
  <1>2. /\ runs[t] \in Nat /\ crashes[t] \in Nat /\ QueueLeft(t) \in Nat /\ JobsLeft(t) \in Nat
        /\ JobLeft(job[w], t) \in Nat
    BY LeftTypes DEF TypeInv, TypeOK
  <1>3. RetryCount * (1 + crashes'[t]) = RetryCount * (1 + crashes[t]) + RetryCount * died
    BY <1>2, ConstantsOK
  <1>4. RetryCount * (1 + crashes[t]) \in Int /\ RetryCount * died \in Int
    BY <1>2, ConstantsOK
  <1>5. runs[t] + QueueLeft(t) + JobsLeft(t) <= RetryCount * (1 + crashes[t])
    BY DEF RunsCovered
  <1>6. runs'[t] + QueueLeft(t)' + JobsLeft(t)' <= RetryCount * (1 + crashes'[t])
    <2>. DEFINE limit == RetryCount * (1 + crashes[t])
                paid == RetryCount * died
                before == JobLeft(job[w], t)
                after == JobLeft(j, t)
    <2>1. limit \in Int /\ paid \in Int /\ before \in Int /\ after \in Int
      BY <1>2, <1>4
    <2>2. runs[t] + QueueLeft(t) + JobsLeft(t) <= limit /\ ran + queued + after <= before + paid
      BY <1>5
    <2>3. runs[t] + ran + (QueueLeft(t) + queued) + (JobsLeft(t) - before + after) <= limit + paid
      <3>. HIDE DEF limit, paid, before, after
      <3>. QED
        BY <1>2, <2>1, <2>2
    <2>. QED
      BY <1>1, <1>3, <2>3
  <1>. QED
    BY <1>6 DEF RunsCovered

\* The weight of a job by what it is doing.
LEMMA JobLefts ==
  ASSUME NEW t, NEW j, j.msg.attempts \in 0 .. RetryCount - 1
  PROVE  /\ JobLeft(j, t) \in 0 .. RetryCount
         /\ j.msg.task # t => JobLeft(j, t) = 0
         /\ j.msg.task = t /\ j.pc = "resend" => JobLeft(j, t) = Left(j.msg)
         /\ j.msg.task = t /\ j.pc \in {"run", "check"} => JobLeft(j, t) = Left(j.msg) - 1
         /\ j.msg.task = t /\ j.pc \in {"save", "ack"} => JobLeft(j, t) = 0
         /\ Left(j.msg) \in 1 .. RetryCount
  BY ConstantsOK DEF JobLeft, Left

LEMMA RunsDeliver ==
  ASSUME TypeInv, NEW t \in Tasks, RunsCovered(t), NEW w \in Workers, NEW m \in BagToSet(queue),
         Deliver(w, m)
  PROVE  RunsCovered(t)'
  <1>. DEFINE j == [pc |-> IF m.redelivered THEN "resend" ELSE "run",
                    msg |-> m, status |-> "failed", held |-> TRUE]
              ran == IF m.task = t /\ ~m.redelivered THEN 1 ELSE 0
              queued == IF m.task = t THEN -Left(m) ELSE 0
  <1>1. m \in Message /\ m.attempts \in 0 .. RetryCount - 1 /\ m.redelivered \in BOOLEAN
    BY ConstantsOK DEF TypeInv, TypeOK, RetriesBounded, Message
  <1>2. job' = [job EXCEPT ![w] = j] /\ crashes'[t] = crashes[t] + 0
    BY DEF Deliver, TypeInv, TypeOK
  <1>3. Left(m) \in Int
    BY <1>1, ConstantsOK DEF Left
  <1>4. queued \in Int /\ QueueLeft(t)' = QueueLeft(t) + queued
    BY <1>3, LeftTypes, TakeLeft DEF Deliver
  <1>5. ran \in Int /\ runs'[t] = runs[t] + ran
    BY <1>1 DEF Deliver, TypeInv, TypeOK, Message
  <1>6. JobLeft(job[w], t) = 0
    BY DEF Deliver, At, JobLeft
  <1>7. JobLeft(j, t) \in Int /\ ran + queued + JobLeft(j, t) <= 0
    <2>1. j.msg = m /\ j.pc = IF m.redelivered THEN "resend" ELSE "run"
      OBVIOUS
    <2>. HIDE DEF j
    <2>2. j.msg.attempts \in 0 .. RetryCount - 1
      BY <1>1, <2>1
    <2>3. /\ JobLeft(j, t) \in 0 .. RetryCount
          /\ m.task # t => JobLeft(j, t) = 0
          /\ m.task = t /\ j.pc = "resend" => JobLeft(j, t) = Left(m)
          /\ m.task = t /\ j.pc \in {"run", "check"} => JobLeft(j, t) = Left(m) - 1
      BY <2>1, <2>2, JobLefts
    <2>. QED
      BY <1>1, <1>3, <2>1, <2>3, ConstantsOK
  <1>. HIDE DEF j, ran, queued
  <1>8. ran + queued + JobLeft(j, t) <= JobLeft(job[w], t) + RetryCount * 0 /\ 0 \in Nat
    BY <1>6, <1>7, ConstantsOK
  <1>. QED
    BY <1>2, <1>4, <1>5, <1>7, <1>8, RunsStep

LEMMA RunsWork ==
  ASSUME TypeInv, NEW t \in Tasks, RunsCovered(t), NEW w \in Workers,
         Work(w) \/ Fail(w) \/ Crash(w)
  PROVE  RunsCovered(t)'
  <1>. DEFINE before == JobLeft(job[w], t)
              left == Left(job[w].msg)
              mine == job[w].msg.task = t
              checked(s) == [job[w] EXCEPT !.pc = "check", !.status = s]
              saved == [job[w] EXCEPT !.pc = "save"]
              acked == [job[w] EXCEPT !.pc = "ack"]
              orphan == [job[w] EXCEPT !.held = FALSE]
  <1>1. /\ job[w] \in Job /\ job[w].msg \in Message /\ job[w].pc # "idle"
        /\ job[w].msg.attempts \in 0 .. RetryCount - 1
    <2>1. job[w].pc # "idle"
      BY DEF Work, Resend, Run, RunEmail, CheckOrRetry, Save, Acknowledge, Fail, Crash, At, Idle,
             TypeInv, TypeOK, Job
    <2>. QED
      BY <2>1, JobKinds, ConstantsOK DEF TypeInv, RetriesBounded
  <1>2. /\ before \in Nat /\ left \in Nat /\ left >= 1 /\ left <= RetryCount
        /\ ~mine => before = 0
        /\ mine /\ At(w, {"resend"}) => before = left
        /\ mine /\ At(w, {"run", "check"}) => before = left - 1
        /\ mine /\ At(w, {"save", "ack"}) => before = 0
    BY <1>1, JobLefts, ConstantsOK DEF At
  <1>3. JobLeft(Idle, t) = 0
    BY DEF JobLeft, Idle
  <1>4. /\ \A s \in ExitStatus :
             JobLeft(checked(s), t) = IF mine THEN left - 1 ELSE 0
        /\ JobLeft(saved, t) = 0
        /\ JobLeft(acked, t) = 0
        /\ JobLeft(orphan, t) = before
    BY <1>1 DEF JobLeft, Job, Left
  <1>5. QueueLeft(t) \in Nat
    BY LeftTypes
  <1>6. UNCHANGED queue => QueueLeft(t)' = QueueLeft(t) + 0
    BY <1>5 DEF QueueLeft, MessagesOf, Copies, Left
  <1>7. ASSUME Send([job[w].msg EXCEPT !.redelivered = FALSE])
               \/ Send([job[w].msg EXCEPT !.redelivered = TRUE])
        PROVE  QueueLeft(t)' = QueueLeft(t) + (IF mine THEN left ELSE 0)
    <2>1. PICK m \in Message : Send(m) /\ m.task = job[w].msg.task /\ Left(m) = left
      <3>1. ASSUME NEW f \in BOOLEAN
            PROVE  LET m == [job[w].msg EXCEPT !.redelivered = f] IN
                   m \in Message /\ m.task = job[w].msg.task /\ Left(m) = left
        BY <1>1 DEF Message, Left
      <3>. HIDE DEF left
      <3>. QED
        BY <1>7, <3>1, Zenon
    <2>2. QueueLeft(t)' = QueueLeft(t) + (IF m.task = t THEN Left(m) ELSE 0)
      BY <2>1, PutLeft
    <2>. HIDE DEF left
    <2>. QED
      BY <2>1, <2>2
  <1>8. ASSUME NEW j, job' = [job EXCEPT ![w] = j], JobLeft(j, t) \in Int,
               QueueLeft(t)' \in Int, runs' = runs, crashes' = crashes,
               QueueLeft(t)' + JobLeft(j, t) <= QueueLeft(t) + before
        PROVE  RunsCovered(t)'
    <2>. DEFINE queued == QueueLeft(t)' - QueueLeft(t)
    <2>1. runs'[t] = runs[t] + 0 /\ crashes'[t] = crashes[t] + 0
      BY <1>8 DEF TypeInv, TypeOK
    <2>2. queued \in Int /\ QueueLeft(t)' = QueueLeft(t) + queued
      BY <1>5, <1>8
    <2>3. 0 + queued + JobLeft(j, t) <= before + RetryCount * 0
      BY <1>2, <1>5, <1>8, ConstantsOK
    <2>4. 0 \in Nat /\ 0 \in Int
      OBVIOUS
    <2>. HIDE DEF before, queued
    <2>. QED
      BY <1>8, <2>1, <2>2, <2>3, <2>4, RunsStep DEF before
  <1>. HIDE DEF before, left, checked, saved, acked, orphan
  <1>9. CASE Resend(w)
    <2>1. /\ At(w, {"resend"}) /\ job' = [job EXCEPT ![w] = Idle] /\ runs' = runs /\ crashes' = crashes
          /\ Send([job[w].msg EXCEPT !.redelivered = FALSE])
      BY <1>9 DEF Resend
    <2>2. QueueLeft(t)' = QueueLeft(t) + (IF mine THEN left ELSE 0)
      BY <1>7, <2>1
    <2>3. JobLeft(Idle, t) \in Int /\ QueueLeft(t)' \in Int
          /\ QueueLeft(t)' + JobLeft(Idle, t) <= QueueLeft(t) + before
      BY <1>2, <1>3, <1>5, <2>1, <2>2
    <2>. QED
      BY <1>8, <2>1, <2>3, Zenon
  <1>10. CASE Run(w)
    <2>1. PICK s \in ExitStatus :
            job' = [job EXCEPT ![w] = checked(s)]
      BY <1>10 DEF Run, TypeInv, TypeOK, checked
    <2>2. At(w, {"run", "check"}) /\ runs' = runs /\ crashes' = crashes /\ queue' = queue
      BY <1>10 DEF Run, At
    <2>3. JobLeft(checked(s), t) \in Int /\ QueueLeft(t)' \in Int
          /\ QueueLeft(t)' + JobLeft(checked(s), t) <= QueueLeft(t) + before
      BY <1>2, <1>4, <1>5, <1>6, <2>2
    <2>. QED
      BY <1>8, <2>1, <2>3, <2>2, Zenon
  <1>11. CASE RunEmail(w) \/ Acknowledge(w) \/ Fail(w)
    <2>1. job' = [job EXCEPT ![w] = Idle] /\ runs' = runs /\ crashes' = crashes /\ queue' = queue
      BY <1>11 DEF RunEmail, Acknowledge, Fail
    <2>2. JobLeft(Idle, t) \in Int /\ QueueLeft(t)' \in Int
          /\ QueueLeft(t)' + JobLeft(Idle, t) <= QueueLeft(t) + before
      BY <1>2, <1>3, <1>5, <1>6, <2>1
    <2>. QED
      BY <1>8, <2>1, <2>2, Zenon
  <1>12. CASE CheckOrRetry(w)
    <2>1. /\ job' = [job EXCEPT ![w] = saved]
          /\ At(w, {"run", "check"}) /\ runs' = runs /\ crashes' = crashes
      BY <1>12 DEF CheckOrRetry, At, TypeInv, TypeOK, saved
    <2>2. CASE Retries(w)
      <3>1. /\ Send(Again(w)) /\ Again(w) \in Message /\ Again(w).task = job[w].msg.task
            /\ Left(Again(w)) = left - 1
        BY <1>1, <1>12, <2>2, ConstantsOK
           DEF CheckOrRetry, Again, Attempt, TaskOf, Message, Left, left
      <3>2. QueueLeft(t)' = QueueLeft(t) + (IF mine THEN left - 1 ELSE 0)
        BY <3>1, PutLeft
      <3>3. JobLeft(saved, t) \in Int /\ QueueLeft(t)' \in Int
            /\ QueueLeft(t)' + JobLeft(saved, t) <= QueueLeft(t) + before
        BY <1>2, <1>4, <1>5, <2>1, <3>2
      <3>. QED
        BY <1>8, <2>1, <3>3, Zenon
    <2>3. CASE ~Retries(w)
      <3>1. queue' = queue
        BY <1>12, <2>3 DEF CheckOrRetry
      <3>2. JobLeft(saved, t) \in Int /\ QueueLeft(t)' \in Int
            /\ QueueLeft(t)' + JobLeft(saved, t) <= QueueLeft(t) + before
        BY <1>2, <1>4, <1>5, <1>6, <2>1, <3>1
      <3>. QED
        BY <1>8, <2>1, <3>2, Zenon
    <2>. QED
      BY <2>2, <2>3
  <1>13. CASE Save(w)
    <2>1. /\ job' = [job EXCEPT ![w] = acked]
          /\ runs' = runs /\ crashes' = crashes /\ queue' = queue
      BY <1>13 DEF Save, TypeInv, TypeOK, acked
    <2>2. JobLeft(acked, t) \in Int /\ QueueLeft(t)' \in Int
          /\ QueueLeft(t)' + JobLeft(acked, t) <= QueueLeft(t) + before
      BY <1>2, <1>4, <1>5, <1>6, <2>1
    <2>. QED
      BY <1>8, <2>1, <2>2, Zenon
  <1>14. CASE Crash(w)
    <2>. DEFINE died == IF mine THEN 1 ELSE 0
                queued == IF mine /\ job[w].pc # "resend" THEN left ELSE 0
    <2>1. died \in Nat /\ crashes'[t] = crashes[t] + died
      BY <1>14 DEF Crash, TypeInv, TypeOK, TaskOf
    <2>2. queued \in Int /\ QueueLeft(t)' = QueueLeft(t) + queued
      <3>1. CASE job[w].pc = "resend"
        BY <1>5, <1>6, <1>14, <3>1 DEF Crash, At
      <3>2. CASE job[w].pc # "resend"
        <4>1. Send([job[w].msg EXCEPT !.redelivered = TRUE])
          BY <1>14, <3>2 DEF Crash, At
        <4>2. QueueLeft(t)' = QueueLeft(t) + (IF mine THEN left ELSE 0)
          BY <1>7, <4>1
        <4>. QED
          BY <1>2, <3>2, <4>2
      <3>. QED
        BY <3>1, <3>2
    <2>3. runs'[t] = runs[t] + 0 /\ 0 \in Int
      BY <1>14 DEF Crash, TypeInv, TypeOK
    <2>4. ASSUME NEW j, job' = [job EXCEPT ![w] = j], JobLeft(j, t) \in Nat,
                 JobLeft(j, t) <= before, job[w].pc = "resend" => JobLeft(j, t) = 0
          PROVE  RunsCovered(t)'
      <3>1. 0 + queued + JobLeft(j, t) <= before + RetryCount * died
        <4>1. CASE mine
          BY <1>2, <2>4, <4>1, ConstantsOK DEF At
        <4>2. CASE ~mine
          BY <1>2, <2>4, <4>2, ConstantsOK
        <4>. QED
          BY <4>1, <4>2
      <3>2. JobLeft(j, t) \in Int
        BY <2>4
      <3>. HIDE DEF died, queued
      <3>. QED
        BY <2>1, <2>2, <2>3, <2>4, <3>1, <3>2, RunsStep DEF before
    <2>5. CASE job' = [job EXCEPT ![w] = Idle]
      <3>1. JobLeft(Idle, t) \in Nat /\ JobLeft(Idle, t) <= before /\ JobLeft(Idle, t) = 0
        BY <1>2, <1>3
      <3>. QED
        BY <2>4, <2>5, <3>1, Zenon
    <2>6. CASE job[w].pc # "resend" /\ job' = [job EXCEPT ![w] = orphan]
      <3>1. JobLeft(orphan, t) \in Nat /\ JobLeft(orphan, t) <= before
        BY <1>2, <1>4
      <3>. QED
        BY <2>4, <2>6, <3>1, Zenon
    <2>. QED
      BY <1>14, <2>5, <2>6 DEF Crash, At, TypeInv, TypeOK, orphan
  <1>. QED
    BY <1>9, <1>10, <1>11, <1>12, <1>13, <1>14 DEF Work

LEMMA RunsNext == TypeInv /\ RunsInv /\ [Next]_vars => RunsInv'
  <1>. SUFFICES ASSUME TypeInv, RunsInv, [Next]_vars, NEW t \in Tasks
                PROVE  RunsCovered(t)'
    BY DEF RunsInv
  <1>1. RunsCovered(t)
    BY DEF RunsInv
  <1>2. ASSUME NEW w \in Workers, Take(w) PROVE RunsCovered(t)'
    BY <1>1, <1>2, RunsDeliver DEF Take
  <1>3. ASSUME NEW w \in Workers, Work(w) \/ Fail(w) \/ Crash(w) PROVE RunsCovered(t)'
    BY <1>1, <1>3, RunsWork
  <1>4. CASE UNCHANGED vars
    BY <1>1, <1>4
       DEF vars, RunsCovered, QueueLeft, JobsLeft, MessagesOf, Copies, JobLeft, Left
  <1>. QED
    BY <1>2, <1>3, <1>4 DEF Next

\* RunsBounded: a task is executed at most retry_count times for its first
\* message and for each listener that died with one, however its copies and
\* their retries overtake each other.
THEOREM RunsAreBounded == Spec => []RunsBounded
  <1>1. TypeInv /\ RunsInv => RunsBounded
    <2>. SUFFICES ASSUME TypeInv, RunsInv, NEW t \in Tasks
                  PROVE  runs[t] <= RetryCount * (1 + crashes[t])
      BY DEF RunsBounded
    <2>1. RunsCovered(t) /\ QueueLeft(t) \in Nat /\ JobsLeft(t) \in Nat /\ runs[t] \in Nat
      BY LeftTypes DEF RunsInv, TypeInv, TypeOK
    <2>2. crashes[t] \in Nat
      BY DEF TypeInv, TypeOK
    <2>3. RetryCount * (1 + crashes[t]) \in Int
      BY <2>2, ConstantsOK
    <2>. QED
      BY <2>1, <2>3 DEF RunsCovered
  <1>. QED
    BY <1>1, TypeInvariant, RunsInit, RunsNext, PTL DEF Spec

------------------------------------------------------------------------------
\* How steps and deaths change the effort of a task.  AllSettle rests on this:
\* only deaths add effort, and they are bounded.

\* The effort of a task is used up just when the task has settled.
EffortIsLeft == \A t \in Tasks : Effort(t) = 0 <=> Settled(t)

\* A step without a fault brings one task nearer to its end, and no task
\* further from it.
NearsEnd ==
  faults' = faults =>
    \E t \in Tasks : /\ Effort(t)' < Effort(t)
                     /\ \A u \in Tasks \ {t} : Effort(u)' = Effort(u)

LEMMA JobEfforts ==
  ASSUME NEW t, NEW j, j.msg.attempts \in 0 .. RetryCount - 1
  PROVE  /\ JobEffort(j, t) \in Nat
         /\ j.msg.task # t => JobEffort(j, t) = 0
         /\ j.msg.task = t /\ j.pc # "idle" => JobEffort(j, t) > 0
         /\ j.msg.task = t /\ j.pc = "resend" => JobEffort(j, t) = 5 * Left(j.msg) + 1
         /\ j.msg.task = t /\ j.pc = "run" => JobEffort(j, t) = 5 * Left(j.msg) - 1
         /\ j.msg.task = t /\ j.pc = "check" => JobEffort(j, t) = 5 * Left(j.msg) - 2
         /\ j.msg.task = t /\ j.pc = "save" => JobEffort(j, t) = 2
         /\ j.msg.task = t /\ j.pc = "ack" => JobEffort(j, t) = 1
         /\ Left(j.msg) \in 1 .. RetryCount
  BY ConstantsOK DEF JobEffort, Left

LEMMA EffortTypes ==
  ASSUME TypeInv, NEW t \in Tasks
  PROVE  /\ \A m \in MessagesOf(t) : Copies(m) * MessageEffort(m) \in Nat
         /\ \A w \in Workers : JobEffort(job[w], t) \in Nat
         /\ QueueEffort(t) \in Nat /\ JobsEffort(t) \in Nat
  <1>1. ASSUME NEW m \in MessagesOf(t) PROVE Copies(m) * MessageEffort(m) \in Nat
    <2>1. Copies(m) \in Nat
      BY LeftTypes
    <2>2. MessageEffort(m) \in Nat
      BY MessageEffortType DEF MessagesOf
    <2>. QED
      BY <2>1, <2>2
  <1>2. ASSUME NEW w \in Workers PROVE JobEffort(job[w], t) \in Nat
    <2>1. CASE job[w].pc = "idle"
      BY <2>1 DEF JobEffort
    <2>2. CASE job[w].pc # "idle"
      <3>1. job[w].msg.attempts \in 0 .. RetryCount - 1
        BY <2>2, JobKinds, ConstantsOK DEF TypeInv, RetriesBounded
      <3>. QED
        BY <3>1, JobEfforts
    <2>. QED
      BY <2>1, <2>2
  <1>3. QueueEffort(t) \in Nat
    <2>. DEFINE f == [m \in MessagesOf(t) |-> Copies(m) * MessageEffort(m)]
    <2>1. \A m \in MessagesOf(t) : f[m] \in Int /\ f[m] >= 0
      BY <1>1
    <2>2. QueueEffort(t) = Total(f, MessagesOf(t))
      BY DEF QueueEffort
    <2>. HIDE DEF f
    <2>. QED
      BY <2>1, <2>2, FiniteMessages, TotalType
  <1>4. JobsEffort(t) \in Nat
    <2>. DEFINE f == [w \in Workers |-> JobEffort(job[w], t)]
    <2>1. \A w \in Workers : f[w] \in Int /\ f[w] >= 0
      BY <1>2
    <2>2. JobsEffort(t) = Total(f, Workers)
      BY DEF JobsEffort
    <2>. HIDE DEF f
    <2>. QED
      BY <2>1, <2>2, ConstantsOK, TotalType
  <1>. QED
    BY <1>1, <1>2, <1>3, <1>4

LEMMA EffortStep ==
  ASSUME TypeInv, NEW t \in Tasks,
         NEW w \in Workers, NEW j, job' = [job EXCEPT ![w] = j], JobEffort(j, t) \in Int,
         NEW queued \in Int, QueueEffort(t)' = QueueEffort(t) + queued
  PROVE  Effort(t)' = Effort(t) + (queued + JobEffort(j, t) - JobEffort(job[w], t))
  <1>. DEFINE f == [v \in Workers |-> JobEffort(job[v], t)]
              g == [v \in Workers |-> JobEffort(job'[v], t)]
  <1>1. JobsEffort(t) = Total(f, Workers) /\ JobsEffort(t)' = Total(g, Workers)
    BY DEF JobsEffort, JobEffort, Left
  <1>2. job'[w] = j /\ \A v \in Workers \ {w} : job'[v] = job[v]
    BY DEF TypeInv, TypeOK
  <1>3. /\ f[w] = JobEffort(job[w], t) /\ g[w] = JobEffort(j, t)
        /\ \A v \in Workers \ {w} : g[v] = f[v]
        /\ \A v \in Workers : f[v] \in Int
    BY <1>2, EffortTypes
  <1>. HIDE DEF f, g
  <1>4. Total(g, Workers) = Total(f, Workers) - f[w] + g[w]
    BY <1>3, ConstantsOK, TotalChange
  <1>5. QueueEffort(t) \in Nat /\ JobsEffort(t) \in Nat /\ JobEffort(job[w], t) \in Nat
    BY EffortTypes
  <1>. QED
    BY <1>1, <1>3, <1>4, <1>5 DEF Effort

LEMMA EffortDeliver ==
  ASSUME TypeInv, NEW t \in Tasks, NEW w \in Workers, NEW m \in BagToSet(queue), Deliver(w, m)
  PROVE  Effort(t)' = Effort(t) - (IF m.task = t THEN 1 ELSE 0)
  <1>. DEFINE j == [pc |-> IF m.redelivered THEN "resend" ELSE "run",
                    msg |-> m, status |-> "failed", held |-> TRUE]
              queued == IF m.task = t THEN (-1) * MessageEffort(m) ELSE 0
  <1>1. m \in Message /\ m.attempts \in 0 .. RetryCount - 1 /\ m.redelivered \in BOOLEAN
    BY ConstantsOK DEF TypeInv, TypeOK, RetriesBounded, Message
  <1>2. job' = [job EXCEPT ![w] = j]
    BY DEF Deliver
  <1>3. queued \in Int /\ QueueEffort(t)' = QueueEffort(t) + queued
    <2>1. Copies(m) \in Int
      BY DEF TypeInv, TypeOK, Copies, BagIn, IsABag, BagToSet
    <2>2. Copies(m)' = Copies(m) + (-1) /\ \A x : x # m => Copies(x)' = Copies(x)
      BY <2>1, TakeCopies DEF Deliver
    <2>3. MessageEffort(m) \in Nat
      BY <1>1, MessageEffortType
    <2>. QED
      BY <1>1, <2>2, <2>3, QueueChange
  <1>4. JobEffort(job[w], t) = 0
    BY DEF Deliver, At, JobEffort
  <1>5. JobEffort(j, t) \in Nat /\ queued + JobEffort(j, t) = IF m.task = t THEN -1 ELSE 0
    <2>1. j.msg = m /\ j.pc = IF m.redelivered THEN "resend" ELSE "run"
      OBVIOUS
    <2>. HIDE DEF j
    <2>2. j.msg.attempts \in 0 .. RetryCount - 1
      BY <1>1, <2>1
    <2>3. /\ JobEffort(j, t) \in Nat
          /\ m.task # t => JobEffort(j, t) = 0
          /\ m.task = t /\ j.pc = "resend" => JobEffort(j, t) = 5 * Left(m) + 1
          /\ m.task = t /\ j.pc = "run" => JobEffort(j, t) = 5 * Left(m) - 1
          /\ Left(m) \in 1 .. RetryCount
      BY <2>1, <2>2, JobEfforts
    <2>4. MessageEffort(m) = 5 * Left(m) + (IF m.redelivered THEN 2 ELSE 0)
      BY DEF MessageEffort
    <2>. QED
      BY <1>1, <2>1, <2>3, <2>4
  <1>6. Effort(t) \in Nat
    BY EffortTypes DEF Effort
  <1>. HIDE DEF j, queued
  <1>7. Effort(t)' = Effort(t) + (queued + JobEffort(j, t) - JobEffort(job[w], t))
    <2>1. JobEffort(j, t) \in Int
      BY <1>5
    <2>. QED
      BY <1>2, <1>3, <2>1, EffortStep
  <1>. QED
    BY <1>3, <1>4, <1>5, <1>6, <1>7

\* A death is no work: it is counted.
LEMMA CrashIsNoWork ==
  ASSUME TypeInv, NEW w \in Workers, Crash(w)
  PROVE  ~Work(w)
  BY DEF TypeInv, TypeOK, Crash, Work, Resend, Run, RunEmail, CheckOrRetry, Save, Acknowledge

\* What a step of a job does to the effort of a task: less by some if it is
\* work, more by one redelivered message at most if it is a death.
LEMMA EffortWork ==
  ASSUME TypeInv, NEW t \in Tasks, NEW w \in Workers, Work(w) \/ Fail(w) \/ Crash(w)
  PROVE  /\ job[w].msg.task # t => Effort(t)' = Effort(t)
         /\ job[w].msg.task = t /\ Work(w) => Effort(t)' < Effort(t)
         /\ Effort(t)' <= Effort(t) + (5 * RetryCount + 2)
  <1>. DEFINE before == JobEffort(job[w], t)
              left == Left(job[w].msg)
              mine == job[w].msg.task = t
              checked(s) == [job[w] EXCEPT !.pc = "check", !.status = s]
              saved == [job[w] EXCEPT !.pc = "save"]
              acked == [job[w] EXCEPT !.pc = "ack"]
              orphan == [job[w] EXCEPT !.held = FALSE]
  <1>1. /\ job[w] \in Job /\ job[w].msg \in Message /\ job[w].pc # "idle"
        /\ job[w].msg.attempts \in 0 .. RetryCount - 1
    <2>1. job[w].pc # "idle"
      BY DEF Work, Resend, Run, RunEmail, CheckOrRetry, Save, Acknowledge, Fail, Crash, At, Idle,
             TypeInv, TypeOK, Job
    <2>. QED
      BY <2>1, JobKinds, ConstantsOK DEF TypeInv, RetriesBounded
  <1>2. /\ before \in Nat /\ left \in 1 .. RetryCount
        /\ ~mine => before = 0
        /\ mine => before > 0
        /\ mine /\ At(w, {"resend"}) => before = 5 * left + 1
        /\ mine /\ At(w, {"run"}) => before = 5 * left - 1
        /\ mine /\ At(w, {"check"}) => before = 5 * left - 2
        /\ mine /\ At(w, {"save"}) => before = 2
    BY <1>1, JobEfforts DEF At
  <1>3. JobEffort(Idle, t) = 0
    BY DEF JobEffort, Idle
  <1>4. /\ \A s \in ExitStatus :
             JobEffort(checked(s), t) = IF mine THEN 5 * left - 2 ELSE 0
        /\ JobEffort(saved, t) = IF mine THEN 2 ELSE 0
        /\ JobEffort(acked, t) = IF mine THEN 1 ELSE 0
        /\ JobEffort(orphan, t) = before
    BY <1>1 DEF JobEffort, Job, Left
  <1>5. Effort(t) \in Nat /\ QueueEffort(t) \in Nat
    BY EffortTypes DEF Effort
  <1>6. UNCHANGED queue => QueueEffort(t)' = QueueEffort(t) + 0
    BY <1>5 DEF QueueEffort, MessagesOf, Copies, MessageEffort, Left
  <1>7. ASSUME NEW m \in Message, Send(m), m.task = job[w].msg.task
        PROVE  QueueEffort(t)' = QueueEffort(t) + (IF mine THEN MessageEffort(m) ELSE 0)
    <2>1. QueueEffort(t)' = QueueEffort(t) + (IF m.task = t THEN 1 * MessageEffort(m) ELSE 0)
      BY <1>7, PutCopies, QueueChange
    <2>2. MessageEffort(m) \in Nat
      BY MessageEffortType
    <2>. QED
      BY <1>7, <2>1, <2>2
  <1>8. ASSUME NEW back \in BOOLEAN, Send([job[w].msg EXCEPT !.redelivered = back])
        PROVE  QueueEffort(t)' = QueueEffort(t) + (IF mine THEN 5 * left + (IF back THEN 2 ELSE 0) ELSE 0)
    <2>. DEFINE m == [job[w].msg EXCEPT !.redelivered = back]
    <2>1. /\ m \in Message /\ m.task = job[w].msg.task
          /\ m.redelivered = back /\ m.attempts = job[w].msg.attempts
      BY <1>1 DEF Message
    <2>2. MessageEffort(m) = 5 * left + (IF back THEN 2 ELSE 0)
      BY <2>1 DEF MessageEffort, Left
    <2>3. Send(m)
      BY <1>8
    <2>. HIDE DEF m, mine, left
    <2>4. QueueEffort(t)' = QueueEffort(t) + (IF mine THEN MessageEffort(m) ELSE 0)
      BY <1>7, <2>1, <2>3, Zenon
    <2>. QED
      BY <2>2, <2>4
  <1>9. ASSUME NEW j, job' = [job EXCEPT ![w] = j], JobEffort(j, t) \in Int,
                NEW queued \in Int, QueueEffort(t)' = QueueEffort(t) + queued,
                ~mine => queued = 0 /\ JobEffort(j, t) = 0,
                mine /\ Work(w) => queued + JobEffort(j, t) < before,
                mine => queued + JobEffort(j, t) <= before + (5 * RetryCount + 2)
         PROVE  /\ ~mine => Effort(t)' = Effort(t)
                /\ mine /\ Work(w) => Effort(t)' < Effort(t)
                /\ Effort(t)' <= Effort(t) + (5 * RetryCount + 2)
    <2>1. Effort(t)' = Effort(t) + (queued + JobEffort(j, t) - before)
      BY <1>9, EffortStep
    <2>. HIDE DEF before, mine
    <2>2. CASE mine
      BY <1>2, <1>5, <1>9, <2>1, <2>2, ConstantsOK
    <2>3. CASE ~mine
      BY <1>2, <1>5, <1>9, <2>1, <2>3, ConstantsOK
    <2>. QED
      BY <2>2, <2>3
  <1>10. 0 \in Int /\ -1 \in Int /\ RetryCount \in Nat
    BY ConstantsOK
  <1>. HIDE DEF before, left, mine, checked, saved, acked, orphan
  <1>11. CASE Resend(w)
    <2>. DEFINE queued == IF mine THEN 5 * left ELSE 0
    <2>1. /\ At(w, {"resend"}) /\ job' = [job EXCEPT ![w] = Idle]
          /\ Send([job[w].msg EXCEPT !.redelivered = FALSE])
      BY <1>11 DEF Resend
    <2>2. QueueEffort(t)' = QueueEffort(t) + queued
      <3>1. QueueEffort(t)' = QueueEffort(t) + (IF mine THEN 5 * left + (IF FALSE THEN 2 ELSE 0) ELSE 0)
        BY <1>8, <2>1, Zenon
      <3>. QED
        BY <1>2, <3>1
    <2>3. /\ queued \in Int /\ JobEffort(Idle, t) \in Int
          /\ ~mine => queued = 0 /\ JobEffort(Idle, t) = 0
          /\ mine => queued + JobEffort(Idle, t) < before
          /\ mine => queued + JobEffort(Idle, t) <= before + (5 * RetryCount + 2)
      BY <1>2, <1>3, <1>10, <2>1
    <2>. HIDE DEF queued
    <2>4. /\ ~mine => Effort(t)' = Effort(t)
          /\ mine /\ Work(w) => Effort(t)' < Effort(t)
          /\ Effort(t)' <= Effort(t) + (5 * RetryCount + 2)
      BY <1>9, <2>1, <2>2, <2>3, Zenon
    <2>. QED
      BY <2>4 DEF mine
  <1>12. CASE Run(w)
    <2>1. PICK s \in ExitStatus : job' = [job EXCEPT ![w] = checked(s)]
      BY <1>12 DEF Run, TypeInv, TypeOK, checked
    <2>2. At(w, {"run"}) /\ UNCHANGED queue
      BY <1>12 DEF Run
    <2>3. /\ JobEffort(checked(s), t) \in Int
          /\ ~mine => 0 = 0 /\ JobEffort(checked(s), t) = 0
          /\ mine => 0 + JobEffort(checked(s), t) < before
          /\ mine => 0 + JobEffort(checked(s), t) <= before + (5 * RetryCount + 2)
      BY <1>2, <1>4, <1>10, <2>2
    <2>4. /\ ~mine => Effort(t)' = Effort(t)
          /\ mine /\ Work(w) => Effort(t)' < Effort(t)
          /\ Effort(t)' <= Effort(t) + (5 * RetryCount + 2)
      BY <1>6, <1>9, <1>10, <2>1, <2>2, <2>3, Zenon
    <2>. QED
      BY <2>4 DEF mine
  <1>13. CASE RunEmail(w) \/ Acknowledge(w) \/ Fail(w)
    <2>1. job' = [job EXCEPT ![w] = Idle] /\ UNCHANGED queue
      BY <1>13 DEF RunEmail, Acknowledge, Fail
    <2>2. /\ JobEffort(Idle, t) \in Int
          /\ ~mine => 0 = 0 /\ JobEffort(Idle, t) = 0
          /\ mine => 0 + JobEffort(Idle, t) < before
          /\ mine => 0 + JobEffort(Idle, t) <= before + (5 * RetryCount + 2)
      BY <1>2, <1>3, <1>10
    <2>3. /\ ~mine => Effort(t)' = Effort(t)
          /\ mine /\ Work(w) => Effort(t)' < Effort(t)
          /\ Effort(t)' <= Effort(t) + (5 * RetryCount + 2)
      BY <1>6, <1>9, <1>10, <2>1, <2>2, Zenon
    <2>. QED
      BY <2>3 DEF mine
  <1>14. CASE CheckOrRetry(w)
    <2>. DEFINE queued == IF mine /\ Retries(w) THEN 5 * left - 5 ELSE 0
    <2>1. At(w, {"check"}) /\ job' = [job EXCEPT ![w] = saved]
      BY <1>14 DEF CheckOrRetry, At, TypeInv, TypeOK, saved
    <2>2. QueueEffort(t)' = QueueEffort(t) + queued
      <3>1. CASE Retries(w)
        <4>1. /\ Send(Again(w)) /\ Again(w) \in Message /\ Again(w).task = job[w].msg.task
              /\ MessageEffort(Again(w)) = 5 * left - 5
          BY <1>1, <1>14, <3>1, ConstantsOK
             DEF CheckOrRetry, Retries, Again, Attempt, TaskOf, Message, MessageEffort, Left, left
        <4>. QED
          BY <1>7, <3>1, <4>1
      <3>2. CASE ~Retries(w)
        BY <1>6, <1>14, <3>2 DEF CheckOrRetry
      <3>. QED
        BY <3>1, <3>2
    <2>3. /\ queued \in Int /\ JobEffort(saved, t) \in Int
          /\ ~mine => queued = 0 /\ JobEffort(saved, t) = 0
          /\ mine => queued + JobEffort(saved, t) < before
          /\ mine => queued + JobEffort(saved, t) <= before + (5 * RetryCount + 2)
      BY <1>2, <1>4, <1>10, <2>1
    <2>. HIDE DEF queued
    <2>4. /\ ~mine => Effort(t)' = Effort(t)
          /\ mine /\ Work(w) => Effort(t)' < Effort(t)
          /\ Effort(t)' <= Effort(t) + (5 * RetryCount + 2)
      BY <1>9, <2>1, <2>2, <2>3, Zenon
    <2>. QED
      BY <2>4 DEF mine
  <1>15. CASE Save(w)
    <2>1. At(w, {"save"}) /\ job' = [job EXCEPT ![w] = acked] /\ UNCHANGED queue
      BY <1>15 DEF Save, TypeInv, TypeOK, acked
    <2>2. /\ JobEffort(acked, t) \in Int
          /\ ~mine => 0 = 0 /\ JobEffort(acked, t) = 0
          /\ mine => 0 + JobEffort(acked, t) < before
          /\ mine => 0 + JobEffort(acked, t) <= before + (5 * RetryCount + 2)
      BY <1>2, <1>4, <1>10, <2>1
    <2>3. /\ ~mine => Effort(t)' = Effort(t)
          /\ mine /\ Work(w) => Effort(t)' < Effort(t)
          /\ Effort(t)' <= Effort(t) + (5 * RetryCount + 2)
      BY <1>6, <1>9, <1>10, <2>1, <2>2, Zenon
    <2>. QED
      BY <2>3 DEF mine
  <1>16. CASE Crash(w)
    <2>. DEFINE queued == IF mine /\ ~At(w, {"resend"}) THEN 5 * left + 2 ELSE 0
    <2>1. queued \in Int /\ QueueEffort(t)' = QueueEffort(t) + queued
      <3>1. CASE At(w, {"resend"})
        BY <1>6, <1>16, <3>1 DEF Crash
      <3>2. CASE ~At(w, {"resend"})
        <4>1. Send([job[w].msg EXCEPT !.redelivered = TRUE])
          BY <1>16, <3>2 DEF Crash
        <4>2. QueueEffort(t)' = QueueEffort(t) + (IF mine THEN 5 * left + (IF TRUE THEN 2 ELSE 0) ELSE 0)
          BY <1>8, <4>1, Zenon
        <4>. QED
          BY <1>2, <3>2, <4>2
      <3>. QED
        BY <3>1, <3>2
    <2>2. (~mine => queued = 0) /\ queued <= 5 * RetryCount + 2
      BY <1>2, <1>10
    <2>3. ~Work(w)
      BY <1>16, CrashIsNoWork
    <2>4. ASSUME NEW j, job' = [job EXCEPT ![w] = j], JobEffort(j, t) \in Nat, JobEffort(j, t) <= before
          PROVE  /\ ~mine => Effort(t)' = Effort(t)
                 /\ mine /\ Work(w) => Effort(t)' < Effort(t)
                 /\ Effort(t)' <= Effort(t) + (5 * RetryCount + 2)
      <3>1. /\ JobEffort(j, t) \in Int
            /\ ~mine => queued = 0 /\ JobEffort(j, t) = 0
            /\ mine /\ Work(w) => queued + JobEffort(j, t) < before
            /\ mine => queued + JobEffort(j, t) <= before + (5 * RetryCount + 2)
        <4>. HIDE DEF queued
        <4>. QED
          BY <1>2, <1>10, <2>1, <2>2, <2>3, <2>4
      <3>. HIDE DEF queued
      <3>. QED
        BY <1>9, <2>1, <2>4, <3>1, Zenon
    <2>5. CASE job' = [job EXCEPT ![w] = Idle]
      <3>1. JobEffort(Idle, t) \in Nat /\ JobEffort(Idle, t) <= before
        BY <1>2, <1>3
      <3>2. /\ ~mine => Effort(t)' = Effort(t)
            /\ mine /\ Work(w) => Effort(t)' < Effort(t)
            /\ Effort(t)' <= Effort(t) + (5 * RetryCount + 2)
        BY <2>4, <2>5, <3>1, Zenon
      <3>. QED
        BY <3>2 DEF mine
    <2>6. CASE job' = [job EXCEPT ![w] = orphan]
      <3>1. JobEffort(orphan, t) \in Nat /\ JobEffort(orphan, t) <= before
        BY <1>2, <1>4
      <3>2. /\ ~mine => Effort(t)' = Effort(t)
            /\ mine /\ Work(w) => Effort(t)' < Effort(t)
            /\ Effort(t)' <= Effort(t) + (5 * RetryCount + 2)
        BY <2>4, <2>6, <3>1, Zenon
      <3>. QED
        BY <3>2 DEF mine
    <2>. QED
      BY <1>16, <2>5, <2>6 DEF Crash, TypeInv, TypeOK, orphan
  <1>. QED
    BY <1>11, <1>12, <1>13, <1>14, <1>15, <1>16 DEF Work

\* The effort of a task is used up just when the task has settled.
LEMMA EffortSettled ==
  ASSUME TypeInv, NEW t \in Tasks
  PROVE  Effort(t) = 0 <=> Settled(t)
  <1>. DEFINE S == MessagesOf(t)
              f == [m \in S |-> Copies(m) * MessageEffort(m)]
              g == [w \in Workers |-> JobEffort(job[w], t)]
  <1>1. QueueEffort(t) = Total(f, S) /\ JobsEffort(t) = Total(g, Workers)
    BY DEF QueueEffort, JobsEffort
  <1>2. /\ \A m \in S : f[m] \in Int /\ f[m] >= 0
        /\ \A w \in Workers : g[w] \in Int /\ g[w] >= 0
        /\ QueueEffort(t) \in Nat /\ JobsEffort(t) \in Nat
    BY EffortTypes
  <1>3. IsFiniteSet(S) /\ IsFiniteSet(Workers)
    BY FiniteMessages, ConstantsOK
  <1>4. ASSUME Settled(t) PROVE Effort(t) = 0
    <2>1. ASSUME NEW m \in S PROVE f[m] = 0
      <3>1. Copies(m) = 0
        BY <1>4 DEF Settled, Copies, BagIn, BagToSet, MessagesOf
      <3>2. MessageEffort(m) \in Nat
        BY MessageEffortType DEF MessagesOf
      <3>. QED
        BY <3>1, <3>2
    <2>2. ASSUME NEW w \in Workers PROVE g[w] = 0
      BY <1>4 DEF Settled, TaskOf, JobEffort, Idle
    <2>. HIDE DEF f, g, S
    <2>3. Total(f, S) = 0 /\ Total(g, Workers) = 0
      BY <1>3, <2>1, <2>2, TotalZero
    <2>. QED
      BY <1>1, <2>3 DEF Effort
  <1>5. ASSUME ~Settled(t) PROVE Effort(t) > 0
    <2>1. CASE \E m \in BagToSet(queue) : m.task = t
      <3>1. PICK m \in BagToSet(queue) : m.task = t
        BY <2>1
      <3>2. m \in S /\ m \in Message /\ m.attempts < RetryCount
        BY <3>1 DEF TypeInv, TypeOK, RetriesBounded, MessagesOf
      <3>3. f[m] > 0
        <4>1. Copies(m) \in Nat /\ Copies(m) > 0
          BY DEF TypeInv, TypeOK, Copies, BagIn, IsABag, BagToSet
        <4>2. MessageEffort(m) \in Nat /\ MessageEffort(m) > 0
          BY <3>2, MessageEffortType
        <4>3. Copies(m) * MessageEffort(m) > 0
          BY <4>1, <4>2
        <4>. QED
          BY <3>2, <4>3
      <3>. HIDE DEF f, S
      <3>4. f[m] <= Total(f, S)
        BY <1>2, <1>3, <3>2, TotalMember
      <3>. QED
        BY <1>1, <1>2, <3>2, <3>3, <3>4 DEF Effort
    <2>2. CASE \E w \in Workers : job[w] # Idle /\ TaskOf(w) = t
      <3>1. PICK w \in Workers : job[w] # Idle /\ TaskOf(w) = t
        BY <2>2
      <3>2. job[w].pc # "idle" /\ job[w].msg.attempts \in 0 .. RetryCount - 1
        <4>1. job[w].pc # "idle"
          BY <3>1 DEF TypeInv, TypeOK, Job, Idle
        <4>. QED
          BY <3>1, <4>1, JobKinds, ConstantsOK DEF TypeInv, RetriesBounded
      <3>3. g[w] > 0
        BY <3>1, <3>2, JobEfforts DEF TaskOf
      <3>. HIDE DEF g
      <3>4. g[w] <= Total(g, Workers)
        BY <1>2, <1>3, TotalMember
      <3>. QED
        BY <1>1, <1>2, <3>3, <3>4 DEF Effort
    <2>. QED
      BY <1>5, <2>1, <2>2 DEF Settled
  <1>. QED
    BY <1>4, <1>5

LEMMA EffortNext ==
  ASSUME TypeInv, [Next]_vars
  PROVE  /\ NearsEnd \/ UNCHANGED vars
         /\ \A t \in Tasks : Effort(t)' <= Effort(t) + (5 * RetryCount + 2)
         /\ \A t \in Tasks : Effort(t) = 0 => Effort(t)' = 0
  <1>1. \A t \in Tasks : Effort(t) \in Nat
    BY EffortTypes DEF Effort
  <1>2. RetryCount \in Nat
    BY ConstantsOK
  <1>3. ASSUME NEW w \in Workers, NEW m \in BagToSet(queue), Deliver(w, m)
        PROVE  /\ NearsEnd
               /\ \A t \in Tasks : Effort(t)' <= Effort(t) + (5 * RetryCount + 2)
               /\ \A t \in Tasks : Effort(t) = 0 => Effort(t)' = 0
    <2>1. m.task \in Tasks
      BY DEF TypeInv, TypeOK, Message
    <2>2. \A t \in Tasks : Effort(t)' = Effort(t) - (IF m.task = t THEN 1 ELSE 0)
      BY <1>3, EffortDeliver
    <2>3. Effort(m.task) # 0
      BY <2>1, EffortSettled DEF Settled
    <2>4. NearsEnd
      BY <1>1, <2>1, <2>2 DEF NearsEnd
    <2>5. \A t \in Tasks : Effort(t)' <= Effort(t) + (5 * RetryCount + 2)
      BY <1>1, <1>2, <2>2
    <2>6. \A t \in Tasks : Effort(t) = 0 => Effort(t)' = 0
      BY <1>1, <2>2, <2>3
    <2>. QED
      BY <2>4, <2>5, <2>6
  <1>4. ASSUME NEW w \in Workers, Work(w) \/ Fail(w) \/ Crash(w)
        PROVE  /\ NearsEnd
               /\ \A t \in Tasks : Effort(t)' <= Effort(t) + (5 * RetryCount + 2)
               /\ \A t \in Tasks : Effort(t) = 0 => Effort(t)' = 0
    <2>. DEFINE u == job[w].msg.task
    <2>1. u \in Tasks
      <3>1. job[w].pc # "idle"
        BY <1>4 DEF Work, Resend, Run, RunEmail, CheckOrRetry, Save, Acknowledge, Fail, Crash, At, Idle,
                    TypeInv, TypeOK, Job
      <3>. QED
        BY <3>1, JobKinds DEF TypeInv, Message
    <2>2. \A t \in Tasks : /\ u # t => Effort(t)' = Effort(t)
                           /\ u = t /\ Work(w) => Effort(t)' < Effort(t)
                           /\ Effort(t)' <= Effort(t) + (5 * RetryCount + 2)
      BY <1>4, EffortWork
    <2>3. ~Settled(u)
      <3>1. job[w] # Idle
        BY <1>4 DEF Work, Resend, Run, RunEmail, CheckOrRetry, Save, Acknowledge, Fail, Crash, At, Idle
      <3>. QED
        BY <3>1 DEF Settled, TaskOf
    <2>4. Effort(u) # 0
      BY <2>1, <2>3, EffortSettled
    <2>5. faults' = faults => Work(w)
      BY <1>4 DEF Fail, Crash, TypeInv, TypeOK
    <2>. HIDE DEF u
    <2>6. NearsEnd
      BY <2>1, <2>2, <2>5 DEF NearsEnd
    <2>7. \A t \in Tasks : Effort(t) = 0 => Effort(t)' = 0
      BY <2>2, <2>4
    <2>. QED
      BY <2>2, <2>6, <2>7
  <1>5. CASE UNCHANGED vars
    <2>1. \A t \in Tasks : Effort(t)' = Effort(t)
      BY <1>5 DEF vars, Effort, QueueEffort, JobsEffort, MessagesOf, Copies, MessageEffort, JobEffort, Left
    <2>. QED
      BY <1>1, <1>2, <1>5, <2>1
  <1>. QED
    BY <1>3, <1>4, <1>5 DEF Next, Take

\* What AllSettle rests on, but for fairness.  Every step without a fault brings
\* one task nearer to its end and no other further from it; a fault adds what one
\* redelivered message takes, at most; and a task has settled when its effort is
\* used up.
THEOREM OnlyFaultsAddEffort ==
  Spec => /\ [][NearsEnd]_vars
          /\ [][\A t \in Tasks : Effort(t)' <= Effort(t) + (5 * RetryCount + 2)]_vars
          /\ []EffortIsLeft
  <1>1. TypeInv /\ [Next]_vars => [NearsEnd]_vars
    BY EffortNext
  <1>2. TypeInv /\ [Next]_vars
          => [\A t \in Tasks : Effort(t)' <= Effort(t) + (5 * RetryCount + 2)]_vars
    BY EffortNext
  <1>3. TypeInv => EffortIsLeft
    BY EffortSettled DEF EffortIsLeft
  <1>. QED
    BY <1>1, <1>2, <1>3, TypeInvariant, PTL DEF Spec

\* A task that has settled stays so: neither a retry nor a death brings back a
\* task of which no message and no job is left.
THEOREM SettledForGood ==
  Spec => [][\A t \in Tasks : Settled(t) => Settled(t)']_vars
  <1>1. TypeInv => EffortIsLeft
    BY EffortSettled DEF EffortIsLeft
  <1>2. TypeInv /\ [Next]_vars /\ EffortIsLeft /\ EffortIsLeft'
          => [\A t \in Tasks : Settled(t) => Settled(t)']_vars
    BY EffortNext DEF EffortIsLeft
  <1>. QED
    BY <1>1, <1>2, TypeInvariant, PTL DEF Spec
=============================================================================
