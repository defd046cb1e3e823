---------------------------- MODULE BatcherProofs ----------------------------
(***************************************************************************)
(* For any number of clients, queue depth and batch size: the batcher      *)
(* keeps the order of the queue, its metrics account for every job, and    *)
(* its submit is the service the connections rely on.                      *)
(***************************************************************************)
EXTENDS Batcher, SequenceTheorems, FiniteSetTheorems, TLAPS

-----------------------------------------------------------------------------
(* The inductive invariant.                                                *)

\* All jobs without an answer, oldest first, and the current one of a client.
held == jobs \o queue
Current(c) == [client |-> c, ticket |-> ticket[c]]

WorkerPlaces == {"recv", "collect", "wait", "process", "deliver", "fail", "unwinding", "stopped"}

Types ==
    /\ client \in [Clients -> {"idle", "sent", "waiting"}]
    /\ ticket \in [Clients -> 0 .. MaxSubmits]
    /\ reply \in [Clients -> {Empty, Dropped, Failed} \cup {Ok(j) : j \in Job}]
    /\ handles \in BOOLEAN
    /\ queue \in Seq(Job) /\ jobs \in Seq(Job) /\ responses \in Seq(Job)
    /\ worker \in WorkerPlaces
    /\ accepted \in Nat /\ rejected \in Nat /\ completed \in Nat /\ failed \in Nat
    /\ arrivals \in Seq(Job) /\ lost \in Nat

\* What the worker's place says of its batch.
AtWork ==
    /\ worker \in {"recv", "unwinding", "stopped"} => jobs = <<>>
    /\ worker \in {"collect", "wait", "process", "deliver", "fail"} => jobs # <<>>
    /\ worker = "deliver" => responses = jobs
    /\ worker = "stopped" => queue = <<>>

\* The jobs held are the last ones of all.
AtEnd ==
    /\ Len(held) <= Len(arrivals)
    /\ \A i \in 1 .. Len(held) : held[i] = arrivals[Len(arrivals) - Len(held) + i]

-----------------------------------------------------------------------------
(* Sequences of jobs.                                                      *)

LEMMA Positions ==
    ASSUME NEW S, NEW s \in Seq(S), NEW t \in Seq(S)
    PROVE  /\ Len(s) \in Nat /\ Len(t) \in Nat
           /\ s \o t \in Seq(S) /\ Len(s \o t) = Len(s) + Len(t)
           /\ \A i \in 1 .. Len(s) : (s \o t)[i] = s[i]
           /\ \A i \in 1 .. Len(t) : (s \o t)[Len(s) + i] = t[i]
<1>1. /\ Len(s) \in Nat /\ Len(t) \in Nat
      /\ s \o t \in Seq(S) /\ Len(s \o t) = Len(s) + Len(t)
  OBVIOUS
<1>2. \A i \in 1 .. Len(s) + Len(t) : (s \o t)[i] = IF i <= Len(s) THEN s[i] ELSE t[i - Len(s)]
  BY ConcatProperties
<1> QED BY <1>1, <1>2

\* The batch and the queue after the worker has moved a job.
LEMMA Moved ==
    ASSUME NEW S, NEW s \in Seq(S), NEW t \in Seq(S), t # <<>>
    PROVE  /\ Append(s, Head(t)) \o Tail(t) = s \o t
           /\ Head(t) \in S /\ Tail(t) \in Seq(S) /\ Len(Tail(t)) = Len(t) - 1
           /\ Append(s, Head(t)) \in Seq(S) /\ Len(Append(s, Head(t))) = Len(s) + 1
<1>1. /\ Head(t) \in S /\ Tail(t) \in Seq(S) /\ Len(Tail(t)) = Len(t) - 1
      /\ \A i \in 1 .. Len(Tail(t)) : Tail(t)[i] = t[i + 1]
      /\ Head(t) = t[1] /\ Len(t) \in Nat /\ Len(t) > 0
  BY HeadTailProperties
<1>2. /\ Append(s, Head(t)) \in Seq(S) /\ Len(Append(s, Head(t))) = Len(s) + 1
      /\ \A i \in 1 .. Len(s) : Append(s, Head(t))[i] = s[i]
      /\ Append(s, Head(t))[Len(s) + 1] = Head(t)
  BY <1>1, AppendProperties
<1> DEFINE a == Append(s, Head(t)) \o Tail(t)
           b == s \o t
<1>3. a \in Seq(S) /\ Len(a) = Len(s) + Len(t) /\ b \in Seq(S) /\ Len(b) = Len(s) + Len(t)
  BY <1>1, <1>2
<1>4. \A i \in 1 .. Len(a) : a[i] = b[i]
  <2> SUFFICES ASSUME NEW i \in 1 .. Len(s) + Len(t) PROVE a[i] = b[i]
    BY <1>3
  <2>1. CASE i <= Len(s)
    BY <1>1, <1>2, <2>1
  <2>2. CASE i = Len(s) + 1
    BY <1>1, <1>2, <2>2
  <2>3. CASE i > Len(s) + 1
    <3>1. a[i] = Tail(t)[i - (Len(s) + 1)] /\ b[i] = t[i - Len(s)]
      BY <1>1, <1>2, <2>3
    <3>2. i - (Len(s) + 1) \in 1 .. Len(Tail(t))
      BY <1>1, <2>3
    <3> QED BY <1>1, <3>1, <3>2
  <2> QED BY <2>1, <2>2, <2>3
<1>5. a = b
  <2> HIDE DEF a, b
  <2> QED BY <1>3, <1>4, SeqEqual
<1> QED BY <1>1, <1>2, <1>5

\* ... and after the oldest job is answered.
LEMMA Answered ==
    ASSUME NEW S, NEW s \in Seq(S), NEW t \in Seq(S), s # <<>>
    PROVE  /\ Tail(s) \in Seq(S) /\ Len(Tail(s)) = Len(s) - 1
           /\ Head(s) = (s \o t)[1] /\ Head(s) \in S
           /\ Tail(s) \o t \in Seq(S) /\ Len(Tail(s) \o t) = Len(s \o t) - 1
           /\ \A i \in 1 .. Len(s \o t) - 1 : (Tail(s) \o t)[i] = (s \o t)[i + 1]
<1>1. /\ Head(s) \in S /\ Tail(s) \in Seq(S) /\ Len(Tail(s)) = Len(s) - 1
      /\ \A i \in 1 .. Len(Tail(s)) : Tail(s)[i] = s[i + 1]
      /\ Head(s) = s[1] /\ Len(s) \in Nat /\ Len(s) > 0
  BY HeadTailProperties
<1>2. ASSUME NEW i \in 1 .. Len(s) + Len(t) - 1
      PROVE  (Tail(s) \o t)[i] = (s \o t)[i + 1]
  <2>1. CASE i <= Len(s) - 1
    BY <1>1, <2>1
  <2>2. CASE i > Len(s) - 1
    <3>1. (Tail(s) \o t)[i] = t[i - (Len(s) - 1)] /\ (s \o t)[i + 1] = t[i + 1 - Len(s)]
      BY <1>1, <2>2
    <3> QED BY <1>1, <3>1
  <2> QED BY <1>1, <2>1, <2>2
<1>3. Len(s \o t) = Len(s) + Len(t) /\ Len(Tail(s) \o t) = Len(s) + Len(t) - 1 /\ (s \o t)[1] = s[1]
  BY <1>1
<1> QED BY <1>1, <1>2, <1>3

-----------------------------------------------------------------------------
(* Types, and the worker's place.                                          *)

\* A call of submit that the queue accepts.
Accepted(c, job) ==
    /\ client[c] = "idle" /\ handles /\ ticket[c] < MaxSubmits /\ worker # "stopped"
    /\ job = [client |-> c, ticket |-> ticket[c] + 1]
    /\ ticket' = [ticket EXCEPT ![c] = @ + 1]
    /\ queue' = Append(queue, job) /\ arrivals' = Append(arrivals, job)
    /\ client' = [client EXCEPT ![c] = "sent"] /\ reply' = [reply EXCEPT ![c] = Empty]
    /\ UNCHANGED <<handles, workerVars, metrics, lost>>

\* ... and one that is refused.
Refused(c) ==
    /\ client[c] = "idle" /\ ticket[c] < MaxSubmits
    /\ ticket' = [ticket EXCEPT ![c] = @ + 1]
    /\ rejected' \in {rejected, rejected + 1}
    /\ UNCHANGED <<client, handles, reply, queue, workerVars, accepted, completed, failed, arrivals, lost>>

LEMMA TrySendCases ==
    ASSUME NEW c \in Clients, TrySend(c)
    PROVE  Accepted(c, [client |-> c, ticket |-> ticket[c] + 1]) \/ Refused(c)
  BY DEF TrySend, Accepted, Refused, metrics, Connected

LEMMA InitTypes == Init => Types /\ AtWork
<1>1. \A S : <<>> \in Seq(S)
  OBVIOUS
<1> QED BY <1>1, BatcherAssumption DEF Init, Types, AtWork, WorkerPlaces, Empty

\* What a step of the worker that takes a job does.
LEMMA TakeTypes ==
    ASSUME Types, NEW place, Take(place)
    PROVE  /\ queue' \in Seq(Job) /\ jobs' \in Seq(Job) /\ jobs' # <<>>
           /\ Len(queue') = Len(queue) - 1 /\ Len(jobs') = Len(jobs) + 1
           /\ held' = held
<1>1. jobs \in Seq(Job) /\ queue \in Seq(Job) /\ queue # <<>>
  BY DEF Types, Take
<1>2. queue' = Tail(queue) /\ jobs' = Append(jobs, Head(queue))
  BY DEF Take
<1>3. /\ Append(jobs, Head(queue)) \o Tail(queue) = jobs \o queue
      /\ Head(queue) \in Job /\ Tail(queue) \in Seq(Job) /\ Len(Tail(queue)) = Len(queue) - 1
      /\ Append(jobs, Head(queue)) \in Seq(Job) /\ Len(Append(jobs, Head(queue))) = Len(jobs) + 1
  BY <1>1, Moved
<1>4. jobs' # <<>>
  BY <1>1, <1>2, <1>3
<1> QED BY <1>2, <1>3, <1>4 DEF held

LEMMA SendTypes ==
    ASSUME Types, jobs # <<>>, NEW answer \in {Failed} \cup {Ok(j) : j \in Job}, Send(answer)
    PROVE  /\ jobs' \in Seq(Job) /\ Len(jobs') = Len(jobs) - 1 /\ Len(jobs) \in Nat \ {0}
           /\ jobs' = <<>> <=> Len(jobs) = 1
           /\ Head(jobs) \in Job
           /\ reply' \in [Clients -> {Empty, Dropped, Failed} \cup {Ok(j) : j \in Job}]
<1>1. jobs \in Seq(Job)
  BY DEF Types
<1>2. jobs' = Tail(jobs)
  BY DEF Send
<1>3. Head(jobs) \in Job /\ Tail(jobs) \in Seq(Job) /\ Len(Tail(jobs)) = Len(jobs) - 1
  BY <1>1, HeadTailProperties
<1>4. Len(jobs) \in Nat \ {0}
  BY <1>1
<1>5. Head(jobs).client \in Clients
  BY <1>3 DEF Job
<1>6. reply' \in [Clients -> {Empty, Dropped, Failed} \cup {Ok(j) : j \in Job}]
  BY <1>5 DEF Send, Types
<1>7. jobs' = <<>> <=> Len(jobs) = 1
  <2>1. jobs' \in Seq(Job) /\ Len(jobs') = Len(jobs) - 1
    BY <1>2, <1>3
  <2>2. jobs' = <<>> <=> Len(jobs') = 0
    BY <2>1, EmptySeq
  <2> QED BY <1>4, <2>1, <2>2
<1> QED BY <1>2, <1>3, <1>4, <1>6, <1>7

LEMMA TypesStep == ASSUME Types, AtWork, [Next]_vars PROVE Types' /\ AtWork'
<1>1. ASSUME NEW c \in Clients, Submit(c) PROVE Types' /\ AtWork'
  <2>1. CASE TrySend(c)
    <3> DEFINE job == [client |-> c, ticket |-> ticket[c] + 1]
    <3>1. CASE Accepted(c, job)
      <4>1. ticket[c] + 1 \in 1 .. MaxSubmits
        BY <3>1, BatcherAssumption DEF Accepted, Types
      <4>2. job \in Job
        BY <4>1 DEF Job
      <4>3. queue' \in Seq(Job) /\ arrivals' \in Seq(Job)
        BY <3>1, <4>2 DEF Accepted, Types
      <4>4. ticket' \in [Clients -> 0 .. MaxSubmits]
        BY <3>1, <4>1 DEF Accepted, Types
      <4> QED BY <3>1, <4>3, <4>4 DEF Accepted, Types, AtWork, workerVars, metrics
    <3>2. CASE Refused(c)
      <4>1. ticket' \in [Clients -> 0 .. MaxSubmits]
        BY <3>2, BatcherAssumption DEF Refused, Types
      <4> QED BY <3>2, <4>1 DEF Refused, Types, AtWork, workerVars
    <3> QED BY <2>1, <3>1, <3>2, TrySendCases
  <2>2. CASE CountAccepted(c)
    BY <2>2 DEF CountAccepted, Types, AtWork, workerVars
  <2>3. CASE Resume(c) \/ Abandon(c)
    BY <2>3 DEF Resume, Abandon, Types, AtWork, workerVars, metrics
  <2> QED BY <1>1, <2>1, <2>2, <2>3 DEF Submit
<1>2. CASE DropHandles
  BY <1>2 DEF DropHandles, Types, AtWork, workerVars, metrics
<1>3. CASE Work
  <2>1. ASSUME NEW place, Goto(place) PROVE worker' = place /\ UNCHANGED <<clientVars, reply, queue, jobs, responses, metrics, arrivals, lost>>
    BY <2>1 DEF Goto
  <2>2. ASSUME Take("collect") PROVE Types' /\ AtWork'
    BY <2>2, TakeTypes DEF Take, Types, AtWork, clientVars, metrics, WorkerPlaces
  <2>3. CASE Disconnected \/ BatchFull \/ QueueEmpty \/ WaitOver
    <3>1. PICK place \in WorkerPlaces : Goto(place)
      BY <2>3 DEF Disconnected, BatchFull, QueueEmpty, WaitOver, WorkerPlaces
    <3>2. Types'
      BY <2>1, <3>1 DEF Types, clientVars, metrics
    <3>3. AtWork'
      BY <2>1, <2>3, <3>1 DEF AtWork, Disconnected, BatchFull, QueueEmpty, WaitOver, WorkerPlaces, Goto
    <3> QED BY <3>2, <3>3
  <2>4. CASE ProcessOk
    <3>1. completed' \in Nat
      BY <2>4 DEF ProcessOk, Types
    <3> QED BY <2>4, <3>1 DEF ProcessOk, Types, AtWork, clientVars, WorkerPlaces
  <2>5. CASE ProcessFails
    <3>1. failed' \in Nat
      BY <2>5 DEF ProcessFails, Types
    <3> QED BY <2>5, <3>1 DEF ProcessFails, Types, AtWork, clientVars, WorkerPlaces
  <2>6. CASE Deliver
    <3>1. jobs # <<>> /\ responses = jobs /\ responses' = Tail(responses)
      BY <2>6 DEF Deliver, AtWork
    <3>2. Ok(Head(responses)) \in {Ok(j) : j \in Job} /\ responses' \in Seq(Job)
      BY <3>1, SMTT(60) DEF Types
    <3>3. Send(Ok(Head(responses)))
      BY <2>6 DEF Deliver
    <3>4. /\ jobs' \in Seq(Job) /\ (jobs' = <<>> <=> Len(jobs) = 1)
          /\ reply' \in [Clients -> {Empty, Dropped, Failed} \cup {Ok(j) : j \in Job}]
      BY <3>1, <3>2, <3>3, SendTypes
    <3>5. /\ worker' = IF Len(jobs) = 1 THEN "recv" ELSE worker
          /\ jobs' = Tail(jobs) /\ worker = "deliver"
          /\ UNCHANGED <<clientVars, queue, metrics, arrivals, lost>>
      BY <2>6, <3>3 DEF Send, Deliver
    <3> QED BY <3>1, <3>2, <3>4, <3>5 DEF Types, AtWork, clientVars, metrics, WorkerPlaces
  <2>7. CASE FailJob
    <3>1. jobs # <<>> /\ Send(Failed) /\ UNCHANGED responses /\ worker = "fail"
      BY <2>7 DEF FailJob, AtWork
    <3>2. /\ jobs' \in Seq(Job) /\ (jobs' = <<>> <=> Len(jobs) = 1)
          /\ reply' \in [Clients -> {Empty, Dropped, Failed} \cup {Ok(j) : j \in Job}]
      BY <3>1, SendTypes
    <3>3. /\ worker' = IF Len(jobs) = 1 THEN "recv" ELSE worker
          /\ UNCHANGED <<clientVars, queue, metrics, arrivals, lost>>
      BY <3>1 DEF Send
    <3> QED BY <3>1, <3>2, <3>3 DEF Types, AtWork, clientVars, metrics, WorkerPlaces
  <2>8. CASE Panic \/ DropReceiver
    <3>1. \A S : <<>> \in Seq(S)
      OBVIOUS
    <3>2. lost' \in Nat /\ reply' \in [Clients -> {Empty, Dropped, Failed} \cup {Ok(j) : j \in Job}]
      <4>1. Len(jobs) \in Nat /\ Len(queue) \in Nat /\ lost \in Nat
        BY DEF Types
      <4>2. lost' = lost + Len(jobs) \/ lost' = lost + Len(queue)
        BY <2>8 DEF Panic, DropReceiver
      <4>3. DropSenders(jobs) \/ DropSenders(queue)
        BY <2>8 DEF Panic, DropReceiver
      <4>4. reply' \in [Clients -> {Empty, Dropped, Failed} \cup {Ok(j) : j \in Job}]
        BY <4>3 DEF DropSenders, Types
      <4> QED BY <4>1, <4>2, <4>4
    <3>3. jobs' \in Seq(Job) /\ queue' \in Seq(Job) /\ worker' \in WorkerPlaces
      BY <2>8, <3>1 DEF Panic, DropReceiver, Types, WorkerPlaces
    <3>4. Types'
      BY <2>8, <3>2, <3>3 DEF Panic, DropReceiver, Types, clientVars, metrics
    <3>5. AtWork'
      BY <2>8 DEF Panic, DropReceiver, AtWork
    <3> QED BY <3>4, <3>5
  <2> QED BY <1>3, <2>2, <2>3, <2>4, <2>5, <2>6, <2>7, <2>8
          DEF Work, ReceiveFirst, TakeReady, TakeAwaited
<1>4. CASE UNCHANGED vars
  BY <1>4 DEF vars, clientVars, workerVars, metrics, Types, AtWork
<1> QED BY <1>1, <1>2, <1>3, <1>4 DEF Next, Stopped

-----------------------------------------------------------------------------
(* The order of the queue.                                                 *)

\* How a step changes the jobs held.
HeldBecomes ==
    \/ UNCHANGED <<held, arrivals>>
    \/ \E job \in Job : held' = Append(held, job) /\ arrivals' = Append(arrivals, job)
    \/ /\ held' \in Seq(Job) /\ Len(held) > 0 /\ Len(held') = Len(held) - 1
       /\ \A i \in 1 .. Len(held') : held'[i] = held[i + 1]
       /\ UNCHANGED arrivals
    \/ /\ held' \in Seq(Job) /\ Len(held) = Len(jobs) + Len(held')
       /\ \A i \in 1 .. Len(held') : held'[i] = held[Len(jobs) + i]
       /\ UNCHANGED arrivals
    \/ held' = <<>> /\ UNCHANGED arrivals

LEMMA HeldStep == ASSUME Types, AtWork, Types', [Next]_vars PROVE HeldBecomes
<1>1. jobs \in Seq(Job) /\ queue \in Seq(Job)
  BY DEF Types
<1>2. ASSUME NEW c \in Clients, TrySend(c) PROVE HeldBecomes
  <2> DEFINE job == [client |-> c, ticket |-> ticket[c] + 1]
  <2>1. CASE Accepted(c, job)
    <3>1. job \in Job
      <4>1. ticket[c] + 1 \in 1 .. MaxSubmits
        BY <2>1, BatcherAssumption, SMTT(60) DEF Accepted, Types
      <4> QED BY <4>1 DEF Job
    <3>2. UNCHANGED jobs /\ queue' = Append(queue, job) /\ arrivals' = Append(arrivals, job)
      BY <2>1 DEF Accepted, workerVars
    <3> HIDE DEF job
    <3>3. jobs \o Append(queue, job) = Append(jobs \o queue, job)
      BY <1>1, <3>1
    <3> QED BY <3>1, <3>2, <3>3 DEF held, HeldBecomes
  <2>2. CASE Refused(c)
    BY <2>2 DEF Refused, HeldBecomes, held, workerVars
  <2> QED BY <1>2, <2>1, <2>2, TrySendCases
<1>3. ASSUME NEW answer, Send(answer), jobs # <<>> PROVE HeldBecomes
  <2>1. jobs' = Tail(jobs) /\ UNCHANGED <<queue, arrivals>>
    BY <1>3 DEF Send
  <2>2. /\ Tail(jobs) \o queue \in Seq(Job) /\ Len(Tail(jobs) \o queue) = Len(jobs \o queue) - 1
        /\ \A i \in 1 .. Len(jobs \o queue) - 1 : (Tail(jobs) \o queue)[i] = (jobs \o queue)[i + 1]
    BY <1>1, <1>3, Answered
  <2>3. Len(jobs \o queue) > 0
    BY <1>1, <1>3
  <2> QED BY <2>1, <2>2, <2>3 DEF held, HeldBecomes
<1>4. CASE Deliver \/ FailJob
  BY <1>3, <1>4 DEF Deliver, FailJob, AtWork
<1>5. CASE Panic
  <2>1. jobs' = <<>> /\ UNCHANGED <<queue, arrivals>>
    BY <1>5 DEF Panic
  <2>2. <<>> \o queue = queue
    BY <1>1, ConcatEmptySeq
  <2>3. Len(jobs \o queue) = Len(jobs) + Len(queue) /\ \A i \in 1 .. Len(queue) : (jobs \o queue)[Len(jobs) + i] = queue[i]
    BY <1>1, Positions
  <2> QED BY <1>1, <2>1, <2>2, <2>3 DEF held, HeldBecomes
<1>6. CASE DropReceiver
  <2>1. jobs = <<>> /\ UNCHANGED <<jobs, arrivals>> /\ queue' = <<>>
    BY <1>6 DEF DropReceiver, AtWork
  <2>2. <<>> \o <<>> = <<>>
    OBVIOUS
  <2> QED BY <2>1, <2>2 DEF held, HeldBecomes
<1>7. ASSUME Take("collect") PROVE HeldBecomes
  BY <1>7, TakeTypes DEF Take, HeldBecomes
<1>8. CASE DropHandles \/ Disconnected \/ BatchFull \/ QueueEmpty \/ WaitOver \/ ProcessOk \/ ProcessFails
  BY <1>8 DEF DropHandles, Disconnected, BatchFull, QueueEmpty, WaitOver, Goto, ProcessOk,
              ProcessFails, held, HeldBecomes, workerVars
<1>9. ASSUME NEW c \in Clients, CountAccepted(c) \/ Resume(c) \/ Abandon(c) PROVE HeldBecomes
  BY <1>9 DEF CountAccepted, Resume, Abandon, held, HeldBecomes, workerVars
<1>10. CASE UNCHANGED vars
  BY <1>10 DEF vars, workerVars, held, HeldBecomes
<1> QED BY <1>2, <1>4, <1>5, <1>6, <1>7, <1>8, <1>9, <1>10
        DEF Next, Submit, Work, ReceiveFirst, TakeReady, TakeAwaited, Stopped

LEMMA AtEndStep == ASSUME Types, AtEnd, HeldBecomes, Types' PROVE AtEnd'
<1>1. /\ jobs \in Seq(Job) /\ queue \in Seq(Job) /\ held \in Seq(Job) /\ arrivals \in Seq(Job)
      /\ Len(held) \in Nat /\ Len(arrivals) \in Nat /\ Len(jobs) \in Nat
  BY DEF Types, held
<1>2. CASE UNCHANGED <<held, arrivals>>
  BY <1>2 DEF AtEnd
<1>3. ASSUME NEW job \in Job, held' = Append(held, job), arrivals' = Append(arrivals, job)
      PROVE  AtEnd'
  <2>1. /\ Len(held') = Len(held) + 1 /\ Len(arrivals') = Len(arrivals) + 1
        /\ \A i \in 1 .. Len(held) : held'[i] = held[i]
        /\ \A i \in 1 .. Len(arrivals) : arrivals'[i] = arrivals[i]
        /\ held'[Len(held) + 1] = job /\ arrivals'[Len(arrivals) + 1] = job
    BY <1>1, <1>3, AppendProperties
  <2>2. ASSUME NEW i \in 1 .. Len(held) + 1
        PROVE  held'[i] = arrivals'[Len(arrivals) - Len(held) + i]
    <3>1. CASE i <= Len(held)
      <4>1. Len(arrivals) - Len(held) + i \in 1 .. Len(arrivals)
        BY <1>1, <3>1 DEF AtEnd
      <4> QED BY <1>1, <2>1, <3>1, <4>1 DEF AtEnd
    <3>2. CASE i = Len(held) + 1
      BY <1>1, <2>1, <3>2
    <3> QED BY <1>1, <3>1, <3>2
  <2> QED BY <1>1, <2>1, <2>2 DEF AtEnd
<1>4. ASSUME NEW n \in Nat, held' \in Seq(Job), Len(held) = n + Len(held'),
             \A i \in 1 .. Len(held') : held'[i] = held[n + i], UNCHANGED arrivals
      PROVE  AtEnd'
  <2>1. Len(held') \in Nat /\ Len(held') <= Len(arrivals)
    BY <1>1, <1>4 DEF AtEnd
  <2>2. ASSUME NEW i \in 1 .. Len(held')
        PROVE  held'[i] = arrivals[Len(arrivals) - Len(held') + i]
    <3>1. n + i \in 1 .. Len(held) /\ Len(arrivals) - Len(held) + (n + i) = Len(arrivals) - Len(held') + i
      BY <1>1, <1>4, <2>1
    <3> QED BY <1>4, <3>1 DEF AtEnd
  <2> QED BY <1>4, <2>1, <2>2 DEF AtEnd
<1>5. ASSUME held' \in Seq(Job), Len(held) > 0, Len(held') = Len(held) - 1,
             \A i \in 1 .. Len(held') : held'[i] = held[i + 1], UNCHANGED arrivals
      PROVE  AtEnd'
  <2>1. Len(held') \in Nat
    BY <1>5
  <2>2. Len(held) = 1 + Len(held')
    BY <1>1, <1>5, <2>1
  <2>3. ASSUME NEW i \in 1 .. Len(held') PROVE held'[i] = held[1 + i]
    <3>1. 1 + i = i + 1
      BY <2>1
    <3> QED BY <1>5, <3>1
  <2>4. 1 \in Nat
    OBVIOUS
  <2> QED BY <1>4, <1>5, <2>2, <2>3, <2>4
<1>6. CASE held' = <<>> /\ UNCHANGED arrivals
  <2>1. Len(<<>>) = 0
    OBVIOUS
  <2> QED BY <1>1, <1>6, <2>1 DEF AtEnd
<1> QED BY <1>1, <1>2, <1>3, <1>4, <1>5, <1>6 DEF HeldBecomes

LEMMA SuffixIsAtEnd == ASSUME Types, AtEnd PROVE QueueOrder
<1> DEFINE h == Reverse(held)
           a == Reverse(arrivals)
<1>1. held \in Seq(Job) /\ arrivals \in Seq(Job) /\ Len(held) \in Nat /\ Len(arrivals) \in Nat
  BY DEF Types, held
<1>2. /\ h \in Seq(Job) /\ Len(h) = Len(held) /\ \A i \in 1 .. Len(held) : h[i] = held[(Len(held) - i) + 1]
  BY <1>1 DEF Reverse
<1>3. /\ a \in Seq(Job) /\ Len(a) = Len(arrivals)
      /\ \A i \in 1 .. Len(arrivals) : a[i] = arrivals[(Len(arrivals) - i) + 1]
  BY <1>1 DEF Reverse
<1>4. \A i \in 1 .. Len(held) : h[i] = a[i]
  <2> SUFFICES ASSUME NEW i \in 1 .. Len(held) PROVE h[i] = a[i]
    OBVIOUS
  <2>1. (Len(held) - i) + 1 \in 1 .. Len(held) /\ i \in 1 .. Len(arrivals)
        /\ Len(arrivals) - Len(held) + ((Len(held) - i) + 1) = (Len(arrivals) - i) + 1
    BY <1>1 DEF AtEnd
  <2>2. held[(Len(held) - i) + 1] = arrivals[(Len(arrivals) - i) + 1]
    BY <2>1 DEF AtEnd
  <2> QED BY <1>2, <1>3, <2>1, <2>2
<1>5. Len(h) <= Len(a)
  BY <1>2, <1>3 DEF AtEnd
<1> HIDE DEF h, a
<1>6. SubSeq(h, 1, Len(h)) = SubSeq(a, 1, Len(h))
  <2>1. SubSeq(h, 1, Len(h)) = h
    BY <1>2, SubSeqFull
  <2>2. /\ SubSeq(a, 1, Len(h)) \in Seq(Job) /\ Len(SubSeq(a, 1, Len(h))) = Len(h)
        /\ \A i \in 1 .. Len(h) : SubSeq(a, 1, Len(h))[i] = a[i]
    BY <1>1, <1>2, <1>3, <1>5
  <2>3. \A i \in 1 .. Len(h) : h[i] = SubSeq(a, 1, Len(h))[i]
    BY <1>2, <1>4, <2>2
  <2>4. h = SubSeq(a, 1, Len(h))
    BY <1>2, <2>2, <2>3, SeqEqual
  <2> QED BY <2>1, <2>4
<1> QED BY <1>5, <1>6 DEF h, a, QueueOrder, IsSuffix, IsPrefix, held

\* What the worker holds and what is queued are the latest jobs sent, all of
\* them, in order, for every number of clients and every cut into batches.
THEOREM QueueKeepsOrder == Spec => []QueueOrder
<1> DEFINE Inv == Types /\ AtWork /\ AtEnd
<1>1. Init => Inv
  <2>1. <<>> \o <<>> = <<>> /\ Len(<<>>) = 0
    OBVIOUS
  <2>2. Init => AtEnd
    BY <2>1 DEF Init, AtEnd, held
  <2> QED BY <2>2, InitTypes
<1>2. Inv /\ [Next]_vars => Inv'
  BY TypesStep, HeldStep, AtEndStep
<1>3. Inv => QueueOrder
  BY SuffixIsAtEnd
<1> HIDE DEF Inv
<1> QED BY <1>1, <1>2, <1>3, PTL DEF Spec

-----------------------------------------------------------------------------
(* The metrics.                                                            *)

\* Clients whose job is queued but not counted, and jobs not yet accounted for.
Uncounted == {c \in Clients : client[c] = "sent"}
Unsettled == IF worker \in {"deliver", "fail"} THEN 0 ELSE Len(jobs)

LEMMA UncountedFinite == IsFiniteSet(Uncounted) /\ Cardinality(Uncounted) \in Nat
<1>1. IsFiniteSet(Uncounted)
  BY BatcherAssumption, FS_Subset DEF Uncounted
<1> QED BY <1>1, FS_CardinalityType

LEMMA BalanceStep == ASSUME Types, AtWork, Types', MetricsBalance, [Next]_vars PROVE MetricsBalance'
<1>1. /\ Cardinality(Uncounted) \in Nat /\ IsFiniteSet(Uncounted)
      /\ Len(queue) \in Nat /\ Len(jobs) \in Nat /\ jobs \in Seq(Job) /\ queue \in Seq(Job)
      /\ accepted \in Nat /\ completed \in Nat /\ failed \in Nat /\ lost \in Nat
      /\ Unsettled \in Nat
  BY UncountedFinite DEF Types, Unsettled
<1>2. accepted + Cardinality(Uncounted) = completed + failed + lost + Len(queue) + Unsettled
  BY DEF MetricsBalance, Uncounted, Unsettled
<1>3. Len(<<>>) = 0
  OBVIOUS
<1>4. ASSUME accepted' + Cardinality(Uncounted') = completed' + failed' + lost' + Len(queue') + Unsettled'
      PROVE  MetricsBalance'
  BY <1>4 DEF MetricsBalance, Uncounted, Unsettled
<1>5. ASSUME UNCHANGED client PROVE Uncounted' = Uncounted
  BY <1>5 DEF Uncounted
<1>6. ASSUME NEW c \in Clients, TrySend(c) PROVE MetricsBalance'
  <2> DEFINE job == [client |-> c, ticket |-> ticket[c] + 1]
  <2>1. CASE Accepted(c, job)
    <3>1. c \notin Uncounted /\ Uncounted' = Uncounted \cup {c}
      BY <2>1 DEF Accepted, Uncounted, Types
    <3>2. Cardinality(Uncounted') = Cardinality(Uncounted) + 1
      BY <1>1, <3>1, FS_AddElement
    <3>3. queue' = Append(queue, job) /\ Len(queue') = Len(queue) + 1
      <4>1. queue' = Append(queue, job)
        BY <2>1 DEF Accepted
      <4>2. ticket[c] + 1 \in 1 .. MaxSubmits
        BY <2>1, BatcherAssumption, SMTT(60) DEF Accepted, Types
      <4>3. job \in Job
        BY <4>2 DEF Job
      <4> HIDE DEF job
      <4> QED BY <1>1, <4>1, <4>3, AppendProperties
    <3>4. UNCHANGED <<accepted, completed, failed, lost, worker, jobs>>
      BY <2>1 DEF Accepted, workerVars, metrics
    <3>5. Unsettled' = Unsettled
      BY <3>4 DEF Unsettled
    <3>6. Len(queue') = Len(queue) + 1
      BY <3>3
    <3>7. accepted' + Cardinality(Uncounted') = completed' + failed' + lost' + Len(queue') + Unsettled'
      BY <1>1, <1>2, <3>2, <3>4, <3>5, <3>6
    <3> QED BY <1>4, <3>7
  <2>2. CASE Refused(c)
    BY <1>1, <1>2, <1>4, <1>5, <2>2 DEF Refused, Unsettled, workerVars
  <2> QED BY <1>6, <2>1, <2>2, TrySendCases
<1>7. ASSUME NEW c \in Clients, CountAccepted(c) PROVE MetricsBalance'
  <2>1. c \in Uncounted /\ Uncounted' = Uncounted \ {c}
    BY <1>7 DEF CountAccepted, Uncounted, Types
  <2>2. Cardinality(Uncounted') = Cardinality(Uncounted) - 1
    BY <1>1, <2>1, FS_RemoveElement
  <2>3. accepted' = accepted + 1 /\ UNCHANGED <<completed, failed, lost, queue, worker, jobs>>
    BY <1>7 DEF CountAccepted, workerVars
  <2>4. Unsettled' = Unsettled
    BY <2>3 DEF Unsettled
  <2> QED BY <1>1, <1>2, <1>4, <2>2, <2>3, <2>4
<1>8. ASSUME NEW c \in Clients, Resume(c) \/ Abandon(c) PROVE MetricsBalance'
  <2>1. Uncounted' = Uncounted
    BY <1>8 DEF Resume, Abandon, Uncounted, Types
  <2>2. UNCHANGED <<metrics, lost, queue, worker, jobs>>
    BY <1>8 DEF Resume, Abandon, workerVars
  <2> QED BY <1>1, <1>2, <1>4, <2>1, <2>2 DEF Unsettled, metrics
<1>9. ASSUME Take("collect"), worker \in {"recv", "collect", "wait"} PROVE MetricsBalance'
  <2>1. Len(queue') = Len(queue) - 1 /\ Len(jobs') = Len(jobs) + 1
    BY <1>9, TakeTypes
  <2>2. UNCHANGED <<client, metrics, lost>> /\ worker' = "collect"
    BY <1>9 DEF Take, clientVars
  <2>3. Unsettled = Len(jobs) /\ Unsettled' = Len(jobs) + 1
    BY <1>9, <2>1, <2>2 DEF Unsettled
  <2> QED BY <1>1, <1>2, <1>4, <1>5, <2>1, <2>2, <2>3 DEF metrics
<1>10. CASE Disconnected \/ BatchFull \/ QueueEmpty \/ WaitOver \/ DropHandles
  <2>1. UNCHANGED <<client, metrics, lost, queue, jobs>>
    BY <1>10 DEF Disconnected, BatchFull, QueueEmpty, WaitOver, DropHandles, Goto, workerVars, clientVars
  <2>2. UNCHANGED worker \/ (worker \notin {"deliver", "fail"} /\ worker' \notin {"deliver", "fail"})
    BY <1>10 DEF Disconnected, BatchFull, QueueEmpty, WaitOver, DropHandles, Goto, workerVars
  <2> QED BY <1>1, <1>2, <1>4, <1>5, <2>1, <2>2 DEF Unsettled, metrics
<1>11. CASE ProcessOk \/ ProcessFails
  <2>1. /\ UNCHANGED <<client, accepted, lost, queue, jobs>>
        /\ completed' + failed' = completed + failed + Len(jobs)
        /\ worker = "process" /\ worker' \in {"deliver", "fail"}
    BY <1>1, <1>11 DEF ProcessOk, ProcessFails, clientVars
  <2>2. completed' \in Nat /\ failed' \in Nat
    BY DEF Types
  <2>3. Unsettled = Len(jobs) /\ Unsettled' = 0
    BY <2>1 DEF Unsettled
  <2> QED BY <1>1, <1>2, <1>4, <1>5, <2>1, <2>2, <2>3, SMTT(60)
<1>12. ASSUME NEW answer \in {Failed} \cup {Ok(j) : j \in Job}, Send(answer), worker \in {"deliver", "fail"}
       PROVE  MetricsBalance'
  <2>1. /\ UNCHANGED <<client, metrics, lost, queue>>
        /\ worker' = IF Len(jobs) = 1 THEN "recv" ELSE worker
    BY <1>12 DEF Send, clientVars
  <2>2. Len(jobs') = 0 \/ Len(jobs) # 1
    BY <1>3, <1>12, SendTypes DEF AtWork
  <2>3. Unsettled = 0 /\ Unsettled' = 0
    BY <1>12, <2>1, <2>2 DEF Unsettled
  <2> QED BY <1>1, <1>2, <1>4, <1>5, <2>1, <2>3 DEF metrics
<1>13. CASE Deliver \/ FailJob
  <2>1. CASE Deliver
    <3>1. Send(Ok(Head(responses))) /\ worker = "deliver" /\ jobs # <<>> /\ responses = jobs
      BY <2>1 DEF Deliver, AtWork
    <3>2. Head(responses) \in Job
      BY <1>1, <3>1
    <3> QED BY <1>12, <3>1, <3>2
  <2>2. CASE FailJob
    BY <1>12, <2>2 DEF FailJob
  <2> QED BY <1>13, <2>1, <2>2
<1>14. CASE Panic
  <2>1. /\ UNCHANGED <<client, metrics, queue>> /\ lost' = lost + Len(jobs)
        /\ jobs' = <<>> /\ worker = "process" /\ worker' = "unwinding"
    BY <1>14 DEF Panic, clientVars
  <2>2. Unsettled = Len(jobs) /\ Unsettled' = 0
    BY <1>3, <2>1 DEF Unsettled
  <2> QED BY <1>1, <1>2, <1>4, <1>5, <2>1, <2>2 DEF metrics
<1>15. CASE DropReceiver
  <2>1. /\ UNCHANGED <<client, metrics>> /\ lost' = lost + Len(queue) /\ queue' = <<>>
        /\ jobs = <<>> /\ jobs' = <<>> /\ worker = "unwinding" /\ worker' = "stopped"
    BY <1>15 DEF DropReceiver, AtWork, clientVars
  <2>2. Unsettled = 0 /\ Unsettled' = 0
    BY <1>3, <2>1 DEF Unsettled
  <2> QED BY <1>1, <1>2, <1>3, <1>4, <1>5, <2>1, <2>2 DEF metrics
<1>16. CASE UNCHANGED vars
  BY <1>1, <1>2, <1>4, <1>5, <1>16 DEF vars, clientVars, workerVars, metrics, Unsettled
<1> QED BY <1>6, <1>7, <1>8, <1>9, <1>10, <1>11, <1>13, <1>14, <1>15, <1>16
        DEF Next, Submit, Work, ReceiveFirst, TakeReady, TakeAwaited, Stopped

\* Every accepted job is counted as completed, failed or lost, or still waits,
\* for any number of clients, although a client counts its job as accepted
\* only after the worker may have answered it.
THEOREM MetricsAccount == Spec => []MetricsBalance
<1> DEFINE Inv == Types /\ AtWork /\ MetricsBalance
<1>1. Init => Inv
  <2>1. Len(<<>>) = 0
    OBVIOUS
  <2>2. ASSUME Init PROVE Uncounted = {}
    BY <2>2 DEF Init, Uncounted
  <2>3. Cardinality({}) = 0
    BY FS_EmptySet
  <2>4. Init => MetricsBalance
    <3> SUFFICES ASSUME Init PROVE MetricsBalance
      OBVIOUS
    <3>1. accepted = 0 /\ completed = 0 /\ failed = 0 /\ lost = 0 /\ Len(queue) = 0 /\ Len(jobs) = 0
      BY <2>1 DEF Init
    <3>2. Cardinality(Uncounted) = 0 /\ Unsettled = 0
      BY <2>2, <2>3, <3>1 DEF Unsettled
    <3>3. accepted + Cardinality(Uncounted) = completed + failed + lost + Len(queue) + Unsettled
      BY <3>1, <3>2
    <3> QED BY <3>3 DEF MetricsBalance, Uncounted, Unsettled
  <2> QED BY <2>4, InitTypes
<1>2. Inv /\ [Next]_vars => Inv'
  BY TypesStep, BalanceStep
<1>3. Inv => MetricsBalance
  OBVIOUS
<1> HIDE DEF Inv
<1> QED BY <1>1, <1>2, <1>3, PTL DEF Spec

-----------------------------------------------------------------------------
(* The service.                                                            *)

\* What the jobs held and the answers given say of the clients' calls.
Tickets == \A i \in 1 .. Len(held) : held[i].ticket <= ticket[held[i].client]
Distinct == \A i, k \in 1 .. Len(held) : held[i] = held[k] => i = k
Waited == \A c \in Clients : client[c] # "idle" /\ reply[c] = Empty
                              => \E i \in 1 .. Len(held) : held[i] = Current(c)
Silent == \A i \in 1 .. Len(held) : Listening(held[i]) => reply[held[i].client] = Empty
Own == \A c \in Clients : \A j \in Job : client[c] # "idle" /\ reply[c] = Ok(j) => j = Current(c)
Calls == Tickets /\ Distinct /\ Waited /\ Silent /\ Own /\ (~handles => \A c \in Clients : client[c] = "idle")

\* The clients that listen for one of the n oldest jobs.
Heard(n) == {c \in Clients : \E i \in 1 .. n : held[i].client = c /\ Listening(held[i])}

\* The worker answers, or drops, the n oldest jobs.
Settles(n) ==
    /\ n \in 0 .. Len(held) /\ held' \in Seq(Job) /\ Len(held') = Len(held) - n
    /\ \A i \in 1 .. Len(held') : held'[i] = held[n + i]
    /\ \A c \in Heard(n) : reply'[c] \in {Dropped, Failed, Ok(Current(c))}
    /\ \A c \in Clients \ Heard(n) : reply'[c] = reply[c]
    /\ UNCHANGED <<client, ticket, handles>>

LEMMA Kinds ==
    /\ Empty # Dropped /\ Empty # Failed /\ Dropped # Failed
    /\ \A j : Ok(j) # Empty /\ Ok(j) # Dropped /\ Ok(j) # Failed
    /\ \A j, k : Ok(j) = Ok(k) => j = k
<1>1. \A j : Ok(j).kind = "ok" /\ Ok(j).to = j
  BY DEF Ok
<1> QED BY <1>1 DEF Empty, Dropped, Failed

LEMMA ListeningIs ==
    ASSUME Types, NEW job \in Job
    PROVE  Listening(job) <=> client[job.client] # "idle" /\ job = Current(job.client)
<1>1. job.client \in Clients /\ job = [client |-> job.client, ticket |-> job.ticket]
  BY DEF Job
<1>2. client[job.client] \in {"idle", "sent", "waiting"}
  BY <1>1 DEF Types
<1>3. job = Current(job.client) <=> ticket[job.client] = job.ticket
  BY <1>1 DEF Current
<1> QED BY <1>2, <1>3 DEF Listening

LEMMA HeardIs ==
    ASSUME Types, NEW n \in 0 .. Len(held), NEW c \in Clients
    PROVE  c \in Heard(n) <=> client[c] # "idle" /\ \E i \in 1 .. n : held[i] = Current(c)
<1>1. held \in Seq(Job) /\ Len(held) \in Nat
  BY DEF Types, held
<1>2. \A i \in 1 .. n : held[i] \in Job
  BY <1>1
<1>3. \A i \in 1 .. n : Listening(held[i]) <=> client[held[i].client] # "idle" /\ held[i] = Current(held[i].client)
  BY <1>2, ListeningIs
<1>4. Current(c).client = c
  BY DEF Current
<1> QED BY <1>3, <1>4 DEF Heard

LEMMA SettleStep == ASSUME Types, Types', Calls, NEW n, Settles(n) PROVE Calls'
<1>1. /\ held \in Seq(Job) /\ Len(held) \in Nat /\ held' \in Seq(Job) /\ Len(held') \in Nat
      /\ n \in 0 .. Len(held) /\ Len(held') = Len(held) - n
  BY DEF Types, held, Settles
<1>2. \A i \in 1 .. Len(held') : n + i \in 1 .. Len(held) /\ held'[i] = held[n + i] /\ held[n + i] \in Job
  BY <1>1 DEF Settles
<1>3. /\ \A c \in Heard(n) : reply'[c] \in {Dropped, Failed, Ok(Current(c))}
      /\ \A c \in Clients \ Heard(n) : reply'[c] = reply[c]
      /\ client' = client /\ ticket' = ticket /\ handles' = handles
  BY DEF Settles
<1>4. \A c \in Clients : Current(c)' = Current(c)
  BY <1>3 DEF Current
<1>5. Tickets'
  BY <1>2, <1>3 DEF Calls, Tickets
<1>6. Distinct'
  <2> SUFFICES ASSUME NEW i \in 1 .. Len(held'), NEW k \in 1 .. Len(held'), held'[i] = held'[k] PROVE i = k
    BY DEF Distinct
  <2>1. held[n + i] = held[n + k] /\ n + i \in 1 .. Len(held) /\ n + k \in 1 .. Len(held)
    BY <1>2
  <2>2. n + i = n + k
    BY <2>1 DEF Calls, Distinct
  <2> QED BY <1>1, <2>2
<1>7. Waited'
  <2> SUFFICES ASSUME NEW c \in Clients, client[c] # "idle", reply'[c] = Empty
               PROVE  \E i \in 1 .. Len(held') : held'[i] = Current(c)
    BY <1>3, <1>4 DEF Waited
  <2>1. c \notin Heard(n) /\ reply[c] = Empty
    BY <1>3, Kinds
  <2>2. PICK i \in 1 .. Len(held) : held[i] = Current(c)
    BY <2>1 DEF Calls, Waited
  <2>3. ~(i <= n)
    BY <1>1, <2>1, <2>2, HeardIs
  <2>4. i - n \in 1 .. Len(held') /\ n + (i - n) = i
    BY <1>1, <2>3
  <2>5. held'[i - n] = held[i]
    BY <1>2, <2>4
  <2> QED BY <2>2, <2>4, <2>5
<1>8. Silent'
  <2> SUFFICES ASSUME NEW i \in 1 .. Len(held'), Listening(held'[i])
               PROVE  reply'[held'[i].client] = Empty
    BY <1>3 DEF Silent, Listening
  <2>1. n + i \in 1 .. Len(held) /\ held'[i] = held[n + i] /\ held[n + i] \in Job
    BY <1>2
  <2>2. held[n + i] = Current(held[n + i].client) /\ reply[held[n + i].client] = Empty /\ held[n + i].client \in Clients
    BY <2>1, ListeningIs DEF Calls, Silent, Job
  <2>3. held[n + i].client \notin Heard(n)
    <3> SUFFICES ASSUME NEW k \in 1 .. n, held[k] = held[n + i] PROVE FALSE
      BY <1>1, <2>2, HeardIs
    <3>1. k \in 1 .. Len(held) /\ k # n + i
      BY <1>1
    <3> QED BY <2>1, <3>1 DEF Calls, Distinct
  <2> QED BY <1>3, <2>1, <2>2, <2>3
<1>9. Own'
  <2> SUFFICES ASSUME NEW c \in Clients, NEW j \in Job, client[c] # "idle", reply'[c] = Ok(j) PROVE j = Current(c)
    BY <1>3, <1>4 DEF Own
  <2>1. CASE c \in Heard(n)
    BY <1>3, <2>1, Kinds
  <2>2. CASE c \notin Heard(n)
    BY <1>3, <2>2 DEF Calls, Own
  <2> QED BY <2>1, <2>2
<1> QED BY <1>3, <1>5, <1>6, <1>7, <1>8, <1>9 DEF Calls

LEMMA SendSettles ==
    ASSUME Types, Types', AtWork, jobs # <<>>, NEW answer \in {Failed, Ok(Head(jobs))}, Send(answer)
    PROVE  Settles(1)
<1>1. /\ jobs \in Seq(Job) /\ queue \in Seq(Job) /\ held' \in Seq(Job) /\ held \in Seq(Job) /\ Len(held) \in Nat
      /\ jobs' = Tail(jobs) /\ UNCHANGED <<queue, client, ticket, handles>>
  BY DEF Types, held, Send, clientVars
<1>2. /\ held[1] = Head(jobs) /\ Head(jobs) \in Job /\ Len(held') = Len(held) - 1
      /\ \A i \in 1 .. Len(held) - 1 : held'[i] = held[i + 1]
  BY <1>1, Answered DEF held
<1>3. Len(held) >= 1
  BY <1>1 DEF held
<1>4. \A i \in 1 .. Len(held') : held'[i] = held[1 + i]
  <2> SUFFICES ASSUME NEW i \in 1 .. Len(held') PROVE held'[i] = held[1 + i]
    OBVIOUS
  <2>1. i \in 1 .. Len(held) - 1 /\ i + 1 = 1 + i
    BY <1>1, <1>2
  <2> QED BY <1>2, <2>1
<1>5. Head(jobs).client \in Clients
  BY <1>2 DEF Job
<1>6. \A c \in Clients : c \in Heard(1) <=> c = Head(jobs).client /\ Listening(Head(jobs))
  BY <1>2 DEF Heard
<1>7. reply' = IF Listening(Head(jobs)) THEN [reply EXCEPT ![Head(jobs).client] = answer] ELSE reply
  BY DEF Send
<1>8. ASSUME NEW c \in Heard(1) PROVE reply'[c] \in {Dropped, Failed, Ok(Current(c))}
  <2>1. c \in Clients /\ c = Head(jobs).client /\ Listening(Head(jobs))
    BY <1>6, <1>8 DEF Heard
  <2>2. reply'[c] = answer
    BY <1>7, <2>1 DEF Types
  <2>3. Head(jobs) = Current(c)
    BY <1>2, <2>1, ListeningIs
  <2> QED BY <2>2, <2>3
<1>9. ASSUME NEW c \in Clients \ Heard(1) PROVE reply'[c] = reply[c]
  BY <1>5, <1>6, <1>7, <1>9 DEF Types
<1> QED BY <1>1, <1>2, <1>3, <1>4, <1>8, <1>9 DEF Settles

LEMMA SendersDropped ==
    ASSUME Types, NEW d \in Seq(Job), \A i \in 1 .. Len(d) : d[i] = held[i], DropSenders(d)
    PROVE  /\ \A c \in Heard(Len(d)) : reply'[c] = Dropped
           /\ \A c \in Clients \ Heard(Len(d)) : reply'[c] = reply[c]
<1>1. DOMAIN d = 1 .. Len(d)
  OBVIOUS
<1>2. \A c \in Clients : c \in Heard(Len(d)) <=> \E i \in DOMAIN d : d[i].client = c /\ Listening(d[i])
  BY <1>1 DEF Heard
<1> QED BY <1>2 DEF DropSenders, Heard

LEMMA PanicSettles == ASSUME Types, Types', AtWork, Panic PROVE Settles(Len(jobs))
<1>1. /\ jobs \in Seq(Job) /\ queue \in Seq(Job) /\ Len(jobs) \in Nat /\ Len(queue) \in Nat
      /\ jobs' = <<>> /\ UNCHANGED <<queue, client, ticket, handles>> /\ DropSenders(jobs)
  BY DEF Types, Panic, clientVars
<1>2. /\ Len(held) = Len(jobs) + Len(queue) /\ \A i \in 1 .. Len(jobs) : held[i] = jobs[i]
      /\ \A i \in 1 .. Len(queue) : held[Len(jobs) + i] = queue[i]
  BY <1>1, Positions DEF held
<1>3. held' = queue
  BY <1>1, ConcatEmptySeq DEF held
<1>4. /\ \A c \in Heard(Len(jobs)) : reply'[c] = Dropped
      /\ \A c \in Clients \ Heard(Len(jobs)) : reply'[c] = reply[c]
  BY <1>1, <1>2, SendersDropped
<1>5. Len(jobs) \in 0 .. Len(held) /\ Len(held') = Len(held) - Len(jobs)
  BY <1>1, <1>2, <1>3
<1> QED BY <1>1, <1>2, <1>3, <1>4, <1>5 DEF Settles

LEMMA ReceiverSettles == ASSUME Types, Types', AtWork, DropReceiver PROVE Settles(Len(queue)) /\ held = queue
<1>1. /\ queue \in Seq(Job) /\ Len(queue) \in Nat /\ jobs = <<>>
      /\ jobs' = <<>> /\ queue' = <<>> /\ UNCHANGED <<client, ticket, handles>> /\ DropSenders(queue)
  BY DEF Types, DropReceiver, clientVars, AtWork
<1>2. held = queue
  BY <1>1, ConcatEmptySeq DEF held
<1>3. held' = <<>> /\ Len(held') = 0 /\ held' \in Seq(Job)
  BY <1>1 DEF held
<1>4. /\ \A c \in Heard(Len(queue)) : reply'[c] = Dropped
      /\ \A c \in Clients \ Heard(Len(queue)) : reply'[c] = reply[c]
  BY <1>1, <1>2, SendersDropped
<1>5. Len(queue) \in 0 .. Len(held) /\ Len(held') = Len(held) - Len(queue)
  BY <1>1, <1>2, <1>3
<1>6. \A i \in 1 .. Len(held') : held'[i] = held[Len(queue) + i]
  BY <1>3
<1> QED BY <1>1, <1>2, <1>3, <1>4, <1>5, <1>6 DEF Settles

\* A call is accepted.
LEMMA AcceptedStep ==
    ASSUME Types, Types', Calls, NEW c \in Clients, Accepted(c, [client |-> c, ticket |-> ticket[c] + 1])
    PROVE  Calls'
<1> DEFINE job == [client |-> c, ticket |-> ticket[c] + 1]
<1>1. /\ jobs \in Seq(Job) /\ queue \in Seq(Job) /\ held \in Seq(Job) /\ Len(held) \in Nat
      /\ ticket \in [Clients -> Nat] /\ client[c] = "idle" /\ handles /\ handles'
      /\ \A d \in Clients \ {c} : ticket'[d] = ticket[d] /\ client'[d] = client[d] /\ reply'[d] = reply[d]
      /\ ticket'[c] = ticket[c] + 1 /\ client'[c] = "sent" /\ reply'[c] = Empty
  BY BatcherAssumption, SMTT(60) DEF Types, held, Accepted
<1>2. job \in Job
  <2>1. ticket[c] + 1 \in 1 .. MaxSubmits
    BY BatcherAssumption, SMTT(60) DEF Accepted, Types
  <2> QED BY <2>1 DEF Job
<1>3. held' = Append(held, job)
  <2>1. UNCHANGED jobs /\ queue' = Append(queue, job)
    BY DEF Accepted, workerVars
  <2> HIDE DEF job
  <2>2. jobs \in Seq(Job) /\ queue \in Seq(Job)
    BY <1>1
  <2>3. jobs \o Append(queue, job) = Append(jobs \o queue, job)
    BY <1>2, <2>2
  <2> QED BY <2>1, <2>3 DEF held
<1>4. /\ Len(held') = Len(held) + 1 /\ held'[Len(held) + 1] = job
      /\ \A i \in 1 .. Len(held) : held'[i] = held[i] /\ held[i] \in Job
  <2> HIDE DEF job
  <2> QED BY <1>1, <1>2, <1>3, AppendProperties
<1>5. job.client = c /\ job.ticket = ticket[c] + 1 /\ job = Current(c)'
  BY <1>1 DEF Current
<1>6. \A i \in 1 .. Len(held) : held[i].client = c => held[i].ticket <= ticket[c] /\ held[i].ticket \in Nat
  BY <1>4 DEF Calls, Tickets, Job
<1> HIDE DEF job
<1>7. \A i \in 1 .. Len(held') : i \in 1 .. Len(held) \/ (i = Len(held) + 1 /\ held'[i] = job)
  BY <1>1, <1>4
<1>8. Tickets'
  <2> SUFFICES ASSUME NEW i \in 1 .. Len(held') PROVE held'[i].ticket <= ticket'[held'[i].client]
    BY DEF Tickets
  <2>1. CASE i \in 1 .. Len(held)
    <3>1. held'[i] = held[i] /\ held[i].client \in Clients /\ held[i].ticket \in Nat /\ held[i].ticket <= ticket[held[i].client]
      BY <1>4, <2>1 DEF Calls, Tickets, Job
    <3>2. ticket'[held[i].client] = ticket[held[i].client] \/ ticket'[held[i].client] = ticket[held[i].client] + 1
      BY <1>1, <3>1
    <3>3. ticket[held[i].client] \in Nat
      BY <1>1, <3>1
    <3> QED BY <3>1, <3>2, <3>3
  <2>2. CASE held'[i] = job
    BY <1>1, <1>5, <2>2
  <2> QED BY <1>7, <2>1, <2>2
<1>9. Distinct'
  <2>1. \A i \in 1 .. Len(held) : held[i] # job
    <3> SUFFICES ASSUME NEW i \in 1 .. Len(held), held[i] = job PROVE FALSE
      OBVIOUS
    <3>1. ticket[c] + 1 <= ticket[c] /\ ticket[c] \in Nat
      BY <1>1, <1>5, <1>6
    <3> QED BY <3>1
  <2> SUFFICES ASSUME NEW i \in 1 .. Len(held'), NEW k \in 1 .. Len(held'), held'[i] = held'[k] PROVE i = k
    BY DEF Distinct
  <2>2. CASE i \in 1 .. Len(held) /\ k \in 1 .. Len(held)
    <3>1. held[i] = held[k]
      BY <1>4, <2>2
    <3> QED BY <2>2, <3>1 DEF Calls, Distinct
  <2>3. CASE i = Len(held) + 1 \/ k = Len(held) + 1
    <3>1. held'[i] = job
      BY <1>4, <2>3
    <3>2. i \notin 1 .. Len(held) /\ k \notin 1 .. Len(held)
      BY <1>4, <2>1, <3>1
    <3> QED BY <1>7, <3>2
  <2> QED BY <1>7, <2>2, <2>3
<1>10. Waited'
  <2> SUFFICES ASSUME NEW d \in Clients, client'[d] # "idle", reply'[d] = Empty
               PROVE  \E i \in 1 .. Len(held') : held'[i] = Current(d)'
    BY DEF Waited
  <2>1. CASE d = c
    BY <1>1, <1>4, <1>5, <2>1, SMTT(60)
  <2>2. CASE d # c
    <3>1. client[d] # "idle" /\ reply[d] = Empty /\ Current(d)' = Current(d)
      BY <1>1, <2>2 DEF Current
    <3>2. PICK i \in 1 .. Len(held) : held[i] = Current(d)
      BY <3>1 DEF Calls, Waited
    <3>3. i \in 1 .. Len(held') /\ held'[i] = held[i]
      BY <1>1, <1>4
    <3> QED BY <3>1, <3>2, <3>3
  <2> QED BY <2>1, <2>2
<1>11. Silent'
  <2> SUFFICES ASSUME NEW i \in 1 .. Len(held'), Listening(held[i])' PROVE reply'[held'[i].client] = Empty
    BY DEF Silent
  <2>1. CASE held'[i] = job
    BY <1>1, <1>5, <2>1
  <2>2. CASE i \in 1 .. Len(held)
    <3>1. held'[i] = held[i] /\ held[i].client \in Clients
      BY <1>4, <2>2 DEF Job
    <3>2. held[i].client # c
      BY <1>1, <1>6, <2>2, <3>1 DEF Listening
    <3>3. Listening(held[i])
      BY <1>1, <3>1, <3>2 DEF Listening
    <3> QED BY <1>1, <2>2, <3>1, <3>2, <3>3 DEF Calls, Silent
  <2> QED BY <1>7, <2>1, <2>2
<1>12. Own'
  <2> SUFFICES ASSUME NEW d \in Clients, NEW j \in Job, client'[d] # "idle", reply'[d] = Ok(j) PROVE j = Current(d)'
    BY DEF Own
  <2>1. d # c
    BY <1>1, Kinds
  <2>2. client[d] # "idle" /\ reply[d] = Ok(j) /\ Current(d)' = Current(d)
    BY <1>1, <2>1 DEF Current
  <2> QED BY <2>2 DEF Calls, Own
<1> QED BY <1>1, <1>8, <1>9, <1>10, <1>11, <1>12 DEF Calls

\* Tasks move on, or make a call that is refused; nothing happens to the jobs.
LEMMA ClientsStep ==
    ASSUME Types, Calls, UNCHANGED <<held, reply>>,
           \A c \in Clients : client'[c] # "idle"
               => client[c] # "idle" /\ client'[c] \in {"sent", "waiting"} /\ ticket'[c] = ticket[c],
           \A c \in Clients : ticket[c] \in Nat /\ ticket'[c] \in Nat /\ ticket[c] <= ticket'[c],
           ~handles' => \A c \in Clients : client'[c] = "idle"
    PROVE  Calls'
<1>1. held \in Seq(Job) /\ Len(held) \in Nat
  BY DEF Types, held
<1>2. \A i \in 1 .. Len(held) : held[i].client \in Clients /\ held[i].ticket \in Nat
  <2>1. \A i \in 1 .. Len(held) : held[i] \in Job
    BY <1>1
  <2>2. \A job \in Job : job.client \in Clients /\ job.ticket \in Nat
    BY BatcherAssumption DEF Job
  <2> QED BY <2>1, <2>2
<1>3. Tickets'
  <2> SUFFICES ASSUME NEW i \in 1 .. Len(held) PROVE held[i].ticket <= ticket'[held[i].client]
    BY DEF Tickets
  <2>1. held[i].ticket <= ticket[held[i].client] /\ ticket[held[i].client] <= ticket'[held[i].client]
    BY <1>2 DEF Calls, Tickets
  <2> QED BY <1>2, <2>1
<1>4. Distinct'
  BY DEF Calls, Distinct
<1>5. \A c \in Clients : client'[c] # "idle" => client[c] # "idle" /\ Current(c)' = Current(c)
  BY DEF Current
<1>6. Waited'
  BY <1>5 DEF Calls, Waited
<1>7. Own'
  BY <1>5 DEF Calls, Own
<1>8. Silent'
  <2> SUFFICES ASSUME NEW i \in 1 .. Len(held), Listening(held[i])' PROVE reply[held[i].client] = Empty
    BY DEF Silent
  <2>1. client'[held[i].client] # "idle" /\ ticket'[held[i].client] = held[i].ticket
    BY DEF Listening
  <2>2. client[held[i].client] \in {"sent", "waiting"} /\ ticket[held[i].client] = held[i].ticket
    BY <1>2, <2>1 DEF Types
  <2> QED BY <2>2 DEF Calls, Silent, Listening
<1> QED BY <1>3, <1>4, <1>6, <1>7, <1>8 DEF Calls

\* A step of the worker that answers nobody.
Collects == UNCHANGED <<client, ticket, handles, reply, held>>

\* What a step does to the calls.
CallsBecome ==
    \/ \E c \in Clients : Accepted(c, [client |-> c, ticket |-> ticket[c] + 1])
    \/ \E c \in Clients : Refused(c)
    \/ \E c \in Clients : CountAccepted(c) \/ Resume(c) \/ Abandon(c)
    \/ DropHandles
    \/ Collects /\ (UNCHANGED worker \/ (worker' # "stopped" /\ worker # "stopped"))
    \/ Disconnected
    \/ \E answer \in {Failed, Ok(Head(jobs))} :
           jobs # <<>> /\ Send(answer) /\ worker # "stopped" /\ worker' # "stopped"
    \/ Panic
    \/ DropReceiver
    \/ UNCHANGED vars

LEMMA StepCases == ASSUME Types, AtWork, [Next]_vars PROVE CallsBecome
<1>1. ASSUME Take("collect"), worker # "stopped" PROVE CallsBecome
  BY <1>1, TakeTypes DEF Take, CallsBecome, Collects, clientVars
<1>2. CASE BatchFull \/ QueueEmpty \/ WaitOver
  BY <1>2 DEF BatchFull, QueueEmpty, WaitOver, Goto, CallsBecome, Collects, clientVars, held
<1>3. CASE ProcessOk \/ ProcessFails
  BY <1>3 DEF ProcessOk, ProcessFails, CallsBecome, Collects, clientVars, held
<1>4. CASE Deliver
  <2>1. jobs # <<>> /\ responses = jobs /\ worker = "deliver" /\ Send(Ok(Head(jobs)))
    BY <1>4 DEF Deliver, AtWork
  <2>2. worker' # "stopped"
    BY <2>1 DEF Send
  <2> QED BY <2>1, <2>2 DEF CallsBecome
<1>5. CASE FailJob
  <2>1. jobs # <<>> /\ worker = "fail" /\ Send(Failed)
    BY <1>5 DEF FailJob, AtWork
  <2>2. worker' # "stopped"
    BY <2>1 DEF Send
  <2> QED BY <2>1, <2>2 DEF CallsBecome
<1>6. ASSUME NEW c \in Clients, Submit(c) PROVE CallsBecome
  BY <1>6, TrySendCases DEF Submit, CallsBecome
<1>7. CASE DropHandles \/ Disconnected \/ Panic \/ DropReceiver \/ UNCHANGED vars
  BY <1>7 DEF CallsBecome
<1> QED BY <1>1, <1>2, <1>3, <1>4, <1>5, <1>6, <1>7
        DEF Next, Work, ReceiveFirst, TakeReady, TakeAwaited, Stopped

LEMMA CallsStep == ASSUME Types, AtWork, Types', Calls, [Next]_vars PROVE Calls'
<1>1. ticket \in [Clients -> Nat] /\ ticket' \in [Clients -> Nat] /\ client' \in [Clients -> {"idle", "sent", "waiting"}]
  BY BatcherAssumption DEF Types
<1>2. ASSUME NEW c \in Clients, Refused(c) PROVE Calls'
  <2>1. client[c] = "idle" /\ UNCHANGED <<client, handles, reply, held>>
    BY <1>2 DEF Refused, held, workerVars
  <2>2. \A d \in Clients : ticket'[d] = IF d = c THEN ticket[d] + 1 ELSE ticket[d]
    BY <1>1, <1>2 DEF Refused
  <2>3. \A d \in Clients : ticket[d] \in Nat /\ ticket'[d] \in Nat /\ ticket[d] <= ticket'[d]
    BY <1>1, <2>2
  <2> QED BY <1>1, <2>1, <2>2, <2>3, ClientsStep DEF Calls
<1>3. ASSUME NEW c \in Clients, CountAccepted(c) \/ Resume(c) \/ Abandon(c) PROVE Calls'
  <2>1. UNCHANGED <<ticket, handles, reply, held>>
    BY <1>3 DEF CountAccepted, Resume, Abandon, held, workerVars
  <2>2. client[c] # "idle" /\ \A d \in Clients \ {c} : client'[d] = client[d]
    BY <1>3 DEF CountAccepted, Resume, Abandon, Types
  <2>3. handles
    BY <2>2 DEF Calls
  <2> QED BY <1>1, <2>1, <2>2, <2>3, ClientsStep
<1>4. CASE DropHandles \/ Disconnected \/ Collects \/ UNCHANGED vars
  <2>1. UNCHANGED <<client, ticket, reply, held>>
    BY <1>4 DEF DropHandles, Disconnected, Collects, Goto, held, vars, clientVars, workerVars
  <2>2. ~handles' => \A c \in Clients : client[c] = "idle"
    BY <1>4 DEF DropHandles, Disconnected, Collects, Goto, vars, clientVars, Calls
  <2> QED BY <1>1, <2>1, <2>2, ClientsStep
<1>5. ASSUME NEW answer \in {Failed, Ok(Head(jobs))}, jobs # <<>>, Send(answer) PROVE Calls'
  BY <1>5, SendSettles, SettleStep
<1>6. CASE Panic \/ DropReceiver
  BY <1>6, PanicSettles, ReceiverSettles, SettleStep
<1> QED BY <1>2, <1>3, <1>4, <1>5, <1>6, StepCases, AcceptedStep DEF CallsBecome

-----------------------------------------------------------------------------
(* The steps, as steps of the service.                                     *)

\* What the service sees of a call follows from its reply.
SeenRightly ==
    /\ \A c \in Clients : client[c] = "idle" => Seen[c] = "idle"
    /\ \A c \in Clients : client[c] # "idle" =>
         /\ reply[c] = Empty => Seen[c] = "open"
         /\ reply[c] = Dropped => Seen[c] = "stopped"
         /\ reply[c] = Failed => Seen[c] = "failed"
         /\ \A j \in Job : reply[c] = Ok(j) => Seen[c] = "ok"

LEMMA AnswersSeen == Types /\ Own => SeenRightly
<1> SUFFICES ASSUME Types, Own PROVE SeenRightly
  OBVIOUS
<1>1. \A c \in Clients : client[c] = "idle" => Seen[c] = "idle"
  BY DEF Seen
<1>2. ASSUME NEW c \in Clients, client[c] # "idle"
      PROVE  /\ reply[c] = Empty => Seen[c] = "open"
             /\ reply[c] = Dropped => Seen[c] = "stopped"
             /\ reply[c] = Failed => Seen[c] = "failed"
             /\ \A j \in Job : reply[c] = Ok(j) => Seen[c] = "ok"
  <2>1. ASSUME reply[c] = Empty PROVE Seen[c] = "open"
    BY <1>2, <2>1 DEF Seen, Empty
  <2>2. ASSUME reply[c] = Dropped PROVE Seen[c] = "stopped"
    BY <1>2, <2>2 DEF Seen, Dropped
  <2>3. ASSUME reply[c] = Failed PROVE Seen[c] = "failed"
    BY <1>2, <2>3 DEF Seen, Failed
  <2>4. ASSUME NEW j \in Job, reply[c] = Ok(j) PROVE Seen[c] = "ok"
    <3>1. j = Current(c)
      BY <1>2, <2>4 DEF Own
    <3>2. reply[c].kind = "ok" /\ reply[c].to = [client |-> c, ticket |-> ticket[c]]
      BY <2>4, <3>1 DEF Ok, Current
    <3> QED BY <1>2, <3>2 DEF Seen
  <2> QED BY <2>1, <2>2, <2>3, <2>4
<1> QED BY <1>1, <1>2 DEF SeenRightly

\* A client whose task and reply stay as they are sees its call as before.
LEMMA SeenAsBefore ==
    ASSUME Types, SeenRightly, SeenRightly', NEW c \in Clients, reply'[c] = reply[c],
           client'[c] = "idle" <=> client[c] = "idle"
    PROVE  Seen'[c] = Seen[c]
<1>1. reply[c] \in {Empty, Dropped, Failed} \cup {Ok(j) : j \in Job}
  BY DEF Types
<1>2. CASE client[c] = "idle"
  BY <1>2 DEF SeenRightly
<1>3. CASE client[c] # "idle"
  BY <1>1, <1>3 DEF SeenRightly
<1> QED BY <1>2, <1>3

LEMMA Update == \A n, s, t : [[n |-> n, is |-> s] EXCEPT !.is = t] = [n |-> n, is |-> t]
OBVIOUS

\* One call changes.
LEMMA OneCall ==
    ASSUME NEW c \in Clients,
           \A d \in Clients \ {c} : ticket'[d] = ticket[d] /\ Seen'[d] = Seen[d]
    PROVE  Call' = [Call EXCEPT ![c] = [n |-> ticket'[c], is |-> Seen'[c]]]
  BY DEF Call

\* The n oldest jobs are settled: the calls that waited for them are answered.
LEMMA SettledCalls ==
    ASSUME Types, Types', Calls, SeenRightly, SeenRightly', NEW n, Settles(n)
    PROVE  /\ ticket' = ticket
           /\ \A c \in Heard(n) : Seen[c] = "open" /\ client[c] # "idle" /\ c \in Clients
           /\ \A c \in Clients \ Heard(n) : Seen'[c] = Seen[c]
<1>1. held \in Seq(Job) /\ Len(held) \in Nat /\ n \in 0 .. Len(held) /\ client' = client /\ ticket' = ticket
  BY DEF Types, held, Settles
<1>2. ASSUME NEW c \in Heard(n) PROVE Seen[c] = "open" /\ client[c] # "idle" /\ c \in Clients
  <2>1. c \in Clients /\ client[c] # "idle"
    BY <1>1, <1>2, HeardIs DEF Heard
  <2>2. PICK i \in 1 .. n : held[i].client = c /\ Listening(held[i])
    BY <1>2 DEF Heard
  <2>3. i \in 1 .. Len(held)
    BY <1>1
  <2>4. reply[c] = Empty
    BY <2>2, <2>3 DEF Calls, Silent
  <2> QED BY <2>1, <2>4 DEF SeenRightly
<1>3. ASSUME NEW c \in Clients \ Heard(n) PROVE Seen'[c] = Seen[c]
  BY <1>1, <1>3, SeenAsBefore DEF Settles
<1> QED BY <1>1, <1>2, <1>3

\* The step of the service that an answer to the oldest job is.
LEMMA SendServes ==
    ASSUME Types, Types', AtWork, Calls, SeenRightly, SeenRightly', jobs # <<>>,
           NEW answer \in {Failed, Ok(Head(jobs))}, Send(answer)
    PROVE  \/ Call' = Call
           \/ \E c \in Clients, state \in {"ok", "failed"} :
                  Call[c].is = "open" /\ Call' = [Call EXCEPT ![c].is = state]
<1>1. Settles(1)
  BY SendSettles
<1>2. /\ ticket' = ticket
      /\ \A c \in Heard(1) : Seen[c] = "open" /\ client[c] # "idle" /\ c \in Clients
      /\ \A c \in Clients \ Heard(1) : Seen'[c] = Seen[c]
  BY <1>1, SettledCalls
<1>3. CASE Heard(1) = {}
  BY <1>2, <1>3 DEF Call
<1>4. ASSUME NEW c \in Heard(1)
      PROVE  \E state \in {"ok", "failed"} :
                  Call[c].is = "open" /\ Call' = [Call EXCEPT ![c].is = state]
  <2>1. c \in Clients /\ client[c] # "idle" /\ Seen[c] = "open"
    BY <1>2, <1>4
  <2>2. jobs \in Seq(Job) /\ Head(jobs) \in Job /\ held[1] = Head(jobs)
    <3>1. jobs \in Seq(Job) /\ queue \in Seq(Job)
      BY DEF Types
    <3> QED BY <3>1, Answered DEF held
  <2>3. c = Head(jobs).client /\ Listening(Head(jobs))
    BY <1>4, <2>2 DEF Heard
  <2>4. reply'[c] = answer /\ client'[c] = client[c]
    BY <2>1, <2>3 DEF Send, Types, clientVars
  <2>5. Seen'[c] \in {"ok", "failed"}
    BY <2>1, <2>2, <2>4 DEF SeenRightly
  <2>6. \A d \in Clients \ {c} : d \notin Heard(1)
    BY <2>2, <2>3 DEF Heard
  <2>7. Call' = [Call EXCEPT ![c] = [n |-> ticket'[c], is |-> Seen'[c]]]
    BY <1>2, <2>1, <2>6, OneCall
  <2>8. Call[c] = [n |-> ticket[c], is |-> "open"] /\ DOMAIN Call = Clients
    BY <2>1 DEF Call
  <2>9. PICK state \in {"ok", "failed"} : Seen'[c] = state
    BY <2>5
  <2>10. [Call[c] EXCEPT !.is = state] = [n |-> ticket'[c], is |-> Seen'[c]]
    BY <1>2, <2>8, <2>9, Update
  <2>11. Call' = [Call EXCEPT ![c].is = state]
    BY <2>7, <2>10
  <2>12. Call[c].is = "open"
    BY <2>8
  <2> QED BY <2>11, <2>12
<1> QED BY <1>2, <1>3, <1>4

\* ... and the one that dropping senders is.
LEMMA DropServes ==
    ASSUME Types, Types', Calls, SeenRightly, SeenRightly', NEW n, Settles(n),
           \A c \in Heard(n) : reply'[c] = Dropped
    PROVE  /\ Heard(n) \in SUBSET {c \in Clients : Call[c].is = "open"}
           /\ Call' = [c \in Clients |-> IF c \in Heard(n) THEN [Call[c] EXCEPT !.is = "stopped"] ELSE Call[c]]
<1>1. /\ ticket' = ticket
      /\ \A c \in Heard(n) : Seen[c] = "open" /\ client[c] # "idle" /\ c \in Clients
      /\ \A c \in Clients \ Heard(n) : Seen'[c] = Seen[c]
  BY SettledCalls
<1>2. \A c \in Heard(n) : Seen'[c] = "stopped"
  BY <1>1 DEF SeenRightly, Settles
<1>3. \A c \in Clients : Call[c] = [n |-> ticket[c], is |-> Seen[c]]
  BY DEF Call
<1>4. Heard(n) \in SUBSET {c \in Clients : Call[c].is = "open"}
  <2> SUFFICES ASSUME NEW c \in Heard(n) PROVE c \in Clients /\ Call[c].is = "open"
    OBVIOUS
  <2>1. c \in Clients /\ Seen[c] = "open"
    BY <1>1
  <2>2. Call[c] = [n |-> ticket[c], is |-> "open"]
    BY <1>3, <2>1
  <2> QED BY <2>1, <2>2
<1>5. ASSUME NEW c \in Clients
      PROVE  [n |-> ticket'[c], is |-> Seen'[c]]
                = IF c \in Heard(n) THEN [Call[c] EXCEPT !.is = "stopped"] ELSE Call[c]
  <2>1. CASE c \in Heard(n)
    <3>1. Call[c] = [n |-> ticket[c], is |-> Seen[c]] /\ Seen'[c] = "stopped"
      BY <1>2, <1>3, <2>1
    <3>2. [Call[c] EXCEPT !.is = "stopped"] = [n |-> ticket'[c], is |-> Seen'[c]]
      BY <1>1, <3>1, Update
    <3> QED BY <2>1, <3>2
  <2>2. CASE c \notin Heard(n)
    BY <1>1, <1>3, <2>2
  <2> QED BY <2>1, <2>2
<1> QED BY <1>4, <1>5 DEF Call

LEMMA ServiceStep ==
    ASSUME Types, Types', AtWork, Calls, SeenRightly, SeenRightly', [Next]_vars
    PROVE  [Service!ServiceNext]_(Service!serviceVars)
<1>1. \A c \in Clients : Call[c] = [n |-> ticket[c], is |-> Seen[c]]
  BY DEF Call
<1>2. ASSUME NEW c \in Clients, Accepted(c, [client |-> c, ticket |-> ticket[c] + 1])
      PROVE  Service!Open(c)
  <2>1. /\ client[c] = "idle" /\ ticket[c] < MaxSubmits /\ Connected /\ Connected'
        /\ ticket'[c] = ticket[c] + 1 /\ client'[c] = "sent" /\ reply'[c] = Empty
        /\ \A d \in Clients \ {c} : ticket'[d] = ticket[d] /\ client'[d] = client[d] /\ reply'[d] = reply[d]
    BY <1>2 DEF Accepted, Types, Connected, workerVars
  <2>2. Seen[c] = "idle" /\ Seen'[c] = "open"
    BY <2>1 DEF SeenRightly
  <2>3. \A d \in Clients \ {c} : Seen'[d] = Seen[d]
    BY <2>1, SeenAsBefore
  <2>4. Call' = [Call EXCEPT ![c] = [n |-> ticket[c] + 1, is |-> "open"]]
    BY <2>1, <2>2, <2>3, OneCall
  <2>5. Call[c].is = "idle" /\ Call[c].n = ticket[c] /\ DOMAIN Call = Clients
    BY <1>1, <2>2 DEF Call
  <2>6. Call' = [Call EXCEPT ![c] = [n |-> @.n + 1, is |-> "open"]]
    BY <2>4, <2>5
  <2>7. Connected' = Connected
    BY <1>2 DEF Accepted, Connected, workerVars
  <2> QED BY <2>1, <2>5, <2>6, <2>7 DEF Service!Open, Service!Ask
<1>3. ASSUME NEW c \in Clients, Refused(c)
      PROVE  Service!Refuse(c)
  <2>1. /\ client[c] = "idle" /\ ticket[c] < MaxSubmits /\ client' = client /\ reply' = reply
        /\ ticket'[c] = ticket[c] + 1 /\ \A d \in Clients \ {c} : ticket'[d] = ticket[d]
    BY <1>3 DEF Refused, Types
  <2>2. Seen[c] = "idle" /\ Seen'[c] = "idle"
    BY <2>1 DEF SeenRightly
  <2>3. \A d \in Clients \ {c} : Seen'[d] = Seen[d]
    BY <2>1, SeenAsBefore
  <2>4. Call' = [Call EXCEPT ![c] = [n |-> ticket[c] + 1, is |-> "idle"]]
    BY <2>1, <2>2, <2>3, OneCall
  <2>5. Call[c].is = "idle" /\ Call[c].n = ticket[c] /\ DOMAIN Call = Clients
    BY <1>1, <2>2 DEF Call
  <2>6. Call' = [Call EXCEPT ![c] = [n |-> @.n + 1, is |-> "idle"]]
    BY <2>4, <2>5
  <2>7. Connected' = Connected
    BY <1>3 DEF Refused, Connected, workerVars
  <2> QED BY <2>1, <2>5, <2>6, <2>7 DEF Service!Refuse, Service!Ask
<1>4. ASSUME NEW c \in Clients, Resume(c) \/ Abandon(c)
      PROVE  Service!Return(c) \/ Service!Abandon(c)
  <2>1. /\ client[c] = "waiting" /\ client'[c] = "idle" /\ ticket' = ticket /\ reply' = reply
        /\ \A d \in Clients \ {c} : client'[d] = client[d]
    BY <1>4 DEF Resume, Abandon, Types
  <2>2. Seen'[c] = "idle" /\ Seen[c] # "idle"
    <3>1. reply[c] \in {Empty, Dropped, Failed} \cup {Ok(j) : j \in Job}
      BY DEF Types
    <3> QED BY <2>1, <3>1 DEF SeenRightly
  <2>3. \A d \in Clients \ {c} : Seen'[d] = Seen[d]
    BY <2>1, SeenAsBefore
  <2>4. Call' = [Call EXCEPT ![c] = [n |-> ticket[c], is |-> "idle"]]
    BY <2>1, <2>2, <2>3, OneCall
  <2>5. Call[c] = [n |-> ticket[c], is |-> Seen[c]]
    BY <1>1
  <2>6. [Call[c] EXCEPT !.is = "idle"] = [n |-> ticket[c], is |-> "idle"]
    BY <2>5, Update
  <2>7. Call' = [Call EXCEPT ![c].is = "idle"]
    BY <2>4, <2>6
  <2>8. Connected' = Connected /\ Call[c].is # "idle"
    BY <1>4, <2>2, <2>5 DEF Resume, Abandon, Connected, workerVars
  <2> QED BY <2>7, <2>8 DEF Service!Abandon, Service!Becomes
<1>5. ASSUME UNCHANGED <<ticket, reply>>, \A c \in Clients : client'[c] = "idle" <=> client[c] = "idle"
      PROVE  Call' = Call
  <2>1. \A c \in Clients : Seen'[c] = Seen[c]
    BY <1>5, SeenAsBefore
  <2> QED BY <1>5, <2>1 DEF Call
<1>6. ASSUME NEW c \in Clients, CountAccepted(c) PROVE UNCHANGED <<Connected, Call>>
  <2>1. UNCHANGED <<ticket, reply, worker>> /\ \A d \in Clients : client'[d] = "idle" <=> client[d] = "idle"
    BY <1>6 DEF CountAccepted, Types, workerVars
  <2> QED BY <1>5, <2>1 DEF Connected
<1>7. CASE \/ DropHandles
           \/ Collects /\ (UNCHANGED worker \/ (worker' # "stopped" /\ worker # "stopped"))
           \/ UNCHANGED vars
  <2>1. UNCHANGED <<ticket, reply, client>> /\ Connected' = Connected
    BY <1>7 DEF DropHandles, Collects, vars, clientVars, workerVars, Connected
  <2>2. Call' = Call
    BY <1>5, <2>1
  <2> QED BY <2>1, <2>2 DEF Service!serviceVars
<1>8. ASSUME NEW answer \in {Failed, Ok(Head(jobs))}, jobs # <<>>, Send(answer), worker # "stopped", worker' # "stopped"
      PROVE  \/ UNCHANGED <<Connected, Call>>
             \/ \E c \in Clients : Service!Answer(c, "ok") \/ Service!Answer(c, "failed")
  <2>1. Connected' = Connected
    BY <1>8 DEF Connected
  <2>2. CASE Call' = Call
    BY <2>1, <2>2
  <2>3. ASSUME NEW c \in Clients, NEW state \in {"ok", "failed"},
               Call[c].is = "open", Call' = [Call EXCEPT ![c].is = state]
        PROVE  Service!Answer(c, state)
    BY <2>1, <2>3 DEF Service!Answer, Service!Becomes
  <2> QED BY <1>8, <2>2, <2>3, SendServes
<1>9. ASSUME NEW n, Settles(n), \A c \in Heard(n) : reply'[c] = Dropped
      PROVE  Heard(n) \in SUBSET Service!OpenCalls /\ Service!Fail(Heard(n))
  BY <1>9, DropServes DEF Service!OpenCalls, Service!Fail
<1>10. ASSUME Panic PROVE Service!Lose
  <2>1. jobs \in Seq(Job) /\ DropSenders(jobs) /\ Connected' = Connected
    BY <1>10 DEF Types, Panic, Connected
  <2>2. Settles(Len(jobs))
    BY <1>10, PanicSettles
  <2>3. \A i \in 1 .. Len(jobs) : jobs[i] = held[i]
    BY Positions DEF held, Types
  <2>4. \A c \in Heard(Len(jobs)) : reply'[c] = Dropped
    BY <2>1, <2>3, SendersDropped
  <2> QED BY <1>9, <2>1, <2>2, <2>4 DEF Service!Lose
<1>11. ASSUME DropReceiver PROVE Service!Stop
  <2>1. queue \in Seq(Job) /\ DropSenders(queue) /\ Connected /\ ~Connected'
    BY <1>11 DEF Types, DropReceiver, Connected
  <2>2. Settles(Len(queue)) /\ held = queue
    BY <1>11, ReceiverSettles
  <2>3. \A c \in Heard(Len(queue)) : reply'[c] = Dropped
    BY <2>1, <2>2, SendersDropped
  <2>4. \A c \in Clients : Call[c].is = "open" => c \in Heard(Len(queue))
    <3> SUFFICES ASSUME NEW c \in Clients, Call[c].is = "open" PROVE c \in Heard(Len(queue))
      OBVIOUS
    <3> Seen[c] = "open"
      <4>1. Call[c] = [n |-> ticket[c], is |-> Seen[c]]
        BY <1>1
      <4> QED BY <4>1
    <3>1. reply[c] \in {Empty, Dropped, Failed} \cup {Ok(j) : j \in Job}
      BY DEF Types
    <3>2. client[c] # "idle" /\ reply[c] = Empty
      BY <3>1 DEF SeenRightly
    <3>3. Len(queue) \in 0 .. Len(held)
      BY <2>1, <2>2
    <3> QED BY <2>2, <3>2, <3>3, HeardIs DEF Calls, Waited
  <2>5. Heard(Len(queue)) = Service!OpenCalls
    BY <1>9, <2>2, <2>3, <2>4 DEF Service!OpenCalls
  <2> QED BY <1>9, <2>1, <2>2, <2>3, <2>5 DEF Service!Stop
<1>12. ASSUME Disconnected PROVE Service!Stop
  <2>1. UNCHANGED <<ticket, reply, client>> /\ Connected /\ ~Connected' /\ ~handles
    BY <1>12 DEF Disconnected, Goto, clientVars, Connected
  <2>2. Call' = Call
    BY <1>5, <2>1
  <2>3. \A c \in Clients : Call[c].is = "idle"
    <3> SUFFICES ASSUME NEW c \in Clients PROVE Call[c].is = "idle"
      OBVIOUS
    <3>1. Seen[c] = "idle"
      BY <2>1 DEF Calls, SeenRightly
    <3>2. Call[c] = [n |-> ticket[c], is |-> "idle"]
      BY <1>1, <3>1
    <3> QED BY <3>2
  <2>4. Service!OpenCalls = {}
    BY <2>3 DEF Service!OpenCalls
  <2>5. Call = [c \in Clients |-> Call[c]]
    BY DEF Call
  <2> QED BY <2>1, <2>2, <2>4, <2>5 DEF Service!Stop, Service!Fail
<1>13. CASE \/ \E c \in Clients : Service!Open(c) \/ Service!Refuse(c) \/ Service!Return(c) \/ Service!Abandon(c)
                                  \/ Service!Answer(c, "ok") \/ Service!Answer(c, "failed")
            \/ Service!Lose \/ Service!Stop \/ UNCHANGED <<Connected, Call>>
  BY <1>13 DEF Service!ServiceNext, Service!serviceVars
<1>14. CallsBecome
  BY StepCases
<1> DEFINE Goal == [Service!ServiceNext]_(Service!serviceVars)
<1> HIDE DEF Goal
<1>15. ASSUME NEW c \in Clients, Accepted(c, [client |-> c, ticket |-> ticket[c] + 1]) PROVE Goal
  BY <1>2, <1>13, <1>15 DEF Goal
<1>16. ASSUME NEW c \in Clients, Refused(c) \/ CountAccepted(c) \/ Resume(c) \/ Abandon(c) PROVE Goal
  BY <1>3, <1>4, <1>6, <1>13, <1>16 DEF Goal
<1>17. ASSUME NEW answer \in {Failed, Ok(Head(jobs))}, jobs # <<>>, Send(answer),
              worker # "stopped", worker' # "stopped"
       PROVE  Goal
  BY <1>8, <1>13, <1>17 DEF Goal
<1>18. CASE Panic \/ DropReceiver \/ Disconnected
  BY <1>10, <1>11, <1>12, <1>13, <1>18
<1> QED BY <1>7, <1>14, <1>15, <1>16, <1>17, <1>18 DEF CallsBecome, Goal

\* submit answers every call at most once, with its own answer or an error,
\* and none once the worker is gone, for any number of clients and batches of
\* any size, through calls given up, failures, panics and shutdown.
THEOREM SubmitKeepsPromise == Spec => ImplementsService
<1> DEFINE Inv == Types /\ AtWork /\ Calls
<1>1. Init => Inv
  <2>1. <<>> \o <<>> = <<>> /\ Len(<<>>) = 0
    OBVIOUS
  <2>2. Init => Calls
    BY <2>1 DEF Init, Calls, Tickets, Distinct, Waited, Silent, Own, held
  <2> QED BY <2>2, InitTypes
<1>2. Inv /\ [Next]_vars => Inv'
  BY TypesStep, CallsStep
<1>3. Inv => SeenRightly
  BY AnswersSeen DEF Calls
<1>4. Init => Service!ServiceInit
  <2> SUFFICES ASSUME Init PROVE Service!ServiceInit
    OBVIOUS
  <2>1. SeenRightly
    BY <1>1, <1>3
  <2>2. Connected = TRUE
    BY DEF Init, Connected
  <2>3. \A c \in Clients : ticket[c] = 0 /\ Seen[c] = "idle"
    BY <2>1 DEF Init, SeenRightly
  <2> QED BY <2>2, <2>3 DEF Service!ServiceInit, Call
<1>5. Inv /\ Inv' /\ SeenRightly /\ SeenRightly' /\ [Next]_vars => [Service!ServiceNext]_(Service!serviceVars)
  BY ServiceStep
<1> HIDE DEF Inv
<1> QED BY <1>1, <1>2, <1>3, <1>4, <1>5, PTL DEF Spec, ImplementsService, Service!ServiceSpec
=============================================================================
