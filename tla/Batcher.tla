------------------------------- MODULE Batcher -------------------------------
(***************************************************************************)
(* The socket server's batcher (src/batcher.rs).  Connection tasks put     *)
(* requests into a bounded queue and wait for their answer; one worker     *)
(* thread takes batches from the queue, gives them to the processor and    *)
(* sends every answer back over the request's own oneshot channel.         *)
(*                                                                         *)
(* The crossbeam queue and the tokio channel are modelled from their use:  *)
(* a queue without receiver refuses and discards, a channel whose sender   *)
(* is dropped wakes its receiver.  What the processor does with a request  *)
(* does not matter here: a response is the job it answers.                 *)
(***************************************************************************)
EXTENDS Integers, Sequences, FiniteSets, SequencesExt

CONSTANTS
    Clients,      \* tasks that hold a BatcherHandle
    QueueDepth,   \* config.queue_depth
    MaxBatch,     \* config.max_batch_size
    MaxSubmits    \* bound on the requests of one client

\* spawn_batcher
ASSUME BatcherAssumption ==
    /\ QueueDepth \in Nat \ {0} /\ MaxBatch \in Nat \ {0} /\ MaxSubmits \in Nat
    /\ IsFiniteSet(Clients)

VARIABLES
    client,     \* where the task is in submit
    ticket,     \* submits it has made; names its current request
    reply,      \* its current oneshot channel
    handles,    \* a BatcherHandle is left
    queue,      \* jobs sent and not received
    worker,     \* where the worker thread is
    jobs,       \* its batch
    responses,  \* what the processor returned, of jobs
    accepted, rejected, completed, failed,  \* BatcherMetrics
    arrivals,   \* history: all jobs ever sent, in order
    lost        \* history: number of jobs dropped without an answer

clientVars == <<client, ticket, handles>>
workerVars == <<worker, jobs, responses>>
metrics == <<accepted, rejected, completed, failed>>
vars == <<clientVars, reply, queue, workerVars, metrics, arrivals, lost>>

Job == [client : Clients, ticket : 1 .. MaxSubmits]

Empty == [kind |-> "empty"]           \* no answer yet
Dropped == [kind |-> "dropped"]       \* the sender is gone: Stopped
Failed == [kind |-> "failed"]         \* Processing(message)
Ok(job) == [kind |-> "ok", to |-> job]

Init ==
    /\ client = [c \in Clients |-> "idle"] /\ ticket = [c \in Clients |-> 0]
    /\ reply = [c \in Clients |-> Empty]
    /\ handles = TRUE
    /\ queue = <<>>
    /\ worker = "recv" /\ jobs = <<>> /\ responses = <<>>
    /\ accepted = 0 /\ rejected = 0 /\ completed = 0 /\ failed = 0
    /\ arrivals = <<>> /\ lost = 0

\* The receiver lives as long as the worker's frame.
Connected == worker # "stopped"

-----------------------------------------------------------------------------
\* submit: try_send, whose success is counted after the fact.
TrySend(c) ==
    /\ client[c] = "idle" /\ handles /\ ticket[c] < MaxSubmits
    /\ ticket' = [ticket EXCEPT ![c] = @ + 1]
    /\ UNCHANGED <<handles, workerVars, accepted, completed, failed, lost>>
    /\ LET job == [client |-> c, ticket |-> ticket[c] + 1] IN
       \/ /\ Connected /\ Len(queue) < QueueDepth
          /\ queue' = Append(queue, job)
          /\ arrivals' = Append(arrivals, job)
          /\ client' = [client EXCEPT ![c] = "sent"]
          /\ reply' = [reply EXCEPT ![c] = Empty]
          /\ UNCHANGED rejected
       \/ /\ Connected /\ Len(queue) = QueueDepth       \* Overloaded
          /\ rejected' = rejected + 1
          /\ UNCHANGED <<client, queue, reply, arrivals>>
       \/ /\ ~Connected                                 \* Stopped
          /\ UNCHANGED <<client, queue, reply, arrivals, rejected>>

CountAccepted(c) ==
    /\ client[c] = "sent"
    /\ accepted' = accepted + 1
    /\ client' = [client EXCEPT ![c] = "waiting"]
    /\ UNCHANGED <<ticket, handles, reply, queue, workerVars, rejected, completed,
                   failed, arrivals, lost>>

\* The task is woken by the answer, or by the loss of the sender.
Resume(c) ==
    /\ client[c] = "waiting" /\ reply[c] # Empty
    /\ client' = [client EXCEPT ![c] = "idle"]
    /\ UNCHANGED <<ticket, handles, reply, queue, workerVars, metrics, arrivals, lost>>

\* The future is dropped while it waits; the job stays queued.
Abandon(c) ==
    /\ client[c] = "waiting"
    /\ client' = [client EXCEPT ![c] = "idle"]
    /\ UNCHANGED <<ticket, handles, reply, queue, workerVars, metrics, arrivals, lost>>

\* The last BatcherHandle is dropped.
DropHandles ==
    /\ handles /\ \A c \in Clients : client[c] = "idle"
    /\ handles' = FALSE
    /\ UNCHANGED <<client, ticket, reply, queue, workerVars, metrics, arrivals, lost>>

-----------------------------------------------------------------------------
\* Mutant: the answer to a call the task has given up reaches its next call.
ListeningAny(job) == client[job.client] \in {"sent", "waiting"}

\* A message to the oneshot channel of a job reaches a client that still
\* waits for this job.
Listening(job) ==
    client[job.client] \in {"sent", "waiting"} /\ ticket[job.client] = job.ticket

\* What the channels hold once the senders of these jobs are dropped.
DropSenders(dropped) ==
    reply' = [c \in Clients |->
                IF \E i \in DOMAIN dropped : dropped[i].client = c /\ Listening(dropped[i])
                THEN Dropped ELSE reply[c]]

\* Mutant: the newest job first.
TakeNewest(next) ==
    /\ queue # <<>>
    /\ queue' = SubSeq(queue, 1, Len(queue) - 1)
    /\ jobs' = Append(jobs, queue[Len(queue)])
    /\ worker' = next
    /\ UNCHANGED <<clientVars, reply, responses, metrics, arrivals, lost>>

\* The worker moves the oldest job of the queue into its batch.
Take(next) ==
    /\ queue # <<>>
    /\ queue' = Tail(queue)
    /\ jobs' = Append(jobs, Head(queue))
    /\ worker' = next
    /\ UNCHANGED <<clientVars, reply, responses, metrics, arrivals, lost>>

Goto(next) ==
    /\ worker' = next
    /\ UNCHANGED <<clientVars, reply, queue, jobs, responses, metrics, arrivals, lost>>

\* worker_loop: recv blocks for the first job of a batch ...
ReceiveFirst == worker = "recv" /\ Take("collect")

\* ... and fails when the queue is empty and nobody can send any more.
Disconnected == worker = "recv" /\ queue = <<>> /\ ~handles /\ Goto("stopped")

\* collect_jobs: drain what is ready; ...
TakeReady == worker = "collect" /\ Len(jobs) < MaxBatch /\ Take("collect")

BatchFull == worker = "collect" /\ Len(jobs) = MaxBatch /\ Goto("process")

\* ... nothing is: wait for more, unless the time is up or all handles gone.
QueueEmpty == /\ worker = "collect" /\ Len(jobs) < MaxBatch /\ queue = <<>>
              /\ \E next \in (IF handles THEN {"wait", "process"} ELSE {"process"}) : Goto(next)

TakeAwaited == worker = "wait" /\ Take("collect")

\* Timeout, or the last handle dropped meanwhile.
WaitOver == worker = "wait" /\ Goto("process")

-----------------------------------------------------------------------------
\* process_batch returns one response per request, in order.  completed is
\* counted before the answers are sent.
ProcessOk ==
    /\ worker = "process"
    /\ responses' = jobs
    /\ completed' = completed + Len(jobs)
    /\ worker' = "deliver"
    /\ UNCHANGED <<clientVars, reply, queue, jobs, accepted, rejected, failed, arrivals, lost>>

\* Mutant: a failed batch counts as one failure.
ProcessFailsOnce ==
    /\ worker = "process"
    /\ failed' = failed + 1
    /\ worker' = "fail"
    /\ UNCHANGED <<clientVars, reply, queue, jobs, responses, accepted, rejected,
                   completed, arrivals, lost>>

\* It fails, or returns another number of responses: fail_batch.
ProcessFails ==
    /\ worker = "process"
    /\ failed' = failed + Len(jobs)
    /\ worker' = "fail"
    /\ UNCHANGED <<clientVars, reply, queue, jobs, responses, accepted, rejected,
                   completed, arrivals, lost>>

\* jobs.drain(..).zip(responses)
Send(answer) ==
    /\ jobs' = Tail(jobs)
    /\ reply' = IF Listening(Head(jobs))
                THEN [reply EXCEPT ![Head(jobs).client] = answer] ELSE reply
    /\ worker' = IF Len(jobs) = 1 THEN "recv" ELSE worker
    /\ UNCHANGED <<clientVars, queue, metrics, arrivals, lost>>

Deliver ==
    /\ worker = "deliver"
    /\ Send(Ok(Head(responses)))
    /\ responses' = Tail(responses)

FailJob ==
    /\ worker = "fail"
    /\ Send(Failed)
    /\ UNCHANGED responses

\* The processor panics: unwinding drops the batch first, the receiver and
\* with it the queued jobs afterwards.
Panic ==
    /\ worker = "process"
    /\ DropSenders(jobs)
    /\ lost' = lost + Len(jobs)
    /\ jobs' = <<>>
    /\ worker' = "unwinding"
    /\ UNCHANGED <<clientVars, queue, responses, metrics, arrivals>>

\* Mutant: another owner keeps the receiver and nobody reads the queue.
ReceiverKept ==
    /\ worker = "unwinding"
    /\ worker' = "stopped"
    /\ UNCHANGED <<clientVars, reply, queue, jobs, responses, metrics, arrivals, lost>>

DropReceiver ==
    /\ worker = "unwinding"
    /\ DropSenders(queue)
    /\ lost' = lost + Len(queue)
    /\ queue' = <<>>
    /\ worker' = "stopped"
    /\ UNCHANGED <<clientVars, jobs, responses, metrics, arrivals>>

-----------------------------------------------------------------------------
Submit(c) == TrySend(c) \/ CountAccepted(c) \/ Resume(c) \/ Abandon(c)

Work == \/ ReceiveFirst \/ Disconnected \/ TakeReady \/ BatchFull \/ QueueEmpty
        \/ TakeAwaited \/ WaitOver \/ ProcessOk \/ ProcessFails \/ Deliver \/ FailJob
        \/ Panic \/ DropReceiver

\* The server is gone.
Stopped == worker = "stopped" /\ ~handles /\ UNCHANGED vars

Next == (\E c \in Clients : Submit(c)) \/ DropHandles \/ Work \/ Stopped

Spec == Init /\ [][Next]_vars

\* The worker thread runs (collection is bounded by max_batch_wait), and the
\* runtime polls a task that was woken.
FairSpec == /\ Spec /\ WF_vars(Work)
            /\ \A c \in Clients : WF_vars(CountAccepted(c)) /\ WF_vars(Resume(c))

-----------------------------------------------------------------------------
TypeOK ==
    /\ client \in [Clients -> {"idle", "sent", "waiting"}]
    /\ ticket \in [Clients -> 0 .. MaxSubmits]
    /\ reply \in [Clients -> {Empty, Dropped, Failed} \cup {Ok(j) : j \in Job}]
    /\ handles \in BOOLEAN
    /\ queue \in Seq(Job) /\ jobs \in Seq(Job) /\ responses \in Seq(Job)
    /\ worker \in {"recv", "collect", "wait", "process", "deliver", "fail", "unwinding", "stopped"}
    /\ accepted \in Nat /\ rejected \in Nat /\ completed \in Nat /\ failed \in Nat
    /\ arrivals \in Seq(Job) /\ lost \in Nat
    /\ Len(queue) <= QueueDepth /\ Len(jobs) <= MaxBatch

\* "Queue order and batch capacity are preserved": what the worker holds and
\* what is queued are the latest jobs sent, all of them, once, in order; no job
\* is skipped, answered twice or overtaken, whatever batches are cut.
QueueOrder == IsSuffix(jobs \o queue, arrivals)

\* The metrics account for every job, although accepted is counted late.
MetricsBalance ==
    accepted + Cardinality({c \in Clients : client[c] = "sent"})
        = completed + failed + lost + Len(queue)
          + (IF worker \in {"deliver", "fail"} THEN 0 ELSE Len(jobs))

\* Every submit returns: with a response, an error, or Stopped if the worker
\* has died.
SubmitReturns == \A c \in Clients : client[c] = "sent" ~> client[c] = "idle"

\* The calls of submit, as its callers see them.
Seen == [c \in Clients |->
    IF client[c] = "idle" THEN "idle"
    ELSE CASE reply[c].kind = "empty" -> "open"
           [] reply[c].kind = "dropped" -> "stopped"
           [] reply[c].kind = "failed" -> "failed"
           [] reply[c].kind = "ok" ->
                IF reply[c].to = [client |-> c, ticket |-> ticket[c]] THEN "ok" ELSE "another's"]

Call == [c \in Clients |-> [n |-> ticket[c], is |-> Seen[c]]]

Service == INSTANCE SubmitService WITH up <- Connected, call <- Call

\* submit keeps the promise the connections rely on, through batches, given up
\* calls, panics and shutdown: one answer to each call, its own, none once the
\* worker has stopped, and then no call left open.
ImplementsService == Service!ServiceSpec
=============================================================================
