------------------------------ MODULE Connection ------------------------------
(***************************************************************************)
(* The socket server's connections (src/network.rs) over the service of    *)
(* the batcher.  The listener gives each accepted connection one of        *)
(* MaxConnections slots, or turns it away; its task cuts the bytes of a    *)
(* persistent connection into requests, submits one at a time and writes   *)
(* the answers; a request that is not complete in time ends it.            *)
(*                                                                         *)
(* A stream is a sequence of tokens: the text of a line, or a line end.    *)
(* Only the texts that decide about persistence are told apart.  A request *)
(* and all sizes are counted in tokens; reads cut the stream anywhere      *)
(* between tokens, the header terminator included.                         *)
(***************************************************************************)
EXTENDS SubmitService, Sequences, SequencesExt, FiniteSetsExt

CONSTANTS
    Scripts,          \* what a peer may send before it closes or falls silent
    MaxRequest,       \* config.max_request_bytes
    MaxChunk,         \* size of the read buffer
    MaxConnections    \* config.max_connections

ASSUME ConnectionAssumption ==
    /\ MaxRequest \in Nat \ {0} /\ MaxChunk \in Nat \ {0} /\ MaxConnections \in Nat \ {0}
    /\ IsFiniteSet(Clients) /\ Scripts \subseteq Seq(STRING)

VARIABLES
    listening,  \* serve runs
    permits,    \* of the semaphore connection_slots
    task,       \* where the connection's task is
    script,     \* all that the peer sends
    stream,     \* of it, what has not been read
    pending,    \* read, and not yet part of a request
    served,     \* history: requests cut from the stream, the last may be open
    response,   \* to be written
    sent        \* responses written

connVars == <<listening, permits, task, script, stream, pending, served, response, sent>>
vars == <<connVars, serviceVars>>

EOL == "\r\n"
GetLine11 == "GET / HTTP/1.1"
CloseHeader == "Connection: close"
KeepHeader == "Connection: keep-alive"

\* A response, and the request it answers.
Reply(kind, to) == [kind |-> kind, to |-> to]
NoReply == Reply("none", 0)
Holding == {"reading", "calling", "writing", "ending"}
Ended == {"closed", "broken", "aborted"}

Init ==
    /\ ServiceInit
    /\ listening = TRUE /\ permits = MaxConnections
    /\ task = [c \in Clients |-> "backlog"]
    /\ script \in [Clients -> Scripts] /\ stream = script
    /\ pending = [c \in Clients |-> <<>>] /\ served = [c \in Clients |-> <<>>]
    /\ response = [c \in Clients |-> NoReply] /\ sent = [c \in Clients |-> <<>>]

-----------------------------------------------------------------------------
\* complete_header_len; 0 for None.
HeaderLen(request) ==
    LET ends == {i \in 2 .. Len(request) : request[i - 1] = EOL /\ request[i] = EOL}
    IN IF ends = {} THEN 0 ELSE Min(ends)

\* Mutant: the version of the request line does not count.
CloseHeaderOnly(request) == Contains(request, CloseHeader)

\* connection_should_close, with connection_header_has_token: the first
\* Connection header decides.
ShouldClose(request) ==
    LET headers == {i \in DOMAIN request : request[i] \in {CloseHeader, KeepHeader}}
    IN request[1] # GetLine11 \/ (headers # {} /\ request[Min(headers)] = CloseHeader)

\* The task ends and drops its permit.
End(c, how) ==
    /\ task' = [task EXCEPT ![c] = how]
    /\ permits' = permits + 1

Goto(c, where) == task' = [task EXCEPT ![c] = where] /\ UNCHANGED permits

\* write_and_close, with a response of the connection's own.
WriteAndClose(c, kind) ==
    /\ response' = [response EXCEPT ![c] = Reply(kind, Len(served[c]) + 1)]
    /\ Goto(c, "ending")

-----------------------------------------------------------------------------
\* serve: accept, and take a slot or turn the peer away.
Accept(c) ==
    /\ listening /\ task[c] = "backlog"
    /\ \/ /\ permits > 0
          /\ permits' = permits - 1
          /\ task' = [task EXCEPT ![c] = "reading"] /\ UNCHANGED response
       \/ /\ permits = 0
          /\ response' = [response EXCEPT ![c] = Reply("503", 1)]
          /\ Goto(c, "refusing")
    /\ UNCHANGED <<listening, script, stream, pending, served, sent, serviceVars>>

\* The response of a refused connection, written by a task without a slot
\* that ignores an error.
WriteRefusal(c) ==
    /\ task[c] = "refusing"
    /\ \/ sent' = [sent EXCEPT ![c] = Append(@, response[c])] /\ Goto(c, "closed")
       \/ UNCHANGED sent /\ Goto(c, "broken")
    /\ UNCHANGED <<listening, script, stream, pending, served, response, serviceVars>>

\* Ctrl-C, or an error of accept: serve returns, main too, and the runtime
\* drops the tasks where they wait.
Shutdown ==
    /\ listening
    /\ listening' = FALSE
    /\ task' = [c \in Clients |-> IF task[c] \in Ended THEN task[c] ELSE "aborted"]
    /\ permits' = MaxConnections
    /\ call' = [c \in Clients |-> [call[c] EXCEPT !.is = "idle"]]
    /\ UNCHANGED <<script, stream, pending, served, response, sent, up>>

-----------------------------------------------------------------------------
\* Mutant: all that is buffered counts.
PendingTooLarge(request) == Len(request) > MaxRequest

\* Mutant: a complete header is not measured.
IncompleteTooLarge(request) == HeaderLen(request) = 0 /\ Len(request) >= MaxRequest

\* The next request is, or will be, longer than allowed.
Oversized(request) ==
    IF HeaderLen(request) > 0 THEN HeaderLen(request) > MaxRequest ELSE Len(request) >= MaxRequest

\* Mutant: what was read with a request belongs to it.
FrameAll(c) ==
    /\ task[c] = "reading" /\ HeaderLen(pending[c]) \in 1 .. MaxRequest
    /\ served' = [served EXCEPT ![c] = Append(@, SubSeq(pending[c], 1, HeaderLen(pending[c])))]
    /\ pending' = [pending EXCEPT ![c] = <<>>]

\* read_raw_request: a complete header, cut from the front of pending.
Frame(c) ==
    LET len == HeaderLen(pending[c]) IN
    /\ task[c] = "reading" /\ len > 0 /\ ~Oversized(pending[c])
    /\ served' = [served EXCEPT ![c] = Append(@, SubSeq(pending[c], 1, len))]
    /\ pending' = [pending EXCEPT ![c] = SubSeq(@, len + 1, Len(@))]

\* handle_connection: a request is read and given to submit.
Submit(c) ==
    /\ Frame(c)
    /\ \/ Open(c) /\ Goto(c, "calling") /\ UNCHANGED response
       \/ /\ Refuse(c) /\ Goto(c, "writing")
          /\ response' = [response EXCEPT ![c] = Reply(IF up THEN "503" ELSE "500", call[c].n + 1)]
    /\ UNCHANGED <<listening, script, stream, sent>>

\* submit returns.
Respond(c) ==
    /\ task[c] = "calling" /\ Return(c)
    /\ response' = [response EXCEPT ![c] =
                        Reply(IF call[c].is = "ok" THEN "ok" ELSE "500", call[c].n)]
    /\ Goto(c, "writing")
    /\ UNCHANGED <<listening, script, stream, pending, served, sent>>

TooLarge(c) ==
    /\ task[c] = "reading" /\ Oversized(pending[c])
    /\ WriteAndClose(c, "413")
    /\ UNCHANGED <<listening, script, stream, pending, served, sent, serviceVars>>

\* The task waits for more of a request.
Awaiting(c) == task[c] = "reading" /\ HeaderLen(pending[c]) = 0 /\ ~Oversized(pending[c])

Read(c) ==
    /\ Awaiting(c) /\ stream[c] # <<>>
    /\ \E n \in 1 .. Min({MaxChunk, Len(stream[c])}) :
        /\ pending' = [pending EXCEPT ![c] = @ \o SubSeq(stream[c], 1, n)]
        /\ stream' = [stream EXCEPT ![c] = SubSeq(@, n + 1, Len(@))]
    /\ UNCHANGED <<listening, permits, task, script, served, response, sent, serviceVars>>

\* Without a request begun the connection is shut down without a word.
EndOfRead(c, kind) ==
    /\ Awaiting(c)
    /\ IF pending[c] = <<>> THEN End(c, "closed") /\ UNCHANGED response ELSE WriteAndClose(c, kind)
    /\ UNCHANGED <<listening, script, stream, pending, served, sent, serviceVars>>

EndOfFile(c) == stream[c] = <<>> /\ EndOfRead(c, "400")

\* Mutant: the timer starts again while a request is half read.
TimeoutIdle(c) == pending[c] = <<>> /\ EndOfRead(c, "408")

\* The read timeout covers a whole request, however its bytes trickle in.
Timeout(c) == EndOfRead(c, "408")

\* Mutant: the permit is given back by an explicit call, which an error skips.
WriteAnswerLeaks(c) ==
    /\ task[c] \in {"writing", "ending"}
    /\ sent' = [sent EXCEPT ![c] = Append(@, response[c])]
    /\ IF task[c] = "ending" THEN Goto(c, "closed")
       ELSE IF ShouldClose(served[c][Len(served[c])]) THEN End(c, "closed")
       ELSE Goto(c, "reading")
    /\ UNCHANGED <<listening, script, stream, pending, served, response, serviceVars>>

\* The response is written; the connection goes on unless the request, or the
\* error, ends it.
WriteAnswer(c) ==
    /\ task[c] \in {"writing", "ending"}
    /\ sent' = [sent EXCEPT ![c] = Append(@, response[c])]
    /\ IF task[c] = "ending" \/ ShouldClose(served[c][Len(served[c])])
       THEN End(c, "closed") ELSE Goto(c, "reading")
    /\ UNCHANGED <<listening, script, stream, pending, served, response, serviceVars>>

\* Reading or writing fails in a task with a slot: the peer has reset the
\* connection.
IoError(c) ==
    /\ Awaiting(c) \/ task[c] \in {"writing", "ending"}
    /\ End(c, "broken")
    /\ UNCHANGED <<listening, script, stream, pending, served, response, sent, serviceVars>>

-----------------------------------------------------------------------------
\* The worker behind the service.
Work == \/ \E c \in Clients : Answer(c, "ok") \/ Answer(c, "failed")
        \/ Lose /\ OpenCalls # {}
        \/ Stop

Handle(c) == Submit(c) \/ Respond(c) \/ TooLarge(c) \/ Read(c)

\* Every connection has ended.
Quiet == (\A c \in Clients : task[c] \in Ended) /\ UNCHANGED vars

Next ==
    \/ \E c \in Clients : \/ Accept(c) \/ WriteRefusal(c) \/ Handle(c) \/ EndOfFile(c)
                          \/ Timeout(c) \/ WriteAnswer(c) \/ IoError(c)
    \/ Shutdown
    \/ Work /\ UNCHANGED connVars
    \/ Quiet

Spec == Init /\ [][Next]_vars

\* The runtime polls tasks and the listener, timers fire, the service answers
\* (SubmitReturns of Batcher) and a peer reads its responses, or is reset:
\* writing has no timeout.
FairSpec ==
    /\ Spec
    /\ \A c \in Clients :
        /\ WF_vars(Accept(c)) /\ WF_vars(Handle(c)) /\ WF_vars(Timeout(c))
        /\ WF_vars(WriteAnswer(c)) /\ WF_vars(WriteRefusal(c))
        /\ WF_vars((Answer(c, "ok") \/ Answer(c, "failed")) /\ UNCHANGED connVars)

-----------------------------------------------------------------------------
TypeOK ==
    /\ up \in BOOLEAN /\ call \in [Clients -> Calls]
    /\ listening \in BOOLEAN
    /\ task \in [Clients -> {"backlog", "refusing"} \cup Holding \cup Ended]
    /\ \A c \in Clients :
        /\ {response[c]} \cup ToSet(sent[c]) \subseteq
            [kind : {"none", "ok", "500", "503", "408", "413", "400"}, to : 0 .. MaxSubmits + 1]
        /\ pending[c] \in Seq(ToSet(script[c])) /\ stream[c] \in Seq(ToSet(script[c]))
        /\ Len(pending[c]) < MaxRequest + MaxChunk

\* A slot is taken while a connection is served and only then, however it
\* ends; a connection turned away never holds one, and no more than
\* MaxConnections are served at once.
SlotsAccounted ==
    /\ permits >= 0
    /\ permits = MaxConnections - Cardinality({c \in Clients : task[c] \in Holding})

\* The responses that a peer sees answer its requests in order, one each.
AnsweredInTurn ==
    \A c \in Clients :
        /\ \A k \in DOMAIN sent[c] : sent[c][k].to = k
        /\ Len(sent[c]) <= Len(served[c]) + 1

\* "Preserves pipelined bytes for the next request": no byte of the stream is
\* lost, repeated or attributed to another request, wherever reads cut it, and
\* the responses are those to these requests.
PipelineOrder ==
    /\ \A c \in Clients :
        /\ FlattenSeq(served[c]) \o pending[c] \o stream[c] = script[c]
        /\ \A k \in DOMAIN served[c] : HeaderLen(served[c][k]) = Len(served[c][k])
    /\ AnsweredInTurn

\* The request asks to keep the connection: version 1.1, and no header that
\* closes it before one that keeps it.
Persistent(request) ==
    /\ request[1] = GetLine11
    /\ \A i \in DOMAIN request :
        request[i] = CloseHeader => \E j \in 1 .. i - 1 : request[j] = KeepHeader

\* After the answer to a request that closes the connection, or an answer of
\* the connection's own, nothing is served, whatever is buffered.
ClosingAnswerLast ==
    \A c \in Clients :
        /\ \A k \in 1 .. Len(served[c]) - 1 : Persistent(served[c][k])
        /\ \A k \in DOMAIN sent[c] :
            sent[c][k].kind \in {"408", "413", "400"} => k = Len(sent[c]) /\ k > Len(served[c])

\* No timeout, end of stream or limit takes a request from a peer that had
\* arrived complete and of legal size on a persistent connection, and 413 is
\* the answer to requests beyond the limit only.
LegalRequestsServed ==
    \A c \in Clients :
        LET next == pending[c] \o stream[c] IN
        /\ /\ task[c] = "closed"
           /\ served[c] # <<>> => Persistent(served[c][Len(served[c])])
           => HeaderLen(pending[c]) \notin 1 .. MaxRequest
        /\ response[c].kind = "413" => HeaderLen(next) \notin 1 .. MaxRequest /\ Len(next) >= MaxRequest

\* The processor gets no request beyond the limit: one would fail the whole
\* batch with the requests of other connections.
SubmittedWithinLimit ==
    \A c \in Clients : \A k \in DOMAIN served[c] : Len(served[c][k]) <= MaxRequest

\* Every connection is accepted or turned away and ends: no peer that sends
\* nothing, or half a request, keeps its slot.
EveryConnectionEnds == \A c \in Clients : <>(task[c] \in Ended)
=============================================================================
