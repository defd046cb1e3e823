---------------------------- MODULE SubmitService ----------------------------
(***************************************************************************)
(* What BatcherHandle::submit (src/batcher.rs) promises to a connection:   *)
(* a call is refused at once, or answered once, by the processor or with   *)
(* an error; when the worker stops, every open call fails, and no later    *)
(* one is answered.  The batcher implements this specification, the        *)
(* connections rely on it.                                                 *)
(***************************************************************************)
EXTENDS Naturals

CONSTANTS
    Clients,      \* tasks that submit
    MaxSubmits    \* bound on the calls of one client

VARIABLES
    up,    \* the worker takes requests
    call   \* the current, or latest, call of each client

serviceVars == <<up, call>>

Answers == {"ok", "failed", "stopped"}
Calls == [n : 0 .. MaxSubmits, is : {"idle", "open"} \cup Answers]

ServiceInit == up = TRUE /\ call = [c \in Clients |-> [n |-> 0, is |-> "idle"]]

Becomes(c, state) == call' = [call EXCEPT ![c].is = state]

\* The next call of a client that has none open.
Ask(c, state) ==
    /\ call[c].is = "idle" /\ call[c].n < MaxSubmits
    /\ call' = [call EXCEPT ![c] = [n |-> @.n + 1, is |-> state]]
    /\ UNCHANGED up

Open(c) == up /\ Ask(c, "open")

\* Overloaded while the worker is up, Stopped afterwards.
Refuse(c) == Ask(c, "idle")

Answer(c, answer) == call[c].is = "open" /\ Becomes(c, answer) /\ UNCHANGED up

\* The answers of some calls are lost with their senders.
Fail(lost) == call' = [c \in Clients |-> IF c \in lost THEN [call[c] EXCEPT !.is = "stopped"] ELSE call[c]]

OpenCalls == {c \in Clients : call[c].is = "open"}

Lose == \E lost \in SUBSET OpenCalls : Fail(lost) /\ UNCHANGED up

Stop == up /\ up' = FALSE /\ Fail(OpenCalls)

Return(c) == call[c].is \in Answers /\ Becomes(c, "idle") /\ UNCHANGED up

\* The task is dropped, or has lost interest.
Abandon(c) == call[c].is # "idle" /\ Becomes(c, "idle") /\ UNCHANGED up

ServiceNext ==
    \/ \E c \in Clients : Open(c) \/ Refuse(c) \/ Return(c) \/ Abandon(c)
                          \/ Answer(c, "ok") \/ Answer(c, "failed")
    \/ Lose \/ Stop

ServiceSpec == ServiceInit /\ [][ServiceNext]_serviceVars
=============================================================================
