----------------------------- MODULE HttpProcessor -----------------------------
(***************************************************************************)
(* The processors of the socket server (src/processor/): the choice of a   *)
(* backend, and the batches the batcher's worker gives to it.  The CPU     *)
(* processor evaluates the compiled router.  The GPU processor packs a     *)
(* batch back to back into buffers it reuses, runs one invocation of the   *)
(* shader per request, in any order, and maps the output to read it, from  *)
(* the buffers themselves (direct) or from a copy.                         *)
(*                                                                         *)
(* Buffers keep what earlier batches left in them; wgpu is modelled from   *)
(* its use: it may fail to initialise, to be waited for, to map a buffer   *)
(* or to hand out a mapped range; a submission that uses a buffer which is *)
(* mapped, or is being mapped, is fatal, and so is unmapping one that is   *)
(* not mapped.                                                             *)
(***************************************************************************)
EXTENDS HttpShader

CONSTANTS
    Routers,          \* routers to start with
    Batches,          \* batches the worker gives to the processor
    MaxBatches,       \* bound: batches the processor is given
    MaxBatch,         \* limits.max_batch_size
    MaxRequestBytes,  \* limits.max_request_bytes
    SlotBytes         \* limits.response_slot_bytes

ASSUME ProcessorAssumption ==
    /\ MaxBatches \in Nat /\ MaxBatch \in Nat \ {0} /\ SlotBytes \in Nat
    /\ MaxRequestBytes \in 0 .. HashRange - 1   \* a request's length is a u32
    /\ Routers \subseteq RouterDeclaration
    /\ Batches \subseteq Seq(Seq(Byte)) /\ \A requests \in Batches : Len(requests) <= MaxBatch

VARIABLES
    router,    \* the router as declared
    app,       \* ... and compiled
    backend,   \* "none" | "refused" | "cpu" | "gpu"
    direct,    \* direct_output_mapping
    gpu,       \* contents of the GPU's buffers
    mapped,    \* output buffers that are mapped
    abandoned, \* ... whose mapping was requested, and waiting for it given up
    phase,     \* "idle" | "dispatched" | "done" | "dead"
    batch,     \* the requests of the current batch
    todo,      \* invocations that have not run
    result,    \* of process_batch
    left       \* batches still to come (the bound)

vars == <<router, app, backend, direct, gpu, mapped, abandoned, phase, batch, todo, result, left>>

None == [ok |-> FALSE, why |-> "none", responses |-> <<>>]
Ok(responses) == [ok |-> TRUE, why |-> "none", responses |-> responses]
Failed(why) == [ok |-> FALSE, why |-> why, responses |-> <<>>]

Stride == WordsForBytes(app.maxBytes)
ZeroWord == [k \in 1 .. WordBytes |-> 0]
Blank(n) == [i \in 1 .. n |-> ZeroWord]

Init ==
    /\ router \in {r \in Routers : Compiles(r)}
    /\ app = Compile(router)
    /\ backend = "none" /\ direct \in BOOLEAN
    /\ gpu = <<>> /\ mapped = {} /\ abandoned = {}
    /\ phase = "idle" /\ batch = <<>> /\ todo = {} /\ result = None
    /\ left = MaxBatches

\* create_compiled_processor: Auto falls back to the CPU when the GPU cannot
\* be initialised, but not when the responses do not fit the slot.
Create(choice) ==
    /\ backend = "none"
    /\ UNCHANGED <<router, app, direct, mapped, abandoned, phase, batch, todo, result, left>>
    /\ \/ choice = "cpu" /\ backend' = "cpu" /\ UNCHANGED gpu
       \/ choice # "cpu" /\ SlotBytes < app.maxBytes /\ backend' = "refused" /\ UNCHANGED gpu
       \/ /\ choice # "cpu" /\ SlotBytes >= app.maxBytes
          /\ \/ /\ backend' = "gpu"
                /\ gpu' = [input |-> Blank(MaxBatch * WordsForBytes(MaxRequestBytes)),
                           meta |-> <<>>, output |-> Blank(MaxBatch * Stride),
                           responses |-> [i \in 1 .. MaxBatch |-> [len |-> 0, status |-> 0, flags |-> FALSE]]]
             \/ backend' = (IF choice = "auto" THEN "cpu" ELSE "refused") /\ UNCHANGED gpu

CpuBatch(requests) ==
    /\ backend = "cpu" /\ phase = "idle" /\ left > 0
    /\ batch' = requests /\ left' = left - 1
    /\ result' = Ok([i \in DOMAIN requests |-> RouteRequest(app, requests[i], "cpu")])
    /\ phase' = "done"
    /\ UNCHANGED <<router, app, backend, direct, gpu, mapped, abandoned, todo>>

-----------------------------------------------------------------------------
\* pack_request_batch: every request starts on a word of its own.
PackRequests(requests) ==
    LET offset[n \in 0 .. Len(requests)] ==
            IF n = 0 THEN 0 ELSE offset[n - 1] + WordsForBytes(Len(requests[n]))
    IN [meta |-> [i \in DOMAIN requests |-> [len |-> Len(requests[i]), offset |-> offset[i - 1]]],
        words |-> FlattenSeq([i \in DOMAIN requests |-> Pack(requests[i])])]

\* A write to the front of a buffer leaves the rest of it.
Overwritten(buffer, words) == words \o SubSeq(buffer, Len(words) + 1, Len(buffer))

\* process_gpu_batch up to the submission, which wants its buffers unmapped.
GpuBatch(requests) ==
    /\ backend = "gpu" /\ phase = "idle" /\ left > 0
    /\ batch' = requests /\ left' = left - 1
    /\ UNCHANGED <<router, app, backend, direct, mapped, abandoned>>
    /\ \/ /\ requests = <<>>
          /\ result' = Ok(<<>>) /\ phase' = "done" /\ UNCHANGED <<gpu, todo>>
       \/ /\ \E i \in DOMAIN requests : Len(requests[i]) > MaxRequestBytes
          /\ result' = Failed("too_large") /\ phase' = "done" /\ UNCHANGED <<gpu, todo>>
       \/ /\ requests # <<>> /\ \A i \in DOMAIN requests : Len(requests[i]) <= MaxRequestBytes
          /\ mapped = {} /\ abandoned = {}
          /\ LET packed == PackRequests(requests) IN
             gpu' = [gpu EXCEPT !.input = Overwritten(@, packed.words),
                                !.meta = Overwritten(@, packed.meta)]
          /\ phase' = "dispatched" /\ todo' = DOMAIN requests /\ UNCHANGED result

\* What the invocations of the dispatch read.
Bindings ==
    [meta |-> gpu.meta, input |-> gpu.input, assets |-> ShaderAssets(app), words |-> app.words,
     layout |-> app.layout, stride |-> Stride]

Invoke(i) ==
    /\ phase = "dispatched" /\ i \in todo
    /\ LET written == ProcessRequest(Bindings, gpu.output, i) IN
       gpu' = [gpu EXCEPT !.output = written.out, !.responses[i] = written.meta]
    /\ todo' = todo \ {i}
    /\ UNCHANGED <<router, app, backend, direct, mapped, abandoned, phase, batch, result, left>>

-----------------------------------------------------------------------------
\* decode_responses
Decode ==
    LET bytes == FlattenSeq(gpu.output)
        slot == Stride * WordBytes
    IN IF \E i \in DOMAIN batch : gpu.responses[i].flags THEN Failed("shader")
       ELSE IF \E i \in DOMAIN batch : gpu.responses[i].len \notin 1 .. slot THEN Failed("length")
       ELSE Ok([i \in DOMAIN batch |->
                SubSeq(bytes, ((i - 1) * slot) + 1, ((i - 1) * slot) + gpu.responses[i].len)])

\* The buffers whose mapping a batch requests.
Requested == IF direct THEN {"meta", "output"} ELSE {"readback"}

\* The wait for the device fails, or a callback is dropped: process_batch
\* returns at once and unmaps nothing.  What was not refused is mapped, or
\* still to be mapped; an invocation that has not run is of no account, the
\* next submission is refused.
AbandonWait ==
    /\ phase = "dispatched"
    /\ \E kept \in SUBSET Requested :
        /\ todo # {} => kept = Requested
        /\ abandoned' = kept
    /\ result' = Failed("wait") /\ phase' = "done" /\ todo' = {}
    /\ UNCHANGED <<router, app, backend, direct, gpu, mapped, batch, left>>

\* process_batch, having waited, finds these buffers mapped and unmaps those.
Finished(outcome, held, unmapped) ==
    /\ phase = "dispatched" /\ todo = {}
    /\ IF unmapped \subseteq held
       THEN result' = outcome /\ mapped' = held \ unmapped /\ phase' = "done"
       ELSE phase' = "dead" /\ UNCHANGED <<result, mapped>>
    /\ UNCHANGED <<router, app, backend, direct, gpu, abandoned, batch, todo, left>>

ReadResponses == ~direct /\ Finished(Decode, {"readback"}, {"readback"})

\* read_responses: an error of get_mapped_range skips the unmap.
ReadbackFails ==
    /\ ~direct
    /\ \/ Finished(Failed("map"), {}, {})
       \/ Finished(Failed("map"), {"readback"}, {})

\* Mutant: an error of the first buffer returns at once.
DirectReadLeaves(ok) == IF "meta" \notin ok THEN {} ELSE ok

\* read_direct_responses, by branches: what is unmapped when the device has
\* answered both requests and mapped the buffers of ok; both, whether it
\* hands out their ranges or not.
DirectReadUnmaps(ok) ==
    IF "meta" \notin ok THEN ok \cap {"output"}
    ELSE IF "output" \notin ok THEN {"meta"}
    ELSE {"meta", "output"}

DirectRead ==
    /\ direct
    /\ \/ Finished(Decode, Requested, DirectReadUnmaps(Requested))
       \/ \E ok \in SUBSET Requested : Finished(Failed("map"), ok, DirectReadUnmaps(ok))

\* The worker has its answer, the batch is over.
Return ==
    /\ phase = "done"
    /\ phase' = "idle" /\ batch' = <<>> /\ result' = None
    /\ UNCHANGED <<router, app, backend, direct, gpu, mapped, abandoned, todo, left>>

\* wgpu refuses to submit work on a mapped buffer, and its default is to panic.
Die ==
    /\ phase = "idle" /\ mapped \cup abandoned # {} /\ left > 0
    /\ \E requests \in Batches :
        requests # <<>> /\ \A i \in DOMAIN requests : Len(requests[i]) <= MaxRequestBytes
    /\ phase' = "dead"
    /\ UNCHANGED <<router, app, backend, direct, gpu, mapped, abandoned, batch, todo, result, left>>

Next ==
    \/ \E choice \in {"cpu", "gpu", "auto"} : Create(choice)
    \/ \E requests \in Batches : CpuBatch(requests) \/ GpuBatch(requests)
    \/ \E i \in 1 .. MaxBatch : Invoke(i)
    \/ AbandonWait \/ ReadResponses \/ ReadbackFails \/ DirectRead \/ Return \/ Die

Spec == Init /\ [][Next]_vars

-----------------------------------------------------------------------------
TypeOK ==
    /\ router \in Routers /\ backend \in {"none", "refused", "cpu", "gpu"}
    /\ direct \in BOOLEAN /\ mapped \cup abandoned \subseteq {"readback", "meta", "output"}
    /\ phase \in {"idle", "dispatched", "done", "dead"} /\ left \in 0 .. MaxBatches
    /\ batch \in Batches \cup {<<>>} /\ todo \subseteq DOMAIN batch
    /\ backend = "gpu" =>
        /\ Len(gpu.input) = MaxBatch * WordsForBytes(MaxRequestBytes)
        /\ Len(gpu.output) = MaxBatch * Stride
        /\ \A word \in ToSet(gpu.input) \cup ToSet(gpu.output) : word \in [1 .. WordBytes -> 0 .. 255]
        /\ \A i \in 1 .. MaxBatch : gpu.responses[i].len \in 0 .. Stride * WordBytes

\* Shader and CPU read the request line alike: not if it is malformed and of
\* another method, nor with a line feed inside the target.
ReadAlike(request) ==
    LET parts == ParseRequest(request)
        isGet == IsPrefix(Get \o <<SP>>, request)
        Has(i, b) == i \in DOMAIN request /\ request[i] = b
    IN /\ ~isGet /\ parts.kind = "bad" => Len(request) < WordBytes
       /\ isGet => \A i \in WordBytes + 1 .. Len(request) :
            Has(i, SP) => \E j \in WordBytes + 1 .. i - 1 : Has(j, SP)
                           \/ \A k \in WordBytes + 1 .. i - 1 : ~Has(k, LF)

\* No text of the body is the reserved end of the header, in whose place the
\* shader writes the one that is sent.
Unreserved(r) == \A k \in DOMAIN Body(r.calls) : Body(r.calls)[k].gpu # TailReserved

AnsweredAlike(request) == ReadAlike(request) /\ Unreserved(Declared(router, ParseRequest(request)))

\* "CPU and GPU application processors consuming the same compiled router":
\* whatever batches came before, every request is answered as its route, or
\* the right one of the other responses, is declared.
AnswersAsDeclared ==
    phase = "done" /\ result.ok =>
        /\ Len(result.responses) = Len(batch)
        /\ \A i \in DOMAIN batch :
            backend = "cpu" \/ AnsweredAlike(batch[i]) =>
                result.responses[i] = Promised(router, batch[i], backend)

\* The Content-Length a client reads is the length of the body that follows,
\* also for malformed requests: a wrong one would put the client out of step
\* on a persistent connection.
Framed(response) ==
    LET At(text, i) == /\ i + Len(text) - 1 <= Len(response)
                       /\ SubSeq(response, i, i + Len(text) - 1) = text
        digits == Min({i \in DOMAIN response : At(ContentLengthHeader, i)}) + Len(ContentLengthHeader)
        tail == Min({i \in digits .. Len(response) : response[i] = CR})
        body == tail + Len(TailSent(backend))
    IN /\ At(TailSent(backend), tail)
       /\ SubSeq(response, digits, tail - 1) = Digits[Len(response) - body + 1]

ContentLengthHolds ==
    phase = "done" /\ result.ok => \A i \in DOMAIN batch : Framed(result.responses[i])

\* The slot the compiler computes is large enough: no request makes the
\* shader overflow, so a batch fails only for a request beyond the limit or
\* an error of the device.
SlotSuffices == result.why \notin {"shader", "length"}

\* A refused mapping, a range that is not handed out, an oversized request or
\* an empty batch never costs a processor that maps its output directly more
\* than the batch: over any number of batches it is stopped by wgpu only once
\* a batch has given up waiting for the device and left its mappings open.
DiesOnlyAbandoned == direct /\ phase = "dead" => abandoned # {}
=============================================================================
