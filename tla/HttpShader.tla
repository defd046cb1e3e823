------------------------------ MODULE HttpShader ------------------------------
(***************************************************************************)
(* The HTTP shader (src/processor/http.wgsl): one invocation reads one     *)
(* request from the packed input, looks up its route in the router program *)
(* and writes the response, word by word, into its slot of the output.     *)
(*                                                                         *)
(* Words are sequences of WordBytes bytes, so that a shift and an or of    *)
(* words is a cut and a concatenation.  A buffer is a sequence of words;   *)
(* addresses and byte indices count from 0, as in the shader.  An access   *)
(* outside a buffer has no value here: TLC would report it.                *)
(***************************************************************************)
EXTENDS Router

CONSTANT WordBytes   \* 4

ASSUME ShaderAssumption == WordBytes \in Nat \ {0}

\* The method and the space after it fill a word.
ASSUME MethodAssumption == WordBytes = Len(Get) + 1

WordsForBytes(n) == (n + WordBytes - 1) \div WordBytes

\* Bytes packed into words, the last one filled with zeros.
Pack(bytes) ==
    [i \in 1 .. WordsForBytes(Len(bytes)) |-> [k \in 1 .. WordBytes |->
        LET at == (i - 1) * WordBytes + k IN IF at <= Len(bytes) THEN bytes[at] ELSE 0]]

ByteAt(words, index) == words[(index \div WordBytes) + 1][(index % WordBytes) + 1]

\* The word that starts at any byte: the ends of two adjacent words, joined.
WordAt(words, index) == [k \in 1 .. WordBytes |-> ByteAt(words, index + k - 1)]

-----------------------------------------------------------------------------
\* build_shader_assets: all strings back to back, the reserved end of the
\* header replaced by the one that is sent.
ShaderAssets(app) ==
    LET text == [i \in DOMAIN app.strings |->
                    IF i = Id(app.strings, TailReserved) THEN TailSent("gpu") ELSE app.strings[i]]
        offset[n \in 0 .. Len(text)] == IF n = 0 THEN 0 ELSE offset[n - 1] + Len(text[n])
    IN [meta |-> [i \in DOMAIN text |-> [offset |-> offset[i - 1], len |-> Len(text[i])]],
        arena |-> Pack(FlattenSeq(text)),
        httpVersion |-> Id(app.strings, HttpVersion),
        contentType |-> Id(app.strings, ContentTypeHeader),
        contentLength |-> Id(app.strings, ContentLengthHeader),
        tail |-> Id(app.strings, TailReserved),
        backend |-> Id(app.strings, Name("gpu"))]

-----------------------------------------------------------------------------
(***************************************************************************)
(* The writer of a response: out is the output buffer, first the address   *)
(* of its slot of stride words, pending the bytes of the word that is not  *)
(* full yet.                                                               *)
(***************************************************************************)
WriterNew(out, first, stride) ==
    [out |-> out, first |-> first, stride |-> stride, cursor |-> 0, pending |-> <<>>, failed |-> FALSE]

\* writer_push_byte, writer_push_word: one byte, or a word of them.
Push(w, bytes) ==
    IF w.failed THEN w
    ELSE IF w.stride * WordBytes - w.cursor < Len(bytes) THEN [w EXCEPT !.failed = TRUE]
    ELSE LET all == w.pending \o bytes IN
         IF Len(all) < WordBytes THEN [w EXCEPT !.cursor = @ + Len(bytes), !.pending = all]
         ELSE [w EXCEPT !.cursor = @ + Len(bytes),
                        !.pending = SubSeq(all, WordBytes + 1, Len(all)),
                        !.out[w.first + (w.cursor \div WordBytes) + 1] = SubSeq(all, 1, WordBytes)]

PushAll(w, pushes) == FoldLeft(Push, w, pushes)

\* What is pushed for a range of packed bytes: whole words while WordBytes
\* remain, then bytes.
RangePushes(words, start, len) ==
    LET whole == len \div WordBytes IN
    [k \in 1 .. whole |-> WordAt(words, start + (k - 1) * WordBytes)]
    \o [k \in 1 .. len - whole * WordBytes |-> <<ByteAt(words, start + whole * WordBytes + k - 1)>>]

StringPushes(assets, id) ==
    RangePushes(assets.arena, assets.meta[id].offset, assets.meta[id].len)

\* The number of digits: the value is divided until one is left.
DecimalWidth[value \in Nat] == IF value < 10 THEN 1 ELSE DecimalWidth[value \div 10] + 1

DecimalPushes(value) == [k \in DOMAIN Digits[value] |-> <<Digits[value][k]>>]

\* writer_finish: the last word is filled with zeros.
Finish(w, status) ==
    IF w.failed THEN [out |-> w.out, meta |-> [len |-> 0, status |-> 500, flags |-> TRUE]]
    ELSE [out |-> IF w.pending = <<>> THEN w.out
                  ELSE [w.out EXCEPT ![w.first + (w.cursor \div WordBytes) + 1] = Pack(w.pending)[1]],
          meta |-> [len |-> w.cursor, status |-> status, flags |-> FALSE]]

-----------------------------------------------------------------------------
\* g is what the bindings of a dispatch hold: request metadata and input,
\* string assets, router program, layout and strides.
Target(pathLen, queryStart, queryLen, hash, inputLen, valid) ==
    [pathStart |-> WordBytes, pathLen |-> pathLen, queryStart |-> queryStart,
     queryLen |-> queryLen, hash |-> hash, inputLen |-> inputLen, valid |-> valid]

InvalidTarget(inputLen) == Target(0, 0, 0, 0, inputLen, FALSE)

RequestByte(g, i, index) == ByteAt(g.input, g.meta[i].offset * WordBytes + index)

\* The first word is that of the method.
IsGetRequest(g, i) == WordAt(g.input, g.meta[i].offset * WordBytes) = Get \o <<SP>>

HasSupportedHttpVersion(g, i, start, inputLen) ==
    /\ start + 1 < inputLen
    /\ <<RequestByte(g, i, start)>> \in Versions
    /\ \/ RequestByte(g, i, start + 1) = LF
       \/ /\ RequestByte(g, i, start + 1) = CR
          /\ start + 2 < inputLen
          /\ RequestByte(g, i, start + 2) = LF

\* parse_get_target: the target ends at the first space, its path at the
\* first question mark in it.
ParseGetTarget(g, i, inputLen) ==
    LET ends == {c \in WordBytes .. inputLen - 1 : RequestByte(g, i, c) = SP}
        end == Min(ends)
        marks == {c \in WordBytes .. end - 1 : RequestByte(g, i, c) = Question}
        pathEnd == IF marks = {} THEN end ELSE Min(marks)
        hash == Hash([k \in 1 .. pathEnd - WordBytes |-> RequestByte(g, i, WordBytes + k - 1)])
    IN IF \/ inputLen <= WordBytes \/ RequestByte(g, i, WordBytes) # Slash
          \/ ends = {} \/ pathEnd = WordBytes
          \/ ~HasSupportedHttpVersion(g, i, end + 1, inputLen)
       THEN InvalidTarget(inputLen)
       ELSE Target(pathEnd - WordBytes, IF marks = {} THEN end ELSE pathEnd + 1,
                   IF marks = {} THEN 0 ELSE end - pathEnd - 1, hash, inputLen, TRUE)

-----------------------------------------------------------------------------
ProgramWord(g, address) == g.words[address + 1]
RouteWord(g, route, field) == ProgramWord(g, route * RouteStride + field)
BodyOp(g, response, operation, field) ==
    ProgramWord(g, ProgramWord(g, response + 3) + (operation - 1) * BodyOpWords + field)

\* Hash and length first, then every byte of the path.
RouteMatches(g, i, target, route) ==
    LET id == RouteWord(g, route, 2) IN
    /\ RouteWord(g, route, 0) = target.hash
    /\ RouteWord(g, route, 1) = target.pathLen
    /\ \A k \in 0 .. target.pathLen - 1 :
        RequestByte(g, i, target.pathStart + k)
            = ByteAt(g.assets.arena, g.assets.meta[id].offset + k)

\* Binary search for the first route of the hash, then all with that hash.
FindResponseOffset(g, i, target) ==
    LET n == g.layout.routeCount
        lower[range \in (0 .. n) \X (0 .. n)] ==
            LET lo == range[1]
                hi == range[2]
                middle == lo + ((hi - lo) \div 2)
            IN IF lo >= hi THEN lo
               ELSE IF RouteWord(g, middle, 0) < target.hash THEN lower[<<middle + 1, hi>>]
               ELSE lower[<<lo, middle>>]
        first == lower[<<0, n>>]
        found == {r \in first .. n - 1 : /\ \A q \in first .. r : RouteWord(g, q, 0) = target.hash
                                        /\ RouteMatches(g, i, target, r)}
    IN IF found = {} THEN g.layout.fallback ELSE RouteWord(g, Min(found), 3)

Operations(g, response) == 1 .. ProgramWord(g, response + 4)

\* Mutant: the limit of the path is forgotten.
OperationLenUnbounded(g, response, target, k) == target.pathLen

\* What one operation adds to the length of the body ...
OperationLen(g, response, target, k) ==
    LET op == BodyOp(g, response, k, 0)
        arg0 == BodyOp(g, response, k, 1)
        arg1 == BodyOp(g, response, k, 2)
    IN CASE op = "literal" -> g.assets.meta[arg0].len
         [] op = "path" -> Min({target.pathLen, arg0})
         [] op = "query" -> Min({target.queryLen, arg0})
         [] op = "backend" -> g.assets.meta[g.assets.backend].len
         [] op = "request_bytes" -> DecimalWidth[target.inputLen]
         [] op = "path_hash" -> DecimalWidth[target.hash]
         [] op = "variant" -> g.assets.meta[arg1].len

ResponseBodyLen(g, response, target) ==
    FoldLeft(+, 0, [k \in Operations(g, response) |-> OperationLen(g, response, target, k)])

\* ... and what it writes.
OperationPushes(g, i, response, target, k) ==
    LET op == BodyOp(g, response, k, 0)
        arg0 == BodyOp(g, response, k, 1)
        arg1 == BodyOp(g, response, k, 2)
        base == g.meta[i].offset * WordBytes
    IN CASE op = "literal" -> StringPushes(g.assets, arg0)
         [] op = "path" -> RangePushes(g.input, base + target.pathStart, Min({target.pathLen, arg0}))
         [] op = "query" -> RangePushes(g.input, base + target.queryStart, Min({target.queryLen, arg0}))
         [] op = "backend" -> StringPushes(g.assets, g.assets.backend)
         [] op = "request_bytes" -> DecimalPushes(target.inputLen)
         [] op = "path_hash" -> DecimalPushes(target.hash)
         [] op = "variant" -> StringPushes(g.assets, arg1)

\* All that is pushed for a response, in order.
ResponsePushes(g, i, response, target) ==
    LET Text(id) == StringPushes(g.assets, id) IN
    Text(g.assets.httpVersion) \o DecimalPushes(ProgramWord(g, response))
    \o << <<SP>> >> \o Text(ProgramWord(g, response + 1))
    \o Text(g.assets.contentType) \o Text(ProgramWord(g, response + 2))
    \o Text(g.assets.contentLength) \o DecimalPushes(ResponseBodyLen(g, response, target))
    \o Text(g.assets.tail)
    \o FlattenSeq([k \in Operations(g, response) |-> OperationPushes(g, i, response, target, k)])

WriteResponse(g, out, i, response, target) ==
    Finish(PushAll(WriterNew(out, (i - 1) * g.stride, g.stride), ResponsePushes(g, i, response, target)),
           ProgramWord(g, response))

\* process_requests for invocation i: the new output and response metadata.
ProcessRequest(g, out, i) ==
    LET len == g.meta[i].len
        target == IF len < WordBytes \/ ~IsGetRequest(g, i)
                  THEN InvalidTarget(len) ELSE ParseGetTarget(g, i, len)
        response == IF len < WordBytes THEN g.layout.bad
                    ELSE IF ~IsGetRequest(g, i) THEN g.layout.notAllowed
                    ELSE IF ~target.valid THEN g.layout.bad
                    ELSE FindResponseOffset(g, i, target)
    IN WriteResponse(g, out, i, response, target)
=============================================================================
