-------------------------------- MODULE Router --------------------------------
(***************************************************************************)
(* The router (src/router.rs): responses built from segments, compiled to  *)
(* a table of strings, sorted routes and bytecode for the shader, and      *)
(* evaluated directly by the CPU processor.                                *)
(*                                                                         *)
(* Strings are sequences of bytes.  The fixed strings of HTTP stand for    *)
(* themselves with one byte or two each: the method GET, the versions and  *)
(* the names of the headers are never looked into, only counted, copied    *)
(* and compared.                                                           *)
(***************************************************************************)
EXTENDS Integers, Sequences, FiniteSets, SequencesExt, FiniteSetsExt

CONSTANTS
    HashBase, HashPrime,   \* FNV-1a
    HashRange              \* 2^32

ASSUME RouterAssumption ==
    HashRange \in Nat \ {0} /\ HashBase \in Nat /\ HashPrime \in Nat

LF == 10
CR == 13
SP == 32
HashMark == 35
Slash == 47
Zero == 48
Question == 63
Get == <<71>>
Versions == {<<86>>, <<87>>}
HttpVersion == <<86, SP>>
\* The names of headers start with the end of the line before them.
ContentTypeHeader == <<CR, 84>>
ContentLengthHeader == <<CR, 76>>
Name(backend) == IF backend = "gpu" THEN <<103>> ELSE <<99>>
\* The end of the header, as the compiler counts it and as it is sent.
TailReserved == <<CR, 75>> \o Name("gpu")
TailSent(backend) == <<CR>> \o Name(backend)

\* The decimal representation of a number.
Digits[n \in Nat] ==
    IF n < 10 THEN <<Zero + n>> ELSE Append(Digits[n \div 10], Zero + (n % 10))

\* Room for a 32-bit number.
MaxDigits == Len(Digits[HashRange - 1])

-----------------------------------------------------------------------------
Byte == 0 .. 255

\* The segments of a body, which are also the calls that build it.
Segment(op, n, cpu, gpu) == [op |-> op, n |-> n, cpu |-> cpu, gpu |-> gpu]
Literal(s) == Segment("literal", 0, s, s)
PathPart(max) == Segment("path", max, <<>>, <<>>)
QueryPart(max) == Segment("query", max, <<>>, <<>>)
Backend == Segment("backend", 0, <<>>, <<>>)
RequestBytes == Segment("request_bytes", 0, <<>>, <<>>)
PathHash == Segment("path_hash", 0, <<>>, <<>>)
BackendVariant(cpu, gpu) == Segment("variant", 0, cpu, gpu)

\* Adjacent literals are merged, segments without effect left out.
AddLiteral(body, s) ==
    IF s = <<>> THEN body
    ELSE IF body # <<>> /\ Last(body).op = "literal"
         THEN Append(Front(body), Literal(Last(body).cpu \o s))
         ELSE Append(body, Literal(s))

Add(body, call) ==
    CASE call.op = "literal" -> AddLiteral(body, call.cpu)
      [] call.op = "variant" /\ call.cpu = call.gpu -> AddLiteral(body, call.cpu)
      [] call.op \in {"path", "query"} /\ call.n = 0 -> body
      [] OTHER -> Append(body, call)

Body(calls) == FoldLeft(Add, <<>>, calls)

Response(status, reason, contentType, calls) ==
    [status |-> status, reason |-> reason, contentType |-> contentType, calls |-> calls]

\* What can be declared.
Call == {c \in [op : {"literal", "path", "query", "backend", "request_bytes", "path_hash", "variant"},
                n : Nat, cpu : Seq(Byte), gpu : Seq(Byte)] : c.op = "literal" => c.gpu = c.cpu}
ResponseDeclaration ==
    [status : Nat, reason : Seq(Byte), contentType : Seq(Byte), calls : Seq(Call)]
RouterDeclaration ==
    [routes : Seq([path : Seq(Byte), response : ResponseDeclaration]),
     fallback : ResponseDeclaration, bad : ResponseDeclaration, notAllowed : ResponseDeclaration]

-----------------------------------------------------------------------------
\* fnv1a; a sum stands for its exclusive or.
Hash(s) == FoldLeft(LAMBDA h, b : ((h + b) * HashPrime) % HashRange, HashBase, s)

Printable(s) == \A i \in DOMAIN s : s[i] \in 32 .. 126

\* Bytes beyond ASCII are those of UTF-8 text, of which only bytes matter.
ValidPath(path) ==
    /\ path # <<>> /\ Head(path) = Slash
    /\ ToSet(path) \cap ((0 .. 31) \cup {127, SP, Question, HashMark}) = {}

ValidResponse(r) ==
    /\ r.status \in 100 .. 999
    /\ r.reason # <<>> /\ Printable(r.reason)
    /\ r.contentType # <<>> /\ Printable(r.contentType)

\* RouterCompiler::compile accepts the router.
Compiles(router) ==
    /\ \A i \in DOMAIN router.routes :
        /\ ValidPath(router.routes[i].path) /\ ValidResponse(router.routes[i].response)
        /\ \A j \in 1 .. i - 1 : router.routes[j].path # router.routes[i].path
    /\ \A r \in {router.fallback, router.bad, router.notAllowed} : ValidResponse(r)

\* StringTable::intern; ids are positions.
Intern(strings, s) == IF Contains(strings, s) THEN strings ELSE Append(strings, s)
Id(strings, s) == SelectInSeq(strings, LAMBDA t : t = s)

\* Mutant: the query counts for nothing.
MaxSegmentNoQuery(seg) == IF seg.op = "query" THEN 0 ELSE Len(seg.gpu) + seg.n

\* What a segment adds to the longest body of the GPU.
MaxSegment(seg) ==
    CASE seg.op \in {"literal", "variant"} -> Len(seg.gpu)
      [] seg.op \in {"path", "query"} -> seg.n
      [] seg.op = "backend" -> Len(Name("gpu"))
      [] seg.op \in {"request_bytes", "path_hash"} -> MaxDigits

StringsOf(r) ==
    LET body == Body(r.calls)
        Texts(seg) == IF seg.op \in {"literal", "variant"} THEN <<seg.cpu, seg.gpu>> ELSE <<>>
    IN <<r.reason, r.contentType>> \o FlattenSeq([i \in DOMAIN body |-> Texts(body[i])])

CompileResponse(strings, r) ==
    LET body == Body(r.calls) IN
    [status |-> r.status,
     reason |-> Id(strings, r.reason), contentType |-> Id(strings, r.contentType),
     segments |-> [i \in DOMAIN body |->
        [body[i] EXCEPT !.cpu = Id(strings, @), !.gpu = Id(strings, @)]],
     maxBody |-> FoldLeft(+, 0, [i \in DOMAIN body |-> MaxSegment(body[i])])]

MaximumResponseBytes(strings, r) ==
    Len(HttpVersion) + Len(Digits[r.status]) + 1 + Len(strings[r.reason])
    + Len(ContentTypeHeader) + Len(strings[r.contentType])
    + Len(ContentLengthHeader) + Len(Digits[r.maxBody]) + Len(TailReserved) + r.maxBody

-----------------------------------------------------------------------------
\* The words of the router program; addresses count from 0.
RouteStride == 4
DescriptorWords == 5
BodyOpWords == 3

\* A body operation: its code, and one or two arguments.
Operation(seg) ==
    CASE seg.op = "literal" -> <<"literal", seg.cpu, 0>>
      [] seg.op \in {"path", "query"} -> <<seg.op, seg.n, 0>>
      [] seg.op = "variant" -> <<"variant", seg.cpu, seg.gpu>>
      [] OTHER -> <<seg.op, 0, 0>>

EmitResponse(words, r) ==
    words \o <<r.status, r.reason, r.contentType, Len(words) + DescriptorWords, Len(r.segments)>>
          \o FlattenSeq([i \in DOMAIN r.segments |-> Operation(r.segments[i])])

\* The order of byte strings.
Lexicographic(s, t) ==
    \/ IsStrictPrefix(s, t)
    \/ \E i \in DOMAIN s \cap DOMAIN t : s[i] < t[i] /\ \A j \in 1 .. i - 1 : s[j] = t[j]

\* Mutant: sorted by path, whatever the hash.
BeforeByPath(a, b) == Lexicographic(a.path, b.path)

\* Routes are sorted by hash, then by path.
Before(a, b) == a.hash < b.hash \/ (a.hash = b.hash /\ Lexicographic(a.path, b.path))

\* The elements of a set in this order: each has its predecessors in front.
Sorted(S) ==
    [k \in 1 .. Cardinality(S) |-> CHOOSE r \in S : Cardinality({q \in S : Before(q, r)}) = k - 1]

Responses(router) ==
    [i \in DOMAIN router.routes |-> router.routes[i].response]
    \o <<router.fallback, router.bad, router.notAllowed>>

\* All strings that are interned; their order decides the ids only.
Strings(router) ==
    LET responses == Responses(router) IN
    <<HttpVersion, ContentTypeHeader, ContentLengthHeader, TailReserved, Name("gpu")>>
    \o FlattenSeq([i \in DOMAIN responses |-> StringsOf(responses[i])])
    \o [i \in DOMAIN router.routes |-> router.routes[i].path]

StringTable(router) == FoldLeft(Intern, <<>>, Strings(router))

CompileRoute(strings, route) ==
    [path |-> route.path, hash |-> Hash(route.path),
     response |-> CompileResponse(strings, route.response)]

\* The program after the first i responses, behind a blank table of n routes.
Emitted(n, responses) ==
    LET emitted[i \in 0 .. Len(responses)] ==
            IF i = 0 THEN [a \in 1 .. n * RouteStride |-> 0]
            ELSE EmitResponse(emitted[i - 1], responses[i])
    IN emitted

\* RouterCompiler::compile
Compile(router) ==
    LET strings == StringTable(router)
        n == Len(router.routes)
        routes == Sorted({CompileRoute(strings, router.routes[i]) : i \in 1 .. n})
        responses == [i \in 1 .. n |-> routes[i].response]
                     \o <<CompileResponse(strings, router.fallback),
                          CompileResponse(strings, router.bad),
                          CompileResponse(strings, router.notAllowed)>>
        emitted == Emitted(n, responses)
        offset == [i \in DOMAIN responses |-> Len(emitted[i - 1])]
        words == emitted[Len(responses)]
        table == FlattenSeq([i \in 1 .. n |->
                    <<routes[i].hash, Len(routes[i].path), Id(strings, routes[i].path), offset[i]>>])
    IN [routes |-> routes, strings |-> strings,
        fallback |-> responses[n + 1], bad |-> responses[n + 2], notAllowed |-> responses[n + 3],
        words |-> table \o SubSeq(words, Len(table) + 1, Len(words)),
        layout |-> [routeCount |-> n, fallback |-> offset[n + 1], bad |-> offset[n + 2],
                    notAllowed |-> offset[n + 3]],
        maxBytes |-> Max({MaximumResponseBytes(strings, responses[i]) : i \in DOMAIN responses})]

-----------------------------------------------------------------------------
\* parse_request
Parts(kind, path, query, hash) == [kind |-> kind, path |-> path, query |-> query, hash |-> hash]

ParseRequest(request) ==
    LET end == SelectInSeq(request, LAMBDA b : b = LF)
        raw == SubSeq(request, 1, end - 1)
        line == IF raw # <<>> /\ Last(raw) = CR THEN Front(raw) ELSE raw
        spaces == {i \in DOMAIN line : line[i] = SP}
        first == Min(spaces)
        second == Max(spaces)
        target == SubSeq(line, first + 1, second - 1)
        mark == SelectInSeq(target, LAMBDA b : b = Question)
        path == IF mark = 0 THEN target ELSE SubSeq(target, 1, mark - 1)
        query == IF mark = 0 THEN <<>> ELSE SubSeq(target, mark + 1, Len(target))
    IN IF end = 0 \/ Cardinality(spaces) # 2 THEN Parts("bad", <<>>, <<>>, 0)
       ELSE IF SubSeq(line, 1, first - 1) # Get THEN Parts("not_allowed", <<>>, <<>>, 0)
       ELSE IF \/ SubSeq(line, second + 1, Len(line)) \notin Versions
               \/ target = <<>> \/ Head(target) # Slash \/ path = <<>>
            THEN Parts("bad", <<>>, <<>>, 0)
       ELSE Parts("get", path, query, Hash(path))

\* The route by partition_point, take_while, find.
FindRoute(app, parts) ==
    LET n == Len(app.routes)
        first == 1 + Cardinality({i \in 1 .. n : app.routes[i].hash < parts.hash})
        found == {i \in first .. n : /\ \A j \in first .. i : app.routes[j].hash = parts.hash
                                     /\ app.routes[i].path = parts.path}
    IN IF found = {} THEN app.fallback ELSE app.routes[Min(found)].response

AtMost(s, n) == SubSeq(s, 1, Min({Len(s), n}))

\* What a segment says; text is the string of the segment for the backend.
Said(seg, text, parts, requestLen, backend) ==
    CASE seg.op \in {"literal", "variant"} -> text
      [] seg.op = "path" -> AtMost(parts.path, seg.n)
      [] seg.op = "query" -> AtMost(parts.query, seg.n)
      [] seg.op = "backend" -> Name(backend)
      [] seg.op = "request_bytes" -> Digits[requestLen]
      [] seg.op = "path_hash" -> Digits[parts.hash]

\* protocol::build_response
BuildResponse(status, reason, contentType, body, backend) ==
    HttpVersion \o Digits[status] \o <<SP>> \o reason
    \o ContentTypeHeader \o contentType
    \o ContentLengthHeader \o Digits[Len(body)] \o TailSent(backend) \o body

RenderResponse(app, r, parts, requestLen, backend) ==
    LET Text(seg) == IF seg.op \in {"literal", "variant"}
                     THEN app.strings[IF backend = "gpu" THEN seg.gpu ELSE seg.cpu] ELSE <<>>
        body == FlattenSeq([i \in DOMAIN r.segments |->
                    Said(r.segments[i], Text(r.segments[i]), parts, requestLen, backend)])
    IN BuildResponse(r.status, app.strings[r.reason], app.strings[r.contentType], body, backend)

\* CompiledRouter::route_request
RouteRequest(app, request, backend) ==
    LET parts == ParseRequest(request)
        r == CASE parts.kind = "get" -> FindRoute(app, parts)
               [] parts.kind = "bad" -> app.bad
               [] parts.kind = "not_allowed" -> app.notAllowed
    IN RenderResponse(app, r, parts, Len(request), backend)

-----------------------------------------------------------------------------
(***************************************************************************)
(* What a router promises, from its declaration alone: the response of the *)
(* route with the path of the request, its calls spoken one by one.  No    *)
(* folding, string table, hash or order of routes enters.                  *)
(***************************************************************************)
Declared(router, parts) ==
    LET here == {i \in DOMAIN router.routes : router.routes[i].path = parts.path} IN
    CASE parts.kind = "bad" -> router.bad
      [] parts.kind = "not_allowed" -> router.notAllowed
      [] parts.kind = "get" -> IF here = {} THEN router.fallback
                               ELSE router.routes[CHOOSE i \in here : TRUE].response

Promised(router, request, backend) ==
    LET parts == ParseRequest(request)
        r == Declared(router, parts)
        Text(call) == IF backend = "gpu" THEN call.gpu ELSE call.cpu
    IN BuildResponse(r.status, r.reason, r.contentType,
                     FlattenSeq([i \in DOMAIN r.calls |->
                        Said(r.calls[i], Text(r.calls[i]), parts, Len(request), backend)]),
                     backend)
=============================================================================
