----------------------------- MODULE PacketShader -----------------------------
(***************************************************************************)
(* The packet shader's reading and writing of bytes                        *)
(* (src/packet/packet.wgsl), with the packing of a wave, the generated     *)
(* response tables and the decoding of its output (src/packet/mod.rs).     *)
(* What the TCP state machine does between reading and writing is          *)
(* GpuFlow's matter.                                                       *)
(*                                                                         *)
(* A word is the sequence of its four bytes in memory order, so that the   *)
(* shader's byte swaps are the order in which they are read.  Words and    *)
(* offsets count from 0; an access outside a buffer has no value.          *)
(***************************************************************************)
EXTENDS Wire

CONSTANT ListenPort   \* config.listen_port

WordsFor(len) == (len + 3) \div 4

\* pack_bytes, pack_wave_bytes: the rest of the last word is zero.
PackBytes(bytes) ==
    [w \in 1 .. WordsFor(Len(bytes)) |-> [k \in 1 .. 4 |->
        LET at == 4 * (w - 1) + k IN IF at <= Len(bytes) THEN bytes[at] ELSE 0]]

\* The word offset of each of some byte strings packed one after the other.
Offsets(strings) ==
    LET before[i \in 1 .. Len(strings) + 1] ==
            IF i = 1 THEN 0 ELSE before[i - 1] + WordsFor(Len(strings[i - 1]))
    IN [i \in DOMAIN strings |-> before[i]]

Packed(strings) == FlattenSeq([i \in DOMAIN strings |-> PackBytes(strings[i])])

\* prepare_wave_metadata
WaveMetadata(packets) ==
    [i \in DOMAIN packets |-> [len |-> Len(packets[i]), base |-> Offsets(packets)[i]]]

ReadByte(input, base, offset) == input[base + (offset \div 4) + 1][(offset % 4) + 1]

ReadU16(input, base, offset) ==
    LET word == input[base + (offset \div 4) + 1]
        half == ((offset \div 2) % 2) * 2
    IN (word[half + 1] * 256) + word[half + 2]

ReadU32(input, base, offset) ==
    LET word == input[base + (offset \div 4) + 1]
    IN <<(word[1] * 256) + word[2], (word[3] * 256) + word[4]>>

-----------------------------------------------------------------------------
INVALID == -1   \* INVALID_INDEX

\* The payload is its bytes, numbered from 0.
FirstIn(indices) == IF indices = {} THEN INVALID ELSE Min(indices)

\* Mutant: a line feed ends the line.
FindLf(chars) == FirstIn({i \in DOMAIN chars : chars[i] = LF})

FindCrlf(chars) ==
    FirstIn({i \in DOMAIN chars : i + 1 \in DOMAIN chars /\ chars[i] = CR /\ chars[i + 1] = LF})

FindSpace(chars, start, end) == FirstIn({i \in start .. end - 1 : chars[i] = SP})

\* method_is_get, version_is_supported, path_is_plaintext, path_is_health: the
\* length first, then byte by byte.
Equals(chars, start, len, expected) ==
    len = Len(expected) /\ \A i \in 0 .. len - 1 : chars[start + i] = expected[i + 1]

\* The shader's classify_http_request
ShaderClassify(chars) ==
    LET end == FindCrlf(chars)
        first == FindSpace(chars, 0, end)
        second == FindSpace(chars, first + 1, end)
        path == first + 1
        mark == FirstIn({i \in path .. second - 1 : chars[i] = Question})
        pathLen == (IF mark = INVALID THEN second ELSE mark) - path
    IN IF \/ end = INVALID \/ first = INVALID
          \/ second = INVALID \/ second = path
          \/ \A v \in Versions : ~Equals(chars, second + 1, end - second - 1, v)
       THEN BAD_REQUEST
       ELSE IF ~Equals(chars, 0, first, Get) THEN METHOD_NOT_ALLOWED
       ELSE IF Equals(chars, path, pathLen, PlaintextPath) THEN PLAINTEXT
       ELSE IF Equals(chars, path, pathLen, HealthPath) THEN HEALTH
       ELSE NOT_FOUND

\* A packet the engine serves, and the class of its request.
NotServed == [view |-> NoView, response |-> NoResponse]

\* main up to the search for the flow.
ShaderReads(input, meta) ==
    LET At(offset) == ReadByte(input, meta.base, offset)
        tcp == (At(0) % 16) * 4
        total == ReadU16(input, meta.base, 2)
        offset == (At(tcp + 12) \div 16) * 4
        start == tcp + offset
        chars == [i \in 0 .. total - start - 1 |-> At(start + i)]
        view == [ok |-> TRUE,
                 key |-> [src |-> ReadU32(input, meta.base, 12), dst |-> ReadU32(input, meta.base, 16),
                          sport |-> ReadU16(input, meta.base, tcp),
                          dport |-> ReadU16(input, meta.base, tcp + 2)],
                 seq |-> ReadU32(input, meta.base, tcp + 4), ack |-> ReadU32(input, meta.base, tcp + 8),
                 flags |-> At(tcp + 13),
                 payload |-> [i \in 1 .. total - start |-> chars[i - 1]]]
    IN IF \/ meta.len < 40
          \/ At(0) \div 16 # 4 \/ At(9) # 6
          \/ tcp < 20 \/ tcp + 20 > meta.len
          \/ ReadU16(input, meta.base, 6) % 16384 # 0
          \/ total > meta.len \/ total < tcp + 20
          \/ offset < 20 \/ start > total
          \/ view.key.dport # ListenPort
       THEN NotServed
       ELSE [view |-> view,
             response |-> IF total = start THEN NoResponse ELSE ShaderClassify(chars)]

-----------------------------------------------------------------------------
\* packet_shader_source: the responses packed, and their precomputed sums.
ResponseTable ==
    [words |-> Packed(Responses), offsets |-> Offsets(Responses),
     counts |-> [i \in DOMAIN Responses |-> WordsFor(Len(Responses[i]))],
     lengths |-> [i \in DOMAIN Responses |-> Len(Responses[i])],
     sums |-> [i \in DOMAIN Responses |-> Sum16(Responses[i])]]

\* max_response_packet_bytes, output_stride_words
Stride == WordsFor(40 + Max({Len(Responses[i]) : i \in DOMAIN Responses}))

Sum32(value) == value[1] + value[2]

ShaderIpChecksum(len, key) ==
    ChecksumFold(17664 + len + 16384 + 16390 + Sum32(key.src) + Sum32(key.dst))

ShaderTcpChecksum(reply, len) ==
    LET key == reply.key IN
    ChecksumFold(Sum32(key.src) + Sum32(key.dst) + 6 + (len - 20) + key.sport + key.dport
                 + Sum32(reply.seq) + Sum32(reply.ack) + 20480 + reply.flags + 65535
                 + (IF reply.response < Len(Responses) THEN ResponseTable.sums[reply.response + 1] ELSE 0))

\* words written at a place of the output; a 16-bit store keeps the other half.
WriteWords(output, base, words) ==
    [w \in DOMAIN output |-> IF w - base \in DOMAIN words THEN words[w - base] ELSE output[w]]

WriteU16(output, base, offset, value) ==
    LET half == ((offset \div 2) % 2) * 2 IN
    [output EXCEPT ![base + (offset \div 4) + 1] =
        [@ EXCEPT ![half + 1] = value \div 256, ![half + 2] = value % 256]]

\* write_http_response: whole words.
WriteHttpResponse(output, base, id) ==
    WriteWords(output, base + 10,
               SubSeq(ResponseTable.words, ResponseTable.offsets[id + 1] + 1,
                      ResponseTable.offsets[id + 1] + ResponseTable.counts[id + 1]))

\* emit_packet, into the slot of the packet with this index: the headers
\* without checksums, the payload, the checksums.
EmitPacket(output, index, reply) ==
    LET base == (index - 1) * Stride
        len == 40 + (IF reply.response < Len(Responses) THEN ResponseTable.lengths[reply.response + 1] ELSE 0)
        headers == PackBytes(IpHeader(len, reply.key, 0) \o TcpHeader(reply, 0))
        written == WriteWords(output.words, base, headers)
        payload == IF reply.response < Len(Responses)
                   THEN WriteHttpResponse(written, base, reply.response) ELSE written
        ip == WriteU16(payload, base, 10, ShaderIpChecksum(len, reply.key))
    IN [words |-> WriteU16(ip, base, 36, ShaderTcpChecksum(reply, len)),
        lens |-> [output.lens EXCEPT ![index] = len]]

\* emit_wave_outputs: what the sink gets for each packet of the wave.
WaveOutputs(output) ==
    LET bytes == FlattenSeq(output.words)
    IN [i \in DOMAIN output.lens |->
            SubSeq(bytes, 4 * Stride * (i - 1) + 1, 4 * Stride * (i - 1) + output.lens[i])]
=============================================================================
