--------------------------- MODULE ConnectionProofs ---------------------------
(***************************************************************************)
(* For any number of peers and slots, whatever they send and however reads *)
(* cut it: slots are accounted for, responses answer the requests in       *)
(* order, none follows a closing one, the processor gets no request beyond *)
(* the limit, and no legal request is refused.                             *)
(***************************************************************************)
EXTENDS Connection, SequenceTheorems, FiniteSetTheorems, Inductions

-----------------------------------------------------------------------------
(* The inductive invariant.                                                *)

\* The connection's own answers, after which it ends.
OwnAnswers == {"408", "413", "400"}
Responses == [kind : {"none", "ok", "500", "503"} \cup OwnAnswers, to : Nat]
Unserved == {"backlog", "refusing"}

Types ==
    /\ call \in [Clients -> [n : Nat, is : {"idle", "open"} \cup Answers]]
    /\ task \in [Clients -> Unserved \cup Holding \cup Ended]
    /\ pending \in [Clients -> Seq(STRING)] /\ stream \in [Clients -> Seq(STRING)]
    /\ served \in [Clients -> Seq(Seq(STRING))]
    /\ response \in [Clients -> Responses] /\ sent \in [Clients -> Seq(Responses)]

\* The responses written, and the one to be written, by the task's place.
Turn(c) ==
    /\ call[c].n = Len(served[c])
    /\ task[c] \in Unserved => served[c] = <<>> /\ sent[c] = <<>> /\ pending[c] = <<>>
    /\ task[c] = "refusing" => response[c].to = 1 /\ response[c].kind = "503"
    /\ task[c] = "reading" => Len(sent[c]) = Len(served[c])
    /\ task[c] = "calling" => Len(sent[c]) + 1 = Len(served[c])
    /\ task[c] = "writing" => /\ Len(sent[c]) + 1 = Len(served[c])
                              /\ response[c].to = Len(served[c])
                              /\ response[c].kind \notin OwnAnswers
    /\ task[c] = "ending" => /\ Len(sent[c]) = Len(served[c])
                             /\ response[c].to = Len(served[c]) + 1
    /\ \A k \in DOMAIN sent[c] : sent[c][k].to = k
    /\ Len(sent[c]) <= Len(served[c]) + 1

\* All requests but the last, or all, keep the connection.
Kept(c) ==
    /\ \A k \in DOMAIN served[c] :
        k < Len(served[c]) \/ task[c] \in {"reading", "ending"} => Persistent(served[c][k])
    /\ \A k \in DOMAIN sent[c] :
        sent[c][k].kind \in OwnAnswers => task[c] \in Ended /\ k = Len(sent[c]) /\ k > Len(served[c])

Fitting(c) == \A k \in DOMAIN served[c] : Len(served[c][k]) <= MaxRequest

\* No legal request is left behind by the connection's own decision.
Whole(c) ==
    /\ \/ task[c] = "ending"
       \/ task[c] = "closed" /\ (served[c] # <<>> => Persistent(served[c][Len(served[c])]))
       => HeaderLen(pending[c]) \notin 1 .. MaxRequest
    /\ response[c].kind = "413" =>
        /\ task[c] \in {"ending"} \cup Ended
        /\ HeaderLen(pending[c] \o stream[c]) \notin 1 .. MaxRequest
        /\ Len(pending[c] \o stream[c]) >= MaxRequest

Good(c) == Turn(c) /\ Kept(c) /\ Fitting(c) /\ Whole(c)

IInv == Types /\ \A c \in Clients : Good(c)

-----------------------------------------------------------------------------
(* Requests.                                                               *)

LEMMA LeastOf ==
    ASSUME NEW S, S \subseteq Nat, S # {}
    PROVE  Min(S) \in S /\ \A i \in S : Min(S) <= i
<1> DEFINE Less == {ss \in Nat \X Nat : ss[1] < ss[2]}
<1>1. IsWellFoundedOn(Less, Nat)
  BY NatLessThanWellFounded DEF OpToRel
<1>2. PICK m \in S : \A i \in S : <<i, m>> \notin Less
  <2> HIDE DEF Less
  <2> QED BY <1>1, WFMin
<1>3. ASSUME NEW i \in S PROVE m <= i
  <2>1. i \in Nat /\ m \in Nat /\ <<i, m>> \notin Less
    BY <1>2
  <2> QED BY <2>1
<1> QED BY <1>3 DEF Min

EndsAt(request, i) == i \in 2 .. Len(request) /\ request[i - 1] = EOL /\ request[i] = EOL

\* HeaderLen is the first end of a header, if there is one.
LEMMA FirstEnd ==
    ASSUME NEW request \in Seq(STRING)
    PROVE  /\ HeaderLen(request) \in 0 .. Len(request)
           /\ HeaderLen(request) = 0 => \A i : ~EndsAt(request, i)
           /\ HeaderLen(request) > 0 => /\ EndsAt(request, HeaderLen(request))
                                        /\ \A i : EndsAt(request, i) => HeaderLen(request) <= i
<1> DEFINE ends == {i \in 2 .. Len(request) : request[i - 1] = EOL /\ request[i] = EOL}
<1>1. HeaderLen(request) = IF ends = {} THEN 0 ELSE Min(ends)
  BY DEF HeaderLen
<1>2. Len(request) \in Nat /\ ends \subseteq Nat /\ \A i : EndsAt(request, i) <=> i \in ends
  BY DEF EndsAt
<1>3. CASE ends = {}
  BY <1>1, <1>2, <1>3
<1>4. CASE ends # {}
  <2>1. HeaderLen(request) \in ends /\ \A i \in ends : HeaderLen(request) <= i
    BY <1>1, <1>2, <1>4, LeastOf
  <2> QED BY <1>2, <2>1 DEF EndsAt
<1> QED BY <1>3, <1>4

LEMMA NoHeader == HeaderLen(<<>>) = 0
<1>1. <<>> \in Seq(STRING) /\ Len(<<>>) = 0
  OBVIOUS
<1>2. HeaderLen(<<>>) \in 0 .. 0
  BY <1>1, FirstEnd
<1> QED BY <1>2

\* What is read later does not move the end of a header that is there, and
\* puts no end into what was read.
LEMMA EndOfMore ==
    ASSUME NEW read \in Seq(STRING), NEW more \in Seq(STRING)
    PROVE  /\ HeaderLen(read) > 0 => HeaderLen(read \o more) = HeaderLen(read)
           /\ HeaderLen(read) = 0 => HeaderLen(read \o more) \notin 1 .. Len(read)
<1> DEFINE all == read \o more
<1>1. all \in Seq(STRING) /\ Len(read) \in Nat /\ Len(all) >= Len(read)
  OBVIOUS
<1>2. \A i \in 1 .. Len(read) : all[i] = read[i]
  BY ConcatProperties
<1>3. \A i \in 1 .. Len(read) : EndsAt(all, i) <=> EndsAt(read, i)
  BY <1>1, <1>2 DEF EndsAt
<1> HIDE DEF all
<1>4. HeaderLen(read) > 0 => HeaderLen(all) = HeaderLen(read)
  BY <1>1, <1>3, FirstEnd
<1>5. HeaderLen(read) = 0 => HeaderLen(all) \notin 1 .. Len(read)
  BY <1>1, <1>3, FirstEnd
<1> QED BY <1>4, <1>5 DEF all

\* Nothing that is still to come makes a request legal again.
LEMMA LargeForGood ==
    ASSUME NEW read \in Seq(STRING), NEW more \in Seq(STRING), Oversized(read)
    PROVE  /\ HeaderLen(read \o more) \notin 1 .. MaxRequest
           /\ Len(read \o more) >= MaxRequest
<1>1. MaxRequest \in Nat
  BY ConnectionAssumption
<1>2. /\ read \o more \in Seq(STRING) /\ Len(read) \in Nat /\ Len(read \o more) \in Nat
      /\ Len(read \o more) >= Len(read)
  OBVIOUS
<1>3. HeaderLen(read) \in 0 .. Len(read)
  BY FirstEnd
<1>4. HeaderLen(read \o more) \in 0 .. Len(read \o more)
  BY <1>2, FirstEnd
<1>5. CASE HeaderLen(read) > 0
  <2>1. HeaderLen(read) > MaxRequest
    BY <1>5 DEF Oversized
  <2>2. HeaderLen(read \o more) = HeaderLen(read)
    BY <1>5, EndOfMore
  <2> QED BY <1>1, <1>2, <1>3, <2>1, <2>2
<1>6. CASE HeaderLen(read) = 0
  <2>1. Len(read) >= MaxRequest
    BY <1>6 DEF Oversized
  <2>2. HeaderLen(read \o more) \notin 1 .. Len(read)
    BY <1>6, EndOfMore
  <2> QED BY <1>1, <1>2, <1>4, <2>1, <2>2
<1> QED BY <1>3, <1>5, <1>6

\* The first header that decides closes the connection, or the version does,
\* exactly when the request does not ask to keep it.
LEMMA ClosesExactly ==
    ASSUME NEW request \in Seq(STRING)
    PROVE  ShouldClose(request) <=> ~Persistent(request)
<1> DEFINE headers == {i \in DOMAIN request : request[i] \in {CloseHeader, KeepHeader}}
<1>1. ShouldClose(request) <=> request[1] # GetLine11 \/ (headers # {} /\ request[Min(headers)] = CloseHeader)
  BY DEF ShouldClose
<1>2. headers \subseteq Nat /\ DOMAIN request \subseteq Nat \ {0}
  OBVIOUS
<1>3. CloseHeader # KeepHeader
  BY DEF CloseHeader, KeepHeader
<1>4. CASE headers = {}
  BY <1>1, <1>4 DEF Persistent
<1>5. CASE headers # {}
  <2>1. Min(headers) \in headers /\ \A i \in headers : Min(headers) <= i
    BY <1>2, <1>5, LeastOf
  <2>2. CASE request[Min(headers)] = CloseHeader
    <3>1. ASSUME NEW j \in 1 .. Min(headers) - 1, request[j] = KeepHeader PROVE FALSE
      <4>1. Min(headers) \in 1 .. Len(request) /\ DOMAIN request = 1 .. Len(request)
        BY <2>1
      <4>2. j \in headers
        BY <3>1, <4>1
      <4>3. Min(headers) <= j
        BY <2>1, <4>2
      <4> HIDE DEF headers
      <4> QED BY <4>1, <4>3
    <3>2. PICK i \in DOMAIN request :
            request[i] = CloseHeader /\ ~\E j \in 1 .. i - 1 : request[j] = KeepHeader
      BY <2>1, <2>2, <3>1
    <3>3. ~Persistent(request)
      BY <3>2 DEF Persistent
    <3> QED BY <1>1, <1>5, <2>2, <3>3
  <2>3. CASE request[Min(headers)] = KeepHeader
    <3>1. ASSUME NEW i \in DOMAIN request, request[i] = CloseHeader
          PROVE  \E j \in 1 .. i - 1 : request[j] = KeepHeader
      <4>1. Min(headers) <= i /\ Min(headers) # i /\ Min(headers) \in Nat \ {0} /\ i \in Nat
        BY <1>2, <1>3, <2>1, <2>3, <3>1
      <4> QED BY <2>3, <4>1
    <3> QED BY <1>1, <1>3, <2>3, <3>1 DEF Persistent
  <2> QED BY <2>1, <2>2, <2>3
<1> QED BY <1>4, <1>5

-----------------------------------------------------------------------------
(* Steps of one connection leave the others alone.                         *)

SameAt(c) ==
    /\ task'[c] = task[c] /\ pending'[c] = pending[c] /\ stream'[c] = stream[c]
    /\ served'[c] = served[c] /\ response'[c] = response[c] /\ sent'[c] = sent[c]
    /\ call'[c].n = call[c].n

LEMMA Untouched == ASSUME NEW c \in Clients, Good(c), SameAt(c) PROVE Good(c)'
  BY DEF Good, Turn, Kept, Fitting, Whole, SameAt

LEMMA OneConnection ==
    ASSUME IInv, NEW c \in Clients, Types', Good(c)', \A d \in Clients \ {c} : SameAt(d)
    PROVE  IInv'
<1>1. \A d \in Clients \ {c} : Good(d)'
  BY Untouched DEF IInv
<1> QED BY <1>1 DEF IInv

LEMMA Appended ==
    ASSUME NEW S, NEW s \in Seq(S), NEW e \in S
    PROVE  /\ Append(s, e) \in Seq(S) /\ Len(s) \in Nat /\ Len(Append(s, e)) = Len(s) + 1
           /\ DOMAIN s = 1 .. Len(s) /\ DOMAIN Append(s, e) = 1 .. Len(s) + 1
           /\ \A k \in 1 .. Len(s) : Append(s, e)[k] = s[k]
           /\ Append(s, e)[Len(s) + 1] = e
  OBVIOUS

LEMMA InitIInv == Init => IInv
<1> SUFFICES ASSUME Init PROVE IInv
  OBVIOUS
<1>1. Types
  <2>1. script \in [Clients -> Seq(STRING)]
    BY ConnectionAssumption DEF Init
  <2> QED BY <2>1 DEF Init, ServiceInit, Types, Unserved, Responses, NoReply, Reply
<1>2. ASSUME NEW c \in Clients PROVE Good(c)
  BY DEF Init, ServiceInit, Good, Turn, Kept, Fitting, Whole, Unserved, NoReply, Reply, Ended,
         OwnAnswers
<1> QED BY <1>1, <1>2 DEF IInv

LEMMA AcceptStep == ASSUME IInv, NEW c \in Clients, Accept(c) PROVE IInv'
<1>1. Types'
  <2>1. Reply("503", 1) \in Responses
    BY DEF Reply, Responses
  <2>2. /\ task' \in [Clients -> Unserved \cup Holding \cup Ended]
        /\ response' \in [Clients -> Responses]
    BY <2>1 DEF IInv, Types, Accept, Goto, Unserved, Holding
  <2> QED BY <2>2 DEF IInv, Types, Accept, serviceVars
<1>2. \A d \in Clients \ {c} : SameAt(d)
  BY DEF IInv, Types, Accept, Goto, SameAt, serviceVars
<1>3. Good(c)'
  <2>1. /\ served'[c] = <<>> /\ sent'[c] = <<>> /\ pending'[c] = <<>> /\ call'[c].n = 0
        /\ \/ task'[c] = "reading" /\ response'[c] = response[c]
           \/ task'[c] = "refusing" /\ response'[c] = Reply("503", 1)
    BY DEF IInv, Types, Good, Turn, Accept, Goto, Unserved, serviceVars
  <2>2. response[c].kind # "413"
    BY DEF IInv, Good, Whole, Accept, Ended
  <2> QED BY <2>1, <2>2 DEF Good, Turn, Kept, Fitting, Whole, Unserved, Reply, Ended
<1> QED BY <1>1, <1>2, <1>3, OneConnection

LEMMA WriteRefusalStep == ASSUME IInv, NEW c \in Clients, WriteRefusal(c) PROVE IInv'
<1>1. sent[c] \in Seq(Responses) /\ response[c] \in Responses
  BY DEF IInv, Types
<1>2. Types'
  <2>1. Append(sent[c], response[c]) \in Seq(Responses)
    BY <1>1, Appended
  <2>2. /\ sent' = [sent EXCEPT ![c] = Append(sent[c], response[c])] \/ sent' = sent
        /\ sent' \in [Clients -> Seq(Responses)]
    BY <2>1 DEF IInv, Types, WriteRefusal
  <2> QED BY <2>2 DEF IInv, Types, WriteRefusal, Goto, Ended, serviceVars
<1>3. \A d \in Clients \ {c} : SameAt(d)
  BY DEF IInv, Types, WriteRefusal, Goto, SameAt, serviceVars
<1>4. Good(c)'
  <2>1. /\ served[c] = <<>> /\ sent[c] = <<>> /\ pending[c] = <<>> /\ call[c].n = 0
        /\ response[c].to = 1 /\ response[c].kind = "503"
    BY DEF IInv, Good, Turn, WriteRefusal, Unserved
  <2>2. /\ served'[c] = <<>> /\ pending'[c] = <<>> /\ call'[c].n = 0
        /\ task'[c] \in {"closed", "broken"} /\ response'[c] = response[c]
        /\ sent'[c] = Append(sent[c], response[c]) \/ sent'[c] = <<>>
    BY <2>1 DEF IInv, Types, WriteRefusal, Goto, serviceVars
  <2>3. \/ Len(sent'[c]) = 1 /\ DOMAIN sent'[c] = 1 .. 1 /\ sent'[c][1] = response[c]
        \/ Len(sent'[c]) = 0 /\ DOMAIN sent'[c] = {}
    <3>1. CASE sent'[c] = Append(sent[c], response[c])
      BY <1>1, <2>1, <3>1, Appended
    <3>2. CASE sent'[c] = <<>>
      BY <3>2
    <3> QED BY <2>2, <3>1, <3>2
  <2>4. HeaderLen(pending'[c]) = 0
    BY <2>2, NoHeader
  <2>5. /\ Len(served'[c]) = 0 /\ DOMAIN served'[c] = {} /\ call'[c].n = 0
        /\ task'[c] \notin {"backlog", "refusing", "reading", "calling", "writing", "ending"}
        /\ response'[c].kind = "503"
    BY <2>1, <2>2
  <2>6. Turn(c)'
    <3>1. CASE Len(sent'[c]) = 1 /\ DOMAIN sent'[c] = 1 .. 1 /\ sent'[c][1] = response[c]
      BY <2>1, <2>5, <3>1 DEF Turn, Unserved
    <3>2. CASE Len(sent'[c]) = 0 /\ DOMAIN sent'[c] = {}
      BY <2>5, <3>2 DEF Turn, Unserved
    <3> QED BY <2>3, <3>1, <3>2
  <2>7. Kept(c)'
    BY <2>1, <2>2, <2>3 DEF Kept, Ended, OwnAnswers
  <2>8. Fitting(c)'
    BY <2>5 DEF Fitting
  <2>9. Whole(c)'
    <3>1. HeaderLen(pending'[c]) \notin 1 .. MaxRequest
      BY <2>4
    <3> QED BY <2>5, <3>1 DEF Whole
  <2> QED BY <2>6, <2>7, <2>8, <2>9 DEF Good
<1> QED BY <1>2, <1>3, <1>4, OneConnection

LEMMA Framed ==
    ASSUME Types, NEW c \in Clients, Frame(c)
    PROVE  \E request \in Seq(STRING), rest \in Seq(STRING) :
               /\ Len(request) <= MaxRequest
               /\ served' = [served EXCEPT ![c] = Append(@, request)]
               /\ pending' = [pending EXCEPT ![c] = rest]
<1> DEFINE s == pending[c]
           len == HeaderLen(s)
<1>1. s \in Seq(STRING) /\ Len(s) \in Nat /\ MaxRequest \in Nat
  BY ConnectionAssumption DEF Types
<1>2. len \in 1 .. Len(s) /\ len <= MaxRequest
  BY <1>1, FirstEnd DEF Frame, Oversized
<1>3. /\ SubSeq(s, 1, len) \in Seq(STRING) /\ Len(SubSeq(s, 1, len)) = len
      /\ SubSeq(s, len + 1, Len(s)) \in Seq(STRING)
  <2> HIDE DEF s, len
  <2> QED BY <1>1, <1>2, SubSeqProperties
<1>4. /\ served' = [served EXCEPT ![c] = Append(@, SubSeq(s, 1, len))]
      /\ pending' = [pending EXCEPT ![c] = SubSeq(s, len + 1, Len(s))]
  BY DEF Frame, Types
<1> QED BY <1>2, <1>3, <1>4

LEMMA SubmitStep == ASSUME IInv, NEW c \in Clients, Submit(c) PROVE IInv'
<1>1. /\ served[c] \in Seq(Seq(STRING)) /\ sent[c] \in Seq(Responses)
      /\ call[c] \in [n : Nat, is : {"idle", "open"} \cup Answers]
  BY DEF IInv, Types
<1>2. PICK request \in Seq(STRING), rest \in Seq(STRING) :
          /\ Len(request) <= MaxRequest
          /\ served' = [served EXCEPT ![c] = Append(@, request)]
          /\ pending' = [pending EXCEPT ![c] = rest]
  BY Framed DEF IInv, Submit
<1>3. Append(served[c], request) \in Seq(Seq(STRING))
  BY <1>1, Appended
<1>4. PICK state \in {"idle", "open"} :
          /\ call' = [call EXCEPT ![c] = [n |-> call[c].n + 1, is |-> state]]
          /\ \/ /\ task' = [task EXCEPT ![c] = "calling"] /\ response' = response
             \/ /\ task' = [task EXCEPT ![c] = "writing"]
                /\ \E kind \in {"503", "500"} :
                    response' = [response EXCEPT ![c] = Reply(kind, call[c].n + 1)]
  BY DEF Submit, Open, Refuse, Ask, Goto, IInv, Types
<1>5. UNCHANGED <<listening, script, stream, sent>>
  BY DEF Submit
<1>6. Types'
  <2>1. \A kind \in {"503", "500"} : Reply(kind, call[c].n + 1) \in Responses
    BY <1>1 DEF Reply, Responses
  <2>2. response' \in [Clients -> Responses]
    BY <1>4, <2>1, ZenonT(60) DEF IInv, Types
  <2>3. task' \in [Clients -> Unserved \cup Holding \cup Ended]
    BY <1>4 DEF IInv, Types, Holding
  <2>4. call' \in [Clients -> [n : Nat, is : {"idle", "open"} \cup Answers]]
    BY <1>1, <1>4 DEF IInv, Types
  <2>5. served' \in [Clients -> Seq(Seq(STRING))] /\ pending' \in [Clients -> Seq(STRING)]
    BY <1>2, <1>3 DEF IInv, Types
  <2> QED BY <1>5, <2>2, <2>3, <2>4, <2>5 DEF IInv, Types
<1>7. \A d \in Clients \ {c} : SameAt(d)
  BY <1>2, <1>4, <1>5 DEF IInv, Types, SameAt
<1>8. Good(c)'
  <2>1. /\ task[c] = "reading" /\ Good(c) /\ response[c].kind # "413"
    BY DEF IInv, Good, Whole, Submit, Frame, Ended
  <2>2. /\ served'[c] = Append(served[c], request) /\ sent'[c] = sent[c]
        /\ call'[c].n = call[c].n + 1
        /\ \/ task'[c] = "calling" /\ response'[c] = response[c]
           \/ /\ task'[c] = "writing" /\ response'[c].to = call[c].n + 1
              /\ response'[c].kind \in {"503", "500"}
    BY <1>1, <1>2, <1>4, <1>5 DEF IInv, Types, Reply
  <2>3. Len(sent[c]) \in Nat /\ DOMAIN sent[c] = 1 .. Len(sent[c])
    BY <1>1
  <2>4. Turn(c)'
    BY <1>1, <2>1, <2>2, <2>3, Appended DEF Good, Turn, Unserved, OwnAnswers
  <2>5. Kept(c)'
    <3>1. \A k \in 1 .. Len(served[c]) : Persistent(served'[c][k])
      BY <1>1, <2>1, <2>2, Appended DEF Good, Kept
    <3>2. \A k \in DOMAIN sent[c] : sent[c][k].kind \notin OwnAnswers
      BY <2>1 DEF Good, Kept, Ended
    <3> QED BY <1>1, <2>2, <3>1, <3>2, Appended DEF Kept
  <2>6. Fitting(c)'
    BY <1>1, <1>2, <2>1, <2>2, Appended DEF Good, Fitting
  <2>7. Whole(c)'
    BY <2>1, <2>2 DEF Whole
  <2> QED BY <2>4, <2>5, <2>6, <2>7 DEF Good
<1> QED BY <1>6, <1>7, <1>8, OneConnection

LEMMA RespondStep == ASSUME IInv, NEW c \in Clients, Respond(c) PROVE IInv'
<1>1. call[c] \in [n : Nat, is : {"idle", "open"} \cup Answers]
  BY DEF IInv, Types
<1>2. PICK kind \in {"ok", "500"} :
          response' = [response EXCEPT ![c] = Reply(kind, call[c].n)]
  BY DEF Respond
<1>3. /\ task' = [task EXCEPT ![c] = "writing"] /\ call' = [call EXCEPT ![c].is = "idle"]
      /\ UNCHANGED <<listening, script, stream, pending, served, sent>>
  BY DEF Respond, Return, Becomes, Goto
<1>4. Types'
  <2>1. Reply(kind, call[c].n) \in Responses
    BY <1>1 DEF Reply, Responses
  <2>2. response' \in [Clients -> Responses]
    BY <1>2, <2>1 DEF IInv, Types
  <2>3. task' \in [Clients -> Unserved \cup Holding \cup Ended]
    BY <1>3 DEF IInv, Types, Holding
  <2>4. call' \in [Clients -> [n : Nat, is : {"idle", "open"} \cup Answers]]
    BY <1>3 DEF IInv, Types
  <2> QED BY <1>3, <2>2, <2>3, <2>4 DEF IInv, Types
<1>5. \A d \in Clients \ {c} : SameAt(d)
  BY <1>2, <1>3 DEF IInv, Types, SameAt
<1>6. Good(c)'
  <2>1. task[c] = "calling" /\ Good(c)
    BY DEF IInv, Respond
  <2>2. /\ task'[c] = "writing" /\ call'[c].n = call[c].n
        /\ response'[c].to = call[c].n /\ response'[c].kind \in {"ok", "500"}
        /\ served'[c] = served[c] /\ sent'[c] = sent[c]
    BY <1>1, <1>2, <1>3 DEF IInv, Types, Reply
  <2> QED BY <2>1, <2>2
          DEF Good, Turn, Kept, Fitting, Whole, Unserved, Ended, OwnAnswers
<1> QED BY <1>4, <1>5, <1>6, OneConnection

\* The connection ends with a word of its own.
LEMMA LastWordStep ==
    ASSUME IInv, NEW c \in Clients, NEW kind \in OwnAnswers,
           task[c] = "reading", WriteAndClose(c, kind),
           UNCHANGED <<listening, script, stream, pending, served, sent, serviceVars>>,
           HeaderLen(pending[c]) \notin 1 .. MaxRequest,
           kind = "413" => Oversized(pending[c])
    PROVE  IInv'
<1>1. /\ task' = [task EXCEPT ![c] = "ending"]
      /\ response' = [response EXCEPT ![c] = Reply(kind, Len(served[c]) + 1)]
      /\ UNCHANGED <<stream, pending, served, sent, call>>
  BY DEF WriteAndClose, Goto, serviceVars
<1>2. /\ served[c] \in Seq(Seq(STRING)) /\ sent[c] \in Seq(Responses)
      /\ pending[c] \in Seq(STRING) /\ stream[c] \in Seq(STRING)
  BY DEF IInv, Types
<1>3. Types'
  <2>1. Reply(kind, Len(served[c]) + 1) \in Responses
    BY <1>2 DEF Reply, Responses
  <2>2. response' \in [Clients -> Responses]
    BY <1>1, <2>1 DEF IInv, Types
  <2>3. task' \in [Clients -> Unserved \cup Holding \cup Ended]
    BY <1>1 DEF IInv, Types, Holding
  <2> QED BY <1>1, <2>2, <2>3 DEF IInv, Types
<1>4. \A d \in Clients \ {c} : SameAt(d)
  BY <1>1 DEF IInv, Types, SameAt
<1>5. Good(c)'
  <2>1. Good(c)
    BY DEF IInv
  <2>2. /\ task'[c] = "ending" /\ call'[c] = call[c] /\ served'[c] = served[c]
        /\ sent'[c] = sent[c] /\ pending'[c] = pending[c] /\ stream'[c] = stream[c]
        /\ response'[c].to = Len(served[c]) + 1 /\ response'[c].kind = kind
    BY <1>1 DEF IInv, Types, Reply
  <2>3. Turn(c)'
    BY <2>1, <2>2 DEF Good, Turn, Unserved
  <2>4. Kept(c)'
    BY <2>1, <2>2 DEF Good, Kept, Ended
  <2>5. Fitting(c)'
    BY <2>1, <2>2 DEF Good, Fitting
  <2>6. Whole(c)'
    <3>1. ASSUME kind = "413"
          PROVE  /\ HeaderLen(pending[c] \o stream[c]) \notin 1 .. MaxRequest
                 /\ Len(pending[c] \o stream[c]) >= MaxRequest
      BY <1>2, <3>1, LargeForGood
    <3> QED BY <2>2, <3>1 DEF Whole
  <2> QED BY <2>3, <2>4, <2>5, <2>6 DEF Good
<1> QED BY <1>3, <1>4, <1>5, OneConnection

\* The connection ends without a word.
LEMMA EndStep ==
    ASSUME IInv, NEW c \in Clients, NEW how \in {"closed", "broken"},
           task[c] \in Holding, End(c, how),
           UNCHANGED <<listening, script, stream, pending, served, response, sent, serviceVars>>,
           how = "closed" => HeaderLen(pending[c]) \notin 1 .. MaxRequest
    PROVE  IInv'
<1>1. /\ task' = [task EXCEPT ![c] = how]
      /\ UNCHANGED <<stream, pending, served, response, sent, call>>
  BY DEF End, serviceVars
<1>2. Types'
  BY <1>1 DEF IInv, Types, Ended
<1>3. \A d \in Clients \ {c} : SameAt(d)
  BY <1>1 DEF IInv, Types, SameAt
<1>4. Good(c)'
  <2>1. Good(c) /\ task'[c] = how
    BY <1>1 DEF IInv, Types
  <2> QED BY <1>1, <2>1
          DEF Good, Turn, Kept, Fitting, Whole, Unserved, Ended, Holding
<1> QED BY <1>2, <1>3, <1>4, OneConnection

LEMMA ReadingEnds ==
    ASSUME IInv, NEW c \in Clients, TooLarge(c) \/ EndOfFile(c) \/ Timeout(c) \/ IoError(c)
    PROVE  IInv'
<1>1. MaxRequest \in Nat /\ pending[c] \in Seq(STRING) /\ HeaderLen(pending[c]) \in Nat
  BY ConnectionAssumption, FirstEnd DEF IInv, Types
<1>2. CASE TooLarge(c)
  <2>1. HeaderLen(pending[c]) \notin 1 .. MaxRequest
    BY <1>1, <1>2 DEF TooLarge, Oversized
  <2> QED BY <1>2, <2>1, LastWordStep DEF TooLarge, OwnAnswers
<1>3. ASSUME NEW kind \in {"400", "408"}, EndOfRead(c, kind) PROVE IInv'
  <2>1. /\ task[c] = "reading" /\ HeaderLen(pending[c]) \notin 1 .. MaxRequest
        /\ UNCHANGED <<listening, script, stream, pending, served, sent, serviceVars>>
    BY <1>3 DEF EndOfRead, Awaiting
  <2>2. CASE End(c, "closed") /\ UNCHANGED response
    BY <2>1, <2>2, EndStep DEF Holding
  <2>3. CASE WriteAndClose(c, kind)
    <3>1. kind \in OwnAnswers /\ kind # "413"
      BY DEF OwnAnswers
    <3> QED BY <2>1, <2>3, <3>1, LastWordStep
  <2> QED BY <1>3, <2>2, <2>3 DEF EndOfRead
<1>4. CASE IoError(c)
  BY <1>4, EndStep DEF IoError, Awaiting, Holding
<1> QED BY <1>2, <1>3, <1>4 DEF EndOfFile, Timeout

LEMMA ReadStep == ASSUME IInv, NEW c \in Clients, Read(c) PROVE IInv'
<1>1. pending[c] \in Seq(STRING) /\ stream[c] \in Seq(STRING) /\ Len(stream[c]) \in Nat
  BY DEF IInv, Types
<1>2. PICK p \in Seq(STRING), s \in Seq(STRING) :
          pending' = [pending EXCEPT ![c] = p] /\ stream' = [stream EXCEPT ![c] = s]
  <2>1. PICK n \in 1 .. Min({MaxChunk, Len(stream[c])}) :
            /\ pending' = [pending EXCEPT ![c] = @ \o SubSeq(stream[c], 1, n)]
            /\ stream' = [stream EXCEPT ![c] = SubSeq(@, n + 1, Len(@))]
    BY DEF Read
  <2>2. n \in 1 .. Len(stream[c])
    <3>1. /\ {MaxChunk, Len(stream[c])} \subseteq Nat /\ {MaxChunk, Len(stream[c])} # {}
          /\ Len(stream[c]) \in {MaxChunk, Len(stream[c])}
      BY <1>1, ConnectionAssumption
    <3>2. Min({MaxChunk, Len(stream[c])}) \in Nat /\ Min({MaxChunk, Len(stream[c])}) <= Len(stream[c])
      BY <3>1, LeastOf
    <3> QED BY <1>1, <3>2
  <2>3. /\ SubSeq(stream[c], 1, n) \in Seq(STRING)
        /\ SubSeq(stream[c], n + 1, Len(stream[c])) \in Seq(STRING)
    BY <1>1, <2>2, SubSeqProperties
  <2>4. pending[c] \o SubSeq(stream[c], 1, n) \in Seq(STRING)
    BY <1>1, <2>3
  <2> QED BY <2>1, <2>3, <2>4 DEF IInv, Types
<1>3. /\ task[c] = "reading"
      /\ UNCHANGED <<listening, permits, task, script, served, response, sent, serviceVars>>
  BY DEF Read, Awaiting
<1>4. Types'
  BY <1>2, <1>3 DEF IInv, Types, serviceVars
<1>5. \A d \in Clients \ {c} : SameAt(d)
  BY <1>2, <1>3 DEF IInv, Types, SameAt, serviceVars
<1>6. Good(c)'
  BY <1>3 DEF IInv, Good, Turn, Kept, Fitting, Whole, Unserved, Ended, serviceVars
<1> QED BY <1>4, <1>5, <1>6, OneConnection

LEMMA WriteAnswerStep == ASSUME IInv, NEW c \in Clients, WriteAnswer(c) PROVE IInv'
<1> DEFINE last == served[c][Len(served[c])]
<1>1. /\ served[c] \in Seq(Seq(STRING)) /\ sent[c] \in Seq(Responses)
      /\ response[c] \in Responses /\ Good(c)
  BY DEF IInv, Types
<1>2. /\ sent' = [sent EXCEPT ![c] = Append(sent[c], response[c])]
      /\ UNCHANGED <<stream, pending, served, response, call>>
  BY DEF WriteAnswer, serviceVars
<1>3. \/ /\ task[c] = "ending" \/ (task[c] = "writing" /\ ShouldClose(last))
         /\ task' = [task EXCEPT ![c] = "closed"]
      \/ /\ task[c] = "writing" /\ ~ShouldClose(last)
         /\ task' = [task EXCEPT ![c] = "reading"]
  BY DEF WriteAnswer, End, Goto
<1>4. Types'
  <2>1. Append(sent[c], response[c]) \in Seq(Responses)
    BY <1>1, Appended
  <2>2. sent' \in [Clients -> Seq(Responses)]
    BY <1>2, <2>1 DEF IInv, Types
  <2>3. task' \in [Clients -> Unserved \cup Holding \cup Ended]
    BY <1>3 DEF IInv, Types, Holding, Ended
  <2> QED BY <1>2, <2>2, <2>3 DEF IInv, Types
<1>5. \A d \in Clients \ {c} : SameAt(d)
  BY <1>2, <1>3 DEF IInv, Types, SameAt
<1>6. Good(c)'
  <2>1. /\ sent'[c] = Append(sent[c], response[c])
        /\ UNCHANGED <<stream[c], pending[c], served[c], response[c], call[c].n>>
    BY <1>2 DEF IInv, Types
  <2>2. Len(sent[c]) \in Nat /\ Len(served[c]) \in Nat /\ DOMAIN served[c] = 1 .. Len(served[c])
    BY <1>1
  <2>3. Fitting(c)'
    BY <1>1, <2>1 DEF Good, Fitting
  <2>4. \A k \in DOMAIN sent[c] : sent[c][k].to = k /\ sent[c][k].kind \notin OwnAnswers
    BY <1>1, <1>3 DEF Good, Turn, Kept, Ended
  <2>5. CASE task[c] = "ending" /\ task' = [task EXCEPT ![c] = "closed"]
    <3>1. task'[c] = "closed"
      BY <2>5 DEF IInv, Types
    <3>2. Turn(c)'
      BY <1>1, <2>1, <2>2, <2>4, <2>5, <3>1, Appended DEF Good, Turn, Unserved
    <3>3. Kept(c)'
      BY <1>1, <2>1, <2>2, <2>4, <2>5, <3>1, Appended DEF Good, Turn, Kept, Ended
    <3>4. Whole(c)'
      BY <1>1, <2>1, <2>5, <3>1 DEF Good, Whole, Ended
    <3> QED BY <2>3, <3>2, <3>3, <3>4 DEF Good
  <2>6. CASE task[c] = "writing"
    <3>1. /\ Len(sent[c]) + 1 = Len(served[c]) /\ response[c].to = Len(served[c])
          /\ response[c].kind \notin OwnAnswers
      BY <1>1, <2>6 DEF Good, Turn
    <3>2. task'[c] = IF ShouldClose(last) THEN "closed" ELSE "reading"
      BY <1>3, <2>6 DEF IInv, Types
    <3>3. last \in Seq(STRING) /\ Len(served[c]) \in DOMAIN served[c]
      BY <1>1, <2>2, <3>1
    <3>4. ShouldClose(last) <=> ~Persistent(last)
      BY <3>3, ClosesExactly
    <3>5. Turn(c)'
      BY <1>1, <2>1, <2>2, <2>4, <3>1, <3>2, Appended DEF Good, Turn, Unserved
    <3>6. Kept(c)'
      <4>1. \A k \in DOMAIN served[c] : k < Len(served[c]) => Persistent(served[c][k])
        BY <1>1 DEF Good, Kept
      <4>2. \A k \in DOMAIN served[c] : k < Len(served[c]) \/ ~ShouldClose(last) => Persistent(served[c][k])
        BY <2>2, <3>4, <4>1
      <4>3. \A k \in DOMAIN sent'[c] : sent'[c][k].kind \notin OwnAnswers
        BY <1>1, <2>1, <2>4, <3>1, Appended
      <4> QED BY <2>1, <3>2, <4>2, <4>3 DEF Kept
    <3>7. Whole(c)'
      <4>1. response[c].kind # "413"
        BY <3>1 DEF OwnAnswers
      <4>2. task'[c] = "closed" => served'[c] # <<>> /\ ~Persistent(served'[c][Len(served'[c])])
        <5>1. served[c] # <<>>
          BY <2>2, <3>1
        <5>2. task'[c] = "closed" => ~Persistent(last)
          BY <3>2, <3>4
        <5> QED BY <2>1, <5>1, <5>2
      <4>3. task'[c] # "ending" /\ response'[c].kind # "413"
        BY <2>1, <3>2, <4>1
      <4> QED BY <4>2, <4>3 DEF Whole
    <3> QED BY <2>3, <3>5, <3>6, <3>7 DEF Good
  <2> QED BY <1>3, <2>5, <2>6
<1> QED BY <1>4, <1>5, <1>6, OneConnection

LEMMA ShutdownStep == ASSUME IInv, Shutdown PROVE IInv'
<1>1. /\ \A c \in Clients : /\ task'[c] \in Ended
                            /\ task'[c] = "closed" => task[c] = "closed"
                            /\ call'[c].n = call[c].n
      /\ UNCHANGED <<stream, pending, served, response, sent>>
  <2>1. UNCHANGED <<stream, pending, served, response, sent>>
    BY DEF Shutdown
  <2>2. ASSUME NEW c \in Clients PROVE call'[c].n = call[c].n
    BY DEF IInv, Types, Shutdown
  <2>3. ASSUME NEW c \in Clients
        PROVE  task'[c] \in Ended /\ (task'[c] = "closed" => task[c] = "closed")
    BY DEF IInv, Types, Shutdown, Ended
  <2> QED BY <2>1, <2>2, <2>3
<1>2. Types'
  <2>1. task' \in [Clients -> Unserved \cup Holding \cup Ended]
    BY DEF IInv, Types, Shutdown, Ended
  <2>2. call' \in [Clients -> [n : Nat, is : {"idle", "open"} \cup Answers]]
    BY DEF IInv, Types, Shutdown
  <2> QED BY <1>1, <2>1, <2>2 DEF IInv, Types
<1>3. ASSUME NEW c \in Clients PROVE Good(c)'
  <2>1. Good(c)
    BY DEF IInv
  <2> QED BY <1>1, <2>1 DEF Good, Turn, Kept, Fitting, Whole, Unserved, Ended
<1> QED BY <1>2, <1>3 DEF IInv

LEMMA WorkStep == ASSUME IInv, Work, UNCHANGED connVars PROVE IInv'
<1>1. UNCHANGED <<task, stream, pending, served, response, sent>>
  BY DEF connVars
<1>2. /\ call' \in [Clients -> [n : Nat, is : {"idle", "open"} \cup Answers]]
      /\ \A c \in Clients : call'[c].n = call[c].n
  <2>1. call \in [Clients -> [n : Nat, is : {"idle", "open"} \cup Answers]]
    BY DEF IInv, Types
  <2>2. ASSUME NEW c \in Clients, NEW answer \in {"ok", "failed"}, Answer(c, answer)
        PROVE  /\ call' \in [Clients -> [n : Nat, is : {"idle", "open"} \cup Answers]]
               /\ \A d \in Clients : call'[d].n = call[d].n
    <3>1. call' = [call EXCEPT ![c].is = answer]
      BY <2>2 DEF Answer, Becomes
    <3> QED BY <2>1, <3>1 DEF Answers
  <2>3. ASSUME NEW lost \in SUBSET OpenCalls, Fail(lost)
        PROVE  /\ call' \in [Clients -> [n : Nat, is : {"idle", "open"} \cup Answers]]
               /\ \A d \in Clients : call'[d].n = call[d].n
    BY <2>1, <2>3 DEF Fail, Answers
  <2> QED BY <2>2, <2>3 DEF Work, Lose, Stop
<1>3. \A c \in Clients : SameAt(c)
  BY <1>1, <1>2 DEF SameAt
<1> QED BY <1>1, <1>2, <1>3, Untouched DEF IInv, Types

LEMMA Invariance == Spec => []IInv
<1>1. IInv /\ [Next]_vars => IInv'
  <2> SUFFICES ASSUME IInv, [Next]_vars PROVE IInv'
    OBVIOUS
  <2>1. CASE UNCHANGED vars
    BY <2>1 DEF vars, connVars, serviceVars, IInv, Types, Good, Turn, Kept, Fitting, Whole
  <2>2. ASSUME NEW c \in Clients,
               \/ Accept(c) \/ WriteRefusal(c) \/ Handle(c) \/ EndOfFile(c)
               \/ Timeout(c) \/ WriteAnswer(c) \/ IoError(c)
        PROVE  IInv'
    BY <2>2, AcceptStep, WriteRefusalStep, SubmitStep, RespondStep, ReadStep, ReadingEnds,
       WriteAnswerStep DEF Handle
  <2> QED BY <2>1, <2>2, ShutdownStep, WorkStep DEF Next, Quiet
<1> QED BY <1>1, InitIInv, PTL DEF Spec

-----------------------------------------------------------------------------
\* Every response answers the request whose turn it is, and no peer gets more
\* responses than it has sent requests, but for a last word.
THEOREM ResponsesInTurn == Spec => []AnsweredInTurn
<1>1. IInv => AnsweredInTurn
  BY DEF IInv, Good, Turn, AnsweredInTurn
<1> QED BY <1>1, Invariance, PTL

\* After the answer to a request that closes the connection, or an answer of
\* the connection's own, nothing is served.
THEOREM NothingAfterClosing == Spec => []ClosingAnswerLast
<1> SUFFICES IInv => ClosingAnswerLast
  BY Invariance, PTL
<1> SUFFICES ASSUME IInv, NEW c \in Clients
             PROVE  /\ \A k \in 1 .. Len(served[c]) - 1 : Persistent(served[c][k])
                    /\ \A k \in DOMAIN sent[c] :
                        sent[c][k].kind \in {"408", "413", "400"} => k = Len(sent[c]) /\ k > Len(served[c])
  BY DEF ClosingAnswerLast
<1>1. Kept(c) /\ served[c] \in Seq(Seq(STRING))
  BY DEF IInv, Types, Good
<1> QED BY <1>1 DEF Kept, OwnAnswers

\* No legal request that has arrived is refused or left behind by the
\* connection's own decision.
THEOREM NoLegalRequestRefused == Spec => []LegalRequestsServed
<1>1. IInv => LegalRequestsServed
  BY DEF IInv, Good, Whole, LegalRequestsServed
<1> QED BY <1>1, Invariance, PTL

\* No request beyond the limit reaches the processor.
THEOREM BatchesWithinLimit == Spec => []SubmittedWithinLimit
<1>1. IInv => SubmittedWithinLimit
  BY DEF IInv, Good, Fitting, SubmittedWithinLimit
<1> QED BY <1>1, Invariance, PTL

-----------------------------------------------------------------------------
(* Streams.                                                                *)

\* Nothing of a stream is lost: it is the requests served, what is pending and
\* what has not been read.
Joined(c) ==
    /\ FlattenSeq(served[c]) \o pending[c] \o stream[c] = script[c]
    /\ \A k \in DOMAIN served[c] : HeaderLen(served[c][k]) = Len(served[c][k])

AllJoined == \A c \in Clients : Joined(c)

LEMMA JoinedStart == ASSUME Init PROVE AllJoined
<1> SUFFICES ASSUME NEW c \in Clients PROVE Joined(c)
  BY DEF AllJoined
<1>1. served[c] = <<>> /\ pending[c] = <<>> /\ stream[c] = script[c] /\ stream[c] \in Seq(STRING)
  BY ConnectionAssumption DEF Init
<1>2. FlattenSeq(<<>>) = <<>> /\ DOMAIN <<>> = {}
  BY DEF FlattenSeq
<1>3. <<>> \o <<>> \o stream[c] = stream[c]
  BY <1>1
<1> QED BY <1>1, <1>2, <1>3 DEF Joined

\* A request is cut from the front of what is pending, and ends with the header
\* that ends first.
LEMMA CutAtHeader ==
    ASSUME Types, NEW c \in Clients, Frame(c)
    PROVE  \E request \in Seq(STRING), rest \in Seq(STRING) :
               /\ pending[c] = request \o rest /\ HeaderLen(request) = Len(request)
               /\ served' = [served EXCEPT ![c] = Append(@, request)]
               /\ pending' = [pending EXCEPT ![c] = rest]
<1> DEFINE s == pending[c]
           len == HeaderLen(s)
           request == SubSeq(s, 1, len)
           rest == SubSeq(s, len + 1, Len(s))
<1>1. s \in Seq(STRING) /\ Len(s) \in Nat
  BY DEF Types
<1>2. len \in 1 .. Len(s)
  BY <1>1, FirstEnd DEF Frame
<1>3. request \in Seq(STRING) /\ Len(request) = len /\ rest \in Seq(STRING) /\ s = request \o rest
  <2>1. len \in 0 .. Len(s)
    BY <1>1, <1>2
  <2> HIDE DEF s, len
  <2> QED BY <1>1, <2>1, CutInTwo
<1>4. HeaderLen(request) = Len(request)
  <2> HIDE DEF request, rest, s
  <2>1. /\ HeaderLen(request) > 0 => HeaderLen(request \o rest) = HeaderLen(request)
        /\ HeaderLen(request) = 0 => HeaderLen(request \o rest) \notin 1 .. Len(request)
    BY <1>3, EndOfMore
  <2>2. HeaderLen(request \o rest) = len /\ HeaderLen(request) \in 0 .. Len(request)
    BY <1>3, FirstEnd
  <2> HIDE DEF len
  <2> QED BY <1>2, <1>3, <2>1, <2>2
<1>5. /\ served' = [served EXCEPT ![c] = Append(@, request)]
      /\ pending' = [pending EXCEPT ![c] = rest]
  BY DEF Frame, Types
<1> HIDE DEF request, rest, s
<1> QED BY <1>3, <1>4, <1>5 DEF s

LEMMA JoinedStep == ASSUME IInv, AllJoined, [Next]_vars PROVE AllJoined'
<1>1. Types
  BY DEF IInv
<1>2. ASSUME NEW d \in Clients, served'[d] = served[d], pending'[d] = pending[d], stream'[d] = stream[d],
             script'[d] = script[d]
      PROVE  Joined(d)'
  BY <1>2 DEF AllJoined, Joined
<1>3. ASSUME UNCHANGED <<served, pending, stream, script>> PROVE AllJoined'
  BY <1>2, <1>3 DEF AllJoined
<1>4. ASSUME NEW c \in Clients, Submit(c) PROVE AllJoined'
  <2>1. PICK request \in Seq(STRING), rest \in Seq(STRING) :
               /\ pending[c] = request \o rest /\ HeaderLen(request) = Len(request)
               /\ served' = [served EXCEPT ![c] = Append(@, request)]
               /\ pending' = [pending EXCEPT ![c] = rest]
    BY <1>1, <1>4, CutAtHeader DEF Submit
  <2>2. UNCHANGED <<stream, script>>
    BY <1>4 DEF Submit
  <2>3. served[c] \in Seq(Seq(STRING)) /\ stream[c] \in Seq(STRING) /\ Joined(c)
    BY <1>1 DEF Types, AllJoined
  <2>4. served'[c] = Append(served[c], request) /\ pending'[c] = rest
    BY <1>1, <2>1 DEF Types
  <2>5. FlattenSeq(served'[c]) \o pending'[c] \o stream'[c] = script'[c]
    <3> DEFINE flat == FlattenSeq(served[c])
    <3>1. flat \in Seq(STRING) /\ FlattenSeq(served'[c]) = flat \o request
      BY <2>3, <2>4, FlattenAppend
    <3>2. flat \o (request \o rest) \o stream[c] = script[c]
      BY <2>1, <2>3 DEF Joined
    <3> HIDE DEF flat
    <3>3. (flat \o request) \o rest = flat \o (request \o rest)
      BY <2>1, <3>1, ConcatAssociative, SMTT(60)
    <3> QED BY <2>2, <2>4, <3>1, <3>2, <3>3
  <2>6. ASSUME NEW k \in DOMAIN served'[c] PROVE HeaderLen(served'[c][k]) = Len(served'[c][k])
    BY <2>1, <2>3, <2>4, <2>6, Appended DEF Joined
  <2>7. ASSUME NEW d \in Clients, d # c PROVE Joined(d)'
    BY <1>1, <1>2, <2>1, <2>2, <2>7 DEF Types
  <2>8. Joined(c)'
    BY <2>5, <2>6 DEF Joined
  <2> QED BY <2>7, <2>8 DEF AllJoined
<1>5. ASSUME NEW c \in Clients, Read(c) PROVE AllJoined'
  <2>1. PICK n \in 1 .. Min({MaxChunk, Len(stream[c])}) :
            /\ pending' = [pending EXCEPT ![c] = @ \o SubSeq(stream[c], 1, n)]
            /\ stream' = [stream EXCEPT ![c] = SubSeq(@, n + 1, Len(@))]
    BY <1>5 DEF Read
  <2>2. UNCHANGED <<served, script>>
    BY <1>5 DEF Read
  <2>3. /\ pending[c] \in Seq(STRING) /\ stream[c] \in Seq(STRING) /\ Len(stream[c]) \in Nat
        /\ served[c] \in Seq(Seq(STRING)) /\ Joined(c)
    BY <1>1 DEF Types, AllJoined
  <2>4. n \in 1 .. Len(stream[c])
    <3>1. /\ {MaxChunk, Len(stream[c])} \subseteq Nat /\ {MaxChunk, Len(stream[c])} # {}
          /\ Len(stream[c]) \in {MaxChunk, Len(stream[c])}
      BY <2>3, ConnectionAssumption
    <3>2. Min({MaxChunk, Len(stream[c])}) \in Nat /\ Min({MaxChunk, Len(stream[c])}) <= Len(stream[c])
      BY <3>1, LeastOf
    <3> QED BY <2>3, <3>2
  <2> DEFINE chunk == SubSeq(stream[c], 1, n)
             rest == SubSeq(stream[c], n + 1, Len(stream[c]))
             flat == FlattenSeq(served[c])
  <2>5. chunk \in Seq(STRING) /\ rest \in Seq(STRING) /\ stream[c] = chunk \o rest
    <3>1. n \in 0 .. Len(stream[c])
      BY <2>3, <2>4
    <3> QED BY <2>3, <3>1, CutInTwo
  <2>6. pending'[c] = pending[c] \o chunk /\ stream'[c] = rest
    BY <1>1, <2>1 DEF Types
  <2>7. flat \in Seq(STRING)
    <3>1. <<>> \in Seq(STRING)
      OBVIOUS
    <3> QED BY <2>3, <3>1, FlattenAppend
  <2>8. flat \o pending[c] \o stream[c] = script[c]
    BY <2>3 DEF Joined
  <2> HIDE DEF chunk, rest, flat
  <2>9. flat \o (pending[c] \o chunk) \o rest = flat \o pending[c] \o (chunk \o rest)
    <3>1. \A s, t, u \in Seq(STRING) : (s \o t) \o u = s \o (t \o u)
      BY ConcatAssociative
    <3>2. pending[c] \in Seq(STRING)
      BY <2>3
    <3>3. (flat \o pending[c]) \o chunk = flat \o (pending[c] \o chunk)
      BY <2>5, <2>7, <3>1, <3>2, Zenon
    <3>4. flat \o pending[c] \in Seq(STRING)
      BY <2>7, <3>2
    <3>5. ((flat \o pending[c]) \o chunk) \o rest = (flat \o pending[c]) \o (chunk \o rest)
      BY <2>5, <3>1, <3>4, Zenon
    <3> QED BY <3>3, <3>5, Zenon
  <2>10. Joined(c)'
    <3>1. FlattenSeq(served'[c]) \o pending'[c] \o stream'[c] = script'[c]
      BY <2>2, <2>5, <2>6, <2>8, <2>9 DEF flat
    <3> QED BY <2>2, <2>3, <3>1 DEF Joined
  <2>11. ASSUME NEW d \in Clients, d # c PROVE Joined(d)'
    BY <1>1, <1>2, <2>1, <2>2, <2>11 DEF Types
  <2> QED BY <2>10, <2>11 DEF AllJoined
<1>6. ASSUME NEW c \in Clients,
             \/ Accept(c) \/ WriteRefusal(c) \/ Respond(c) \/ TooLarge(c) \/ EndOfFile(c)
             \/ Timeout(c) \/ WriteAnswer(c) \/ IoError(c)
      PROVE  UNCHANGED <<served, pending, stream, script>>
  BY <1>6 DEF Accept, WriteRefusal, Respond, TooLarge, EndOfFile, Timeout, EndOfRead, WriteAnswer, IoError
<1>7. ASSUME Shutdown \/ UNCHANGED connVars \/ UNCHANGED vars PROVE UNCHANGED <<served, pending, stream, script>>
  BY <1>7 DEF Shutdown, connVars, vars
<1> QED BY <1>3, <1>4, <1>5, <1>6, <1>7 DEF Next, Handle, Quiet

\* No byte of a stream is lost, repeated or attributed to another request,
\* whatever a peer sends and wherever reads cut it, and the responses are those
\* to these requests.
THEOREM PipelineKept == Spec => []PipelineOrder
<1>1. IInv /\ AllJoined /\ [Next]_vars => AllJoined'
  BY JoinedStep
<1>2. Init => AllJoined
  BY JoinedStart
<1>3. AllJoined /\ AnsweredInTurn => PipelineOrder
  BY DEF AllJoined, Joined, PipelineOrder
<1> QED BY <1>1, <1>2, <1>3, Invariance, ResponsesInTurn, PTL DEF Spec

-----------------------------------------------------------------------------
(* Slots.                                                                  *)

Served == {c \in Clients : task[c] \in Holding}

LEMMA ServedFinite == IsFiniteSet(Served) /\ Cardinality(Served) \in Nat
<1>1. IsFiniteSet(Served)
  BY ConnectionAssumption, FS_Subset DEF Served
<1> QED BY <1>1, FS_CardinalityType

\* What a step does to the slots and to those that hold one.
SlotTaken == \E c \in Clients \ Served : permits > 0 /\ permits' = permits - 1 /\ Served' = Served \cup {c}
SlotReturned == \E c \in Served : permits' = permits + 1 /\ Served' = Served \ {c}
SlotKept == permits' = permits /\ Served' = Served
AllReturned == permits' = MaxConnections /\ Served' = {}

LEMMA TaskMoves ==
    ASSUME Types, NEW c \in Clients, NEW where,
           task' = [task EXCEPT ![c] = where]
    PROVE  Served' = IF where \in Holding THEN Served \cup {c} ELSE Served \ {c}
<1>1. task'[c] = where /\ \A d \in Clients \ {c} : task'[d] = task[d]
  BY DEF Types
<1> QED BY <1>1 DEF Served

LEMMA SlotStep == ASSUME Types, [Next]_vars PROVE SlotTaken \/ SlotReturned \/ SlotKept \/ AllReturned
<1>1. ASSUME UNCHANGED <<permits, task>> PROVE SlotKept
  BY <1>1 DEF SlotKept, Served
<1>2. ASSUME NEW c \in Clients, NEW where, Goto(c, where), task[c] \in Holding <=> where \in Holding
      PROVE  SlotKept
  <2>1. permits' = permits /\ Served' = IF where \in Holding THEN Served \cup {c} ELSE Served \ {c}
    BY <1>2, TaskMoves DEF Goto
  <2> QED BY <1>2, <2>1 DEF Served, SlotKept
<1>3. ASSUME NEW c \in Clients, NEW how \in Ended, End(c, how), task[c] \in Holding
      PROVE  SlotReturned
  <2>1. permits' = permits + 1 /\ how \notin Holding /\ task' = [task EXCEPT ![c] = how]
    BY <1>3 DEF End, Ended, Holding
  <2>2. c \in Served /\ Served' = Served \ {c}
    BY <1>3, <2>1, TaskMoves DEF Served
  <2> QED BY <2>1, <2>2 DEF SlotReturned
<1>4. ASSUME NEW c \in Clients, Accept(c) PROVE SlotTaken \/ SlotKept
  <2>1. task[c] = "backlog" /\ "backlog" \notin Holding /\ "refusing" \notin Holding
    BY <1>4 DEF Accept, Holding
  <2>2. CASE permits = 0 /\ Goto(c, "refusing")
    BY <1>2, <2>1, <2>2
  <2>3. CASE permits > 0 /\ permits' = permits - 1 /\ task' = [task EXCEPT ![c] = "reading"]
    <3>1. c \in Clients \ Served /\ Served' = Served \cup {c}
      BY <2>1, <2>3, TaskMoves DEF Served, Holding
    <3> QED BY <2>3, <3>1 DEF SlotTaken
  <2> QED BY <1>4, <2>2, <2>3 DEF Accept
<1>5. ASSUME NEW c \in Clients, WriteRefusal(c) PROVE SlotKept
  BY <1>2, <1>5 DEF WriteRefusal, Holding
<1>6. ASSUME NEW c \in Clients, Handle(c) PROVE SlotKept
  BY <1>1, <1>2, <1>6 DEF Handle, Submit, Frame, Respond, TooLarge, WriteAndClose, Read, Holding
<1>7. ASSUME NEW c \in Clients, EndOfFile(c) \/ Timeout(c) \/ IoError(c) PROVE SlotReturned \/ SlotKept
  <2>1. ASSUME NEW kind, EndOfRead(c, kind) PROVE SlotReturned \/ SlotKept
    BY <1>2, <1>3, <2>1 DEF EndOfRead, Awaiting, WriteAndClose, Holding, Ended
  <2>2. CASE IoError(c)
    BY <1>3, <2>2 DEF IoError, Awaiting, Holding, Ended
  <2> QED BY <1>7, <2>1, <2>2 DEF EndOfFile, Timeout
<1>8. ASSUME NEW c \in Clients, WriteAnswer(c) PROVE SlotReturned \/ SlotKept
  BY <1>2, <1>3, <1>8 DEF WriteAnswer, Holding, Ended
<1>9. ASSUME Shutdown PROVE AllReturned
  <2>1. \A c \in Clients : task'[c] \in Ended
    BY <1>9 DEF Shutdown, Ended
  <2> QED BY <1>9, <2>1 DEF Shutdown, AllReturned, Served, Ended, Holding
<1>10. ASSUME UNCHANGED connVars \/ UNCHANGED vars PROVE SlotKept
  BY <1>1, <1>10 DEF connVars, vars
<1> QED BY <1>4, <1>5, <1>6, <1>7, <1>8, <1>9, <1>10 DEF Next, Quiet

\* A slot is taken while a connection is served and only then, and no more
\* than MaxConnections are served at once, however connections end.
THEOREM SlotsComeBack == Spec => []SlotsAccounted
<1>1. Init => SlotsAccounted
  <2> SUFFICES ASSUME Init PROVE SlotsAccounted
    OBVIOUS
  <2>1. Served = {} /\ permits = MaxConnections
    BY DEF Init, Served, Holding
  <2>2. Cardinality(Served) = 0
    BY <2>1, FS_EmptySet
  <2> QED BY <2>1, <2>2, ConnectionAssumption DEF SlotsAccounted, Served
<1>2. IInv /\ SlotsAccounted /\ [Next]_vars => SlotsAccounted'
  <2> SUFFICES ASSUME Types, SlotsAccounted, [Next]_vars PROVE SlotsAccounted'
    BY DEF IInv
  <2> DEFINE n == Cardinality(Served)
  <2>1. n \in Nat /\ MaxConnections \in Nat /\ permits = MaxConnections - n /\ permits >= 0
    BY ServedFinite, ConnectionAssumption DEF SlotsAccounted, Served
  <2>2. SlotsAccounted' <=> permits' >= 0 /\ permits' = MaxConnections - Cardinality(Served')
    BY DEF SlotsAccounted, Served
  <2>3. CASE SlotTaken
    <3>1. PICK c \in Clients \ Served : permits > 0 /\ permits' = permits - 1 /\ Served' = Served \cup {c}
      BY <2>3 DEF SlotTaken
    <3>2. Cardinality(Served \cup {c}) = n + 1
      BY <3>1, ServedFinite, FS_AddElement
    <3> QED BY <2>1, <2>2, <3>1, <3>2
  <2>4. CASE SlotReturned
    <3>1. PICK c \in Served : permits' = permits + 1 /\ Served' = Served \ {c}
      BY <2>4 DEF SlotReturned
    <3>2. Cardinality(Served \ {c}) = n - 1
      BY <3>1, ServedFinite, FS_RemoveElement
    <3> QED BY <2>1, <2>2, <3>1, <3>2
  <2>5. CASE SlotKept
    BY <2>1, <2>2, <2>5 DEF SlotKept
  <2>6. CASE AllReturned
    BY <2>1, <2>2, <2>6, FS_EmptySet DEF AllReturned
  <2> QED BY <2>3, <2>4, <2>5, <2>6, SlotStep
<1> QED BY <1>1, <1>2, Invariance, PTL DEF Spec
=============================================================================
