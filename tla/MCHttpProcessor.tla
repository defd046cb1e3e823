---------------------------- MODULE MCHttpProcessor ----------------------------
(***************************************************************************)
(* Three routers, words of two bytes and hashes below 16, so that paths    *)
(* collide, strings start and end inside words and numbers have one or two *)
(* digits.  The second router builds one response from every kind of call  *)
(* and has a body equal to the reserved end of the header, the third has a *)
(* response that does not fit the configured slot.                         *)
(***************************************************************************)
EXTENDS HttpProcessor

a == 97
b == 98
g == 103
h == 104
r == 114

Plain(status, text) == Response(status, <<79>>, <<116>>, <<Literal(text)>>)

Others(routes) ==
    [routes |-> routes, fallback |-> Plain(404, <<110>>), bad |-> Plain(400, <<98, 114>>),
     notAllowed |-> Response(405, <<78, 65>>, <<116>>, <<RequestBytes, Backend>>)]

\* Five routes, of which "/ag" and "/b" have the same hash, and "/r" too; the
\* last one's path is not ASCII.
Static == Others(
    <<[path |-> <<Slash, b>>, response |-> Plain(200, <<>>)],
      [path |-> <<Slash, a, g>>, response |-> Plain(200, <<1, 2, 3, 4, 5>>)],
      [path |-> <<Slash>>, response |-> Plain(201, <<7>>)],
      [path |-> <<Slash, a>>, response |-> Plain(200, <<8, 9>>)],
      [path |-> <<Slash, 195, 169>>, response |-> Plain(200, <<6, 6, 6>>)]>>)

Dynamic == Others(
    <<[path |-> <<Slash, a>>, response |-> Response(200, <<79, 75>>, <<116>>,
        <<Literal(<<112>>), Literal(<<>>), Literal(<<61>>), PathPart(3), PathPart(0), QueryPart(3),
          BackendVariant(<<1>>, <<1>>), Literal(<<2>>), RequestBytes, PathHash, Backend,
          BackendVariant(<<3>>, <<4, 5>>)>>)],
      [path |-> <<Slash, b>>, response |-> Plain(200, TailReserved)]>>)

Large == Others(<<[path |-> <<Slash>>, response |-> Plain(200, [i \in 1 .. 40 |-> 7])]>>)

MCRouters == {Static, Dynamic, Large}

EOL == <<CR, LF>>
GetLine(target) == Get \o <<SP>> \o target \o <<SP, 86>>

Texts ==
    <<GetLine(<<Slash, b>>) \o EOL,
      GetLine(<<Slash, a, g>>) \o <<LF, h>>,
      GetLine(<<Slash, a, Question, b, b, a, b>>) \o EOL,
      GetLine(<<Slash, a, Question, b>>) \o EOL,
      GetLine(<<Slash, a>>) \o <<CR, h, LF>>,
      GetLine(<<a>>) \o EOL,
      <<80, SP, Slash, SP, 86, LF>>,
      <<80, LF, SP>>,
      GetLine(<<Slash, a, a, a, a, a, a, a, a>>) \o EOL,
      <<71>>,
      GetLine(<<Slash, r>>) \o EOL,
      GetLine(<<Slash, 195, 169>>) \o EOL>>

\* Every request alone and in each place of a batch of two, one batch of three.
MCBatches ==
    {<<>>, <<Texts[4], Texts[1], Texts[3]>>} \cup {<<Texts[i]>> : i \in DOMAIN Texts}
    \cup {<<Texts[i], Texts[(i % Len(Texts)) + 1]>> : i \in DOMAIN Texts}
=============================================================================
