----------------------------- MODULE MCConnection -----------------------------
(***************************************************************************)
(* Two connections and one slot.  The limit is five tokens: a request with *)
(* one header fits exactly, one with two does not; a read may bring two    *)
(* requests, or one that is too large, at once.                            *)
(***************************************************************************)
EXTENDS Connection, TLC

CONSTANTS c1, c2

Clients2 == {c1, c2}

Get == <<GetLine11, EOL, EOL>>
With(header) == <<GetLine11, EOL, header, EOL, EOL>>
Host == "Host: x"

MCScripts ==
    {<<>>,
     Get \o With(CloseHeader),
     With(KeepHeader) \o <<GetLine11, EOL, Host>>,
     <<GetLine11, EOL, Host, EOL, Host, EOL, EOL>>,
     <<"GET / HTTP/1.0", EOL, EOL>> \o Get}
=============================================================================
