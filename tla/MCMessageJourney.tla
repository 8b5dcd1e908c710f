-------------------------- MODULE MCMessageJourney --------------------------
(***************************************************************************)
(* Small instances of MessageJourney. What users type into the window, whose *)
(* lines end at LF: nothing; a value with a colon, then one header twice, in *)
(* two cases, around an empty line; a standard header and Content-Length,    *)
(* after a line that is no header and before an empty value. The datagrams   *)
(* have bodies longer and shorter than they say, bare line ends, no length,  *)
(* or no end of headers at all.                                              *)
(***************************************************************************)
EXTENDS MessageJourney

MCStreams == {Up, Down, Back, Home}
MCLower == "X-Note" :> "x-note" @@ "From" :> "from" @@ "Via" :> "via"
             @@ "Call-ID" :> "call-id" @@ "Content-Length" :> "content-length"

TypedLine(name, value) == <<name, COLON, SP>> \o value

Noted == TypedLine("X-Tag", <<"a", COLON, "b", SP, LF>>)
           \o TypedLine("X-Note", <<"a", LF, LF, "x-note", COLON, SP, SP, "c">>)
Posing == <<"noise", LF, "from", COLON, "eve", LF>>
            \o TypedLine("Content-Length", <<"9", LF, "X-Note", COLON>>)

MCCallerTypes == {<<>>, Noted, Posing}
MCCalleeTypes == {<<>>, <<"noise", LF>> \o TypedLine("X-Note", <<"d", COLON, "e">>)}

Datagram(eol, length, body) ==
  InviteLine \o eol \o <<"Call-ID", COLON, "u">> \o eol
    \o <<"Content-Length", COLON, length>> \o eol \o eol \o body

MCDatagrams ==
  { Datagram(EOL, "1", <<"x", "y">>), Datagram(EOL, "3", <<"x", "y">>),
    Datagram(<<LF>>, "2", <<"x", "y">>), Datagram(EOL, "-1", EndOfHeaders),
    InviteLine \o EndOfHeaders \o <<"x">>, InviteLine }
=============================================================================
