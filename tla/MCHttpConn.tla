----------------------------- MODULE MCHttpConn -----------------------------
(***************************************************************************)
(* Instance for TLC: on one connection, requests of every kind, some       *)
(* it refuses, and some with what it makes little of (bodies, chunks,      *)
(* folded headers, two requests in a row); on the other, a client that     *)
(* says nothing, and takes and gives back a struct.                        *)
(***************************************************************************)
EXTENDS HttpConn

NL      == <<"CR", "LF">>
Version == <<"SP", "HTTP/", "1", ".", "1">>
Get(url)  == <<"GET", "SP">> \o url \o Version \o NL
Info(tn)  == <<"/", "mediainfo", "/">> \o tn
Plain   == Get(<<"/", "x">>) \o NL
Tn      == Get(Info(<<"x", "?", "streamid=", "&", "rutpver=">>)) \o NL
Post    == <<"POST", "SP", "/">> \o Version \o NL

Requests ==
  {Tn \o <<"x">>,
   Plain \o Get(<<"/", "datainfo", "/", "x", "/", "2", "?">>) \o NL,
   Get(Info(<<"x", "/", "x", "?", "rutpver=">>)) \o NL,
   Get(Info(<<"x">>)) \o <<"connection", ":", "SP", "close">> \o NL \o NL,
   Get(<<"/", "datainfo", "/", "x", "?">>) \o <<"x", ":", "CR", "LF", "TAB", "x">> \o NL \o NL,
   Post \o <<"content-length", ":", "2">> \o NL \o NL \o <<"x", "x">>,
   Post \o <<"transfer-encoding", ":", "chunked">> \o NL \o NL
     \o <<"1", "CR", "LF", "x", "CR", "LF", "0", "CR", "LF", "CR", "LF">>,
   Post \o <<"transfer-encoding", ":", "chunked", "CR", "LF", "SP", "x">> \o NL \o NL,
   Post \o <<"content-length", ":", "x">>, Post \o <<"content-length", ":", "2", "2", "2", "2">>,
   Post \o <<"upgrade", ":", "x">> \o NL \o NL,
   <<"GET", "SP", "x", ":", "/", "/", "x", "@", "x", "/", "x", "#", "SP", "HTTP/", "1", ".", "0", "LF", "LF">>,
   <<"CONNECT", "SP", "x", ":", "1">> \o Version \o NL \o NL,
   <<"GET", "SP", "/", "CR", "LF", "CR", "LF">>, <<"GET", "SP", "x", "SP">>, <<"x">>}

MCScripts == <<Requests, {<<>>}>>

=============================================================================
