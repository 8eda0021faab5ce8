----------------------------- MODULE HttpParser -----------------------------
(***************************************************************************)
(* The HTTP parser the server vendors (libhttp/http_parser.c), as far as   *)
(* it is used: requests, strict mode, callbacks that never fail.           *)
(*                                                                         *)
(* A byte is a symbol; a method, the constant HTTP/, the name of a header  *)
(* that means something, or such a header's value, is one symbol, so that  *)
(* the states that match a word letter by letter are one state.  The       *)
(* parser is the record p.  A call of http_parser_execute is the record    *)
(* st: the parser, the callbacks made, the mark of a URL under way, and    *)
(* the position from which bytes are still to be looked at.                *)
(***************************************************************************)
EXTENDS Integers, Sequences, SequencesExt, FiniteSetsExt

CONSTANTS MaxHeader,     \* HTTP_MAX_HEADER_SIZE
          ULLONG_MAX,    \* the largest content length, which means none
          NULL

ASSUME HttpParserAssumption == MaxHeader \in Nat /\ ULLONG_MAX \in Nat /\ ULLONG_MAX > 16

Methods == {"GET", "POST", "CONNECT"}
Names   == {"connection", "content-length", "transfer-encoding", "upgrade"}
Values  == {"chunked", "close", "keep-alive"}
Digits  == {"0", "1", "2"}
Words   == {"x", "mediainfo", "datainfo", "streamid=", "rutpver="}

Value(c) == CASE c = "0" -> 0 [] c = "1" -> 1 [] c = "2" -> 2

(* IS_USERINFO_CHAR and IS_URL_CHAR, and the characters of a token. *)
UserInfo == Words \union Digits \union {":", ".", ";", "&", "*"}
UrlChars == UserInfo \union {"/", "@"}
Token    == Words \union Digits \union Names \union Values \union Methods \union {".", "&", "*"}

UrlStates == {"req_schema", "req_schema_slash", "req_schema_slash_slash", "req_server_start",
              "req_server", "req_server_with_at", "req_path", "req_query_string_start",
              "req_query_string", "req_fragment_start", "req_fragment"}

BodyStates == {"chunk_data", "chunk_data_almost_done", "chunk_data_done", "body_identity"}

HeaderStates == {"dead", "start_req", "req_method", "req_spaces_before_url", "req_http_start",
  "req_first_http_major", "req_http_major", "req_first_http_minor", "req_http_minor",
  "req_line_almost_done", "header_field_start", "header_field", "header_value_discard_ws",
  "header_value_discard_ws_almost_done", "header_value_discard_lws", "header_value_start",
  "header_value", "header_value_lws", "header_almost_done", "headers_almost_done",
  "headers_done", "chunk_size_start", "chunk_size", "chunk_parameters",
  "chunk_size_almost_done"} \union UrlStates

Flags == {"chunked", "keep-alive", "close", "trailing", "upgrade"}

(* http_parser_init, for requests. *)
Fresh == [state |-> "start_req", flags |-> {}, length |-> 0, method |-> "DELETE",
          field |-> "general", major |-> 0, minor |-> 0, nread |-> 0, upgrade |-> FALSE,
          errno |-> "OK"]

-----------------------------------------------------------------------------
(* Steps every state uses. *)

To(st, state) == [st EXCEPT !.p.state = state]

Error(st, errno) == [st EXCEPT !.p.errno = errno, !.stop = TRUE]

MarkUrl(st, i) == IF st.mark = NULL THEN [st EXCEPT !.mark = i] ELSE st

OnUrl(st, i) ==
  [st EXCEPT !.calls = Append(@, [cb |-> "url", from |-> st.mark, len |-> i - st.mark]),
             !.mark = NULL]

OnMessageComplete(st) ==
  [st EXCEPT !.calls = Append(@, [cb |-> "complete", from |-> 0, len |-> 0])]

(* http_should_keep_alive; a request never needs the end of the stream. *)
ShouldKeepAlive(p) == IF p.major > 0 /\ p.minor > 0 THEN "close" \notin p.flags
                                                    ELSE "keep-alive" \in p.flags

NewMessage(st) ==
  OnMessageComplete(To(st, IF ShouldKeepAlive(st.p) THEN "start_req" ELSE "dead"))

(* A number that is read digit by digit, up to a bound. *)
Digit(st, n, c) == n * 10 + Value(c)

-----------------------------------------------------------------------------
(* The request line. *)

StartReq(st, c) ==
  IF c \in {"CR", "LF"} THEN st
  ELSE IF c \notin Methods THEN Error([st EXCEPT !.p.flags = {}, !.p.length = ULLONG_MAX],
                                      "INVALID_METHOD")
  ELSE [st EXCEPT !.p.flags = {}, !.p.length = ULLONG_MAX, !.p.method = c,
                  !.p.state = "req_method"]

ReqMethod(st, c) == IF c = "SP" THEN To(st, "req_spaces_before_url")
                                ELSE Error(st, "INVALID_METHOD")

(* parse_url_char, but for the white space its callers have looked for. *)
ParseUrlChar(s, c) ==
  CASE s = "req_spaces_before_url" /\ c \in {"/", "*"}       -> "req_path"
    [] s = "req_spaces_before_url" /\ c \in Words            -> "req_schema"
    [] s = "req_schema" /\ c \in Words                       -> s
    [] s = "req_schema" /\ c = ":"                           -> "req_schema_slash"
    [] s = "req_schema_slash" /\ c = "/"                     -> "req_schema_slash_slash"
    [] s = "req_schema_slash_slash" /\ c = "/"               -> "req_server_start"
    [] s = "req_server_with_at" /\ c = "@"                   -> "dead"
    [] s \in {"req_server_start", "req_server", "req_server_with_at"} /\ c \in UserInfo -> "req_server"
    [] s \in {"req_server_start", "req_server", "req_server_with_at"} /\ c = "/" -> "req_path"
    [] s \in {"req_server_start", "req_server", "req_server_with_at"} /\ c = "?" ->
         "req_query_string_start"
    [] s \in {"req_server_start", "req_server"} /\ c = "@"   -> "req_server_with_at"
    [] s = "req_path" /\ c \in UrlChars                      -> s
    [] s = "req_path" /\ c = "?"                             -> "req_query_string_start"
    [] s \in {"req_query_string_start", "req_query_string"} /\ c \in UrlChars \union {"?"} ->
         "req_query_string"
    [] s \in {"req_path", "req_query_string_start", "req_query_string"} /\ c = "#" ->
         "req_fragment_start"
    [] s \in {"req_fragment_start", "req_fragment"} /\ c \in UrlChars \union {"?"} -> "req_fragment"
    [] s \in {"req_fragment_start", "req_fragment"} /\ c = "#" -> s
    [] OTHER                                                 -> "dead"

UrlChar(st, c) ==
  LET s == ParseUrlChar(st.p.state, c)
  IN  IF s = "dead" THEN Error(To(st, s), "INVALID_URL") ELSE To(st, s)

BeforeUrl(st, i, c) ==
  IF c = "SP" THEN st
  ELSE UrlChar(IF st.p.method = "CONNECT" THEN To(MarkUrl(st, i), "req_server_start")
                                          ELSE MarkUrl(st, i), c)

(* The states in which a URL may not end. *)
UnfinishedUrl == {"req_schema", "req_schema_slash", "req_schema_slash_slash", "req_server_start"}

(* In the others it ends at a space, or at the end of a line without a     *)
(* version, which is version 0.9.                                          *)
Url(st, i, c) ==
  CASE c \in {"SP", "CR", "LF"} /\ st.p.state \in UnfinishedUrl -> Error(st, "INVALID_URL")
    [] c = "SP"  -> OnUrl(To(st, "req_http_start"), i)
    [] c = "CR"  -> OnUrl([To(st, "req_line_almost_done") EXCEPT !.p.major = 0, !.p.minor = 9], i)
    [] c = "LF"  -> OnUrl([To(st, "header_field_start") EXCEPT !.p.major = 0, !.p.minor = 9], i)
    [] OTHER     -> UrlChar(st, c)

HttpStart(st, c) == CASE c = "HTTP/" -> To(st, "req_first_http_major")
                      [] c = "SP"    -> st
                      [] OTHER       -> Error(st, "INVALID_CONSTANT")

FirstMajor(st, c) == IF c \in Digits \ {"0"} THEN [To(st, "req_http_major") EXCEPT !.p.major = Value(c)]
                                             ELSE Error(st, "INVALID_VERSION")

Major(st, c) ==
  IF c = "." THEN To(st, "req_first_http_minor")
  ELSE IF c \notin Digits \/ Digit(st, st.p.major, c) > 999 THEN Error(st, "INVALID_VERSION")
  ELSE [st EXCEPT !.p.major = Digit(st, @, c)]

FirstMinor(st, c) == IF c \in Digits THEN [To(st, "req_http_minor") EXCEPT !.p.minor = Value(c)]
                                     ELSE Error(st, "INVALID_VERSION")

Minor(st, c) ==
  CASE c = "CR" -> To(st, "req_line_almost_done")
    [] c = "LF" -> To(st, "header_field_start")
    [] c \in Digits /\ Digit(st, st.p.minor, c) <= 999 -> [st EXCEPT !.p.minor = Digit(st, @, c)]
    [] OTHER    -> Error(st, "INVALID_VERSION")

LineAlmostDone(st, c) == IF c = "LF" THEN To(st, "header_field_start") ELSE Error(st, "LF_EXPECTED")

-----------------------------------------------------------------------------
(* The headers, from the last state to the first: a state that hands the   *)
(* same byte on to another (reexecute_byte) is above that other's name.    *)

HeadersDone(st) ==
  LET s == [st EXCEPT !.p.nread = 0]
  IN  CASE st.p.upgrade              -> [NewMessage(s) EXCEPT !.stop = TRUE]
        [] ~st.p.upgrade /\ "chunked" \in st.p.flags -> To(s, "chunk_size_start")
        [] ~st.p.upgrade /\ "chunked" \notin st.p.flags ->
             IF st.p.length \in {0, ULLONG_MAX} THEN NewMessage(s) ELSE To(s, "body_identity")

HeadersAlmostDone(st, c) ==
  IF c # "LF" THEN Error(st, "STRICT")
  ELSE IF "trailing" \in st.p.flags THEN NewMessage(st)
  ELSE HeadersDone([To(st, "headers_done") EXCEPT
                      !.p.upgrade = "upgrade" \in st.p.flags \/ st.p.method = "CONNECT"])

HeaderFieldStart(st, c) ==
  CASE c = "CR" -> To(st, "headers_almost_done")
    [] c = "LF" -> HeadersAlmostDone(To(st, "headers_almost_done"), c)
    [] c \in Token -> [To(st, "header_field") EXCEPT
                         !.p.field = IF c \in Names THEN c ELSE "general"]
    [] OTHER    -> Error(To(st, "header_field_start"), "INVALID_HEADER_TOKEN")

(* A name that goes on after one that was matched is another name. *)
HeaderField(st, c) ==
  CASE c \in Token -> [st EXCEPT !.p.field = "general"]
    [] c = ":"     -> To(st, "header_value_discard_ws")
    [] OTHER       -> Error(st, "INVALID_HEADER_TOKEN")

(* The first byte of a value. *)
HeaderValueStart(st, c) ==
  LET s == To(st, "header_value")
  IN  CASE s.p.field = "upgrade" -> [s EXCEPT !.p.flags = @ \union {"upgrade"}, !.p.field = "general"]
        [] s.p.field = "transfer-encoding" /\ c = "chunked" -> [s EXCEPT !.p.field = c]
        [] s.p.field = "connection" /\ c \in {"close", "keep-alive"} -> [s EXCEPT !.p.field = c]
        [] s.p.field = "content-length" ->
             IF c \in Digits THEN [s EXCEPT !.p.length = Value(c)] ELSE Error(s, "INVALID_CONTENT_LENGTH")
        [] OTHER -> [s EXCEPT !.p.field = "general"]

DiscardWs(st, c) ==
  CASE c \in {"SP", "TAB"} -> st
    [] c = "CR" -> To(st, "header_value_discard_ws_almost_done")
    [] c = "LF" -> To(st, "header_value_discard_lws")
    [] OTHER    -> HeaderValueStart(st, c)

DiscardWsAlmostDone(st, c) == IF c = "LF" THEN To(st, "header_value_discard_lws")
                                          ELSE Error(st, "STRICT")

DiscardLws(st, c) == IF c \in {"SP", "TAB"} THEN To(st, "header_value_discard_ws")
                                            ELSE HeaderFieldStart(To(st, "header_field_start"), c)

(* A value may go on in the next line; if not, what it says is noted. *)
HeaderValueLws(st, c) ==
  IF c \in {"SP", "TAB"} THEN HeaderValueStart(st, c)
  ELSE HeaderFieldStart([To(st, "header_field_start") EXCEPT
                           !.p.flags = IF st.p.field \in Values THEN @ \union {st.p.field} ELSE @], c)

HeaderAlmostDone(st, c) == IF c = "LF" THEN To(st, "header_value_lws") ELSE Error(st, "STRICT")

(* Fault: the number may grow beyond its type. *)
FaultHeaderValue(st, c) ==
  CASE c = "CR" -> To(st, "header_almost_done")
    [] c = "LF" -> HeaderAlmostDone(To(st, "header_almost_done"), c)
    [] c = "SP" -> st
    [] c \notin {"CR", "LF", "SP"} /\ st.p.field = "content-length" ->
         IF c \notin Digits
         THEN Error(st, "INVALID_CONTENT_LENGTH")
         ELSE [st EXCEPT !.p.length = Digit(st, @, c)]
    [] OTHER    -> [st EXCEPT !.p.field = "general"]

HeaderValue(st, c) ==
  CASE c = "CR" -> To(st, "header_almost_done")
    [] c = "LF" -> HeaderAlmostDone(To(st, "header_almost_done"), c)
    [] c = "SP" -> st
    [] c \notin {"CR", "LF", "SP"} /\ st.p.field = "content-length" ->
         IF c \notin Digits \/ (ULLONG_MAX - 10) \div 10 < st.p.length
         THEN Error(st, "INVALID_CONTENT_LENGTH")
         ELSE [st EXCEPT !.p.length = Digit(st, @, c)]
    [] OTHER    -> [st EXCEPT !.p.field = "general"]

-----------------------------------------------------------------------------
(* The body. *)

(* As many bytes as there are, up to the length, are passed over. *)
Skip(st, i, n) ==
  LET toRead == Min({st.p.length, n - i + 1})
  IN  [st EXCEPT !.p.length = @ - toRead, !.next = i + toRead]

BodyIdentity(st, i, n) ==
  LET s == Skip(st, i, n)
  IN  IF s.p.length = 0 THEN NewMessage(s) ELSE s

ChunkSizeStart(st, c) ==
  IF c \in Digits THEN [To(st, "chunk_size") EXCEPT !.p.length = Value(c)]
                  ELSE Error(st, "INVALID_CHUNK_SIZE")

ChunkSize(st, c) ==
  CASE c = "CR"          -> To(st, "chunk_size_almost_done")
    [] c \in {";", "SP"} -> To(st, "chunk_parameters")
    [] c \in Digits      -> IF (ULLONG_MAX - 16) \div 16 < st.p.length
                            THEN Error(st, "INVALID_CONTENT_LENGTH")
                            ELSE [st EXCEPT !.p.length = @ * 16 + Value(c)]
    [] OTHER             -> Error(st, "INVALID_CHUNK_SIZE")

ChunkParameters(st, c) == IF c = "CR" THEN To(st, "chunk_size_almost_done") ELSE st

ChunkSizeAlmostDone(st, c) ==
  IF c # "LF" THEN Error(st, "STRICT")
  ELSE IF st.p.length = 0
  THEN [To(st, "header_field_start") EXCEPT !.p.nread = 0, !.p.flags = @ \union {"trailing"}]
  ELSE [To(st, "chunk_data") EXCEPT !.p.nread = 0]

ChunkData(st, i, n) ==
  LET s == Skip(st, i, n)
  IN  IF s.p.length = 0 THEN To(s, "chunk_data_almost_done") ELSE s

ChunkDataAlmostDone(st, c) == IF c = "CR" THEN To(st, "chunk_data_done") ELSE Error(st, "STRICT")

ChunkDataDone(st, c) == IF c = "LF" THEN [To(st, "chunk_size_start") EXCEPT !.p.nread = 0]
                                    ELSE Error(st, "STRICT")

Dead(st, c) == IF c \in {"CR", "LF"} THEN st ELSE Error(st, "CLOSED_CONNECTION")

-----------------------------------------------------------------------------
(* The switch over the state. *)
Switch(st, i, c, n) ==
  LET s == st.p.state
  IN  CASE s = "dead"                   -> Dead(st, c)
        [] s = "start_req"              -> StartReq(st, c)
        [] s = "req_method"             -> ReqMethod(st, c)
        [] s = "req_spaces_before_url"  -> BeforeUrl(st, i, c)
        [] s \in UrlStates              -> Url(st, i, c)
        [] s = "req_http_start"         -> HttpStart(st, c)
        [] s = "req_first_http_major"   -> FirstMajor(st, c)
        [] s = "req_http_major"         -> Major(st, c)
        [] s = "req_first_http_minor"   -> FirstMinor(st, c)
        [] s = "req_http_minor"         -> Minor(st, c)
        [] s = "req_line_almost_done"   -> LineAlmostDone(st, c)
        [] s = "header_field_start"     -> HeaderFieldStart(st, c)
        [] s = "header_field"           -> HeaderField(st, c)
        [] s = "header_value_discard_ws" -> DiscardWs(st, c)
        [] s = "header_value_discard_ws_almost_done" -> DiscardWsAlmostDone(st, c)
        [] s = "header_value_discard_lws" -> DiscardLws(st, c)
        [] s = "header_value"           -> HeaderValue(st, c)
        [] s = "header_almost_done"     -> HeaderAlmostDone(st, c)
        [] s = "header_value_lws"       -> HeaderValueLws(st, c)
        [] s = "headers_almost_done"    -> HeadersAlmostDone(st, c)
        [] s = "body_identity"          -> BodyIdentity(st, i, n)
        [] s = "chunk_size_start"       -> ChunkSizeStart(st, c)
        [] s = "chunk_size"             -> ChunkSize(st, c)
        [] s = "chunk_parameters"       -> ChunkParameters(st, c)
        [] s = "chunk_size_almost_done" -> ChunkSizeAlmostDone(st, c)
        [] s = "chunk_data"             -> ChunkData(st, i, n)
        [] s = "chunk_data_almost_done" -> ChunkDataAlmostDone(st, c)
        [] s = "chunk_data_done"        -> ChunkDataDone(st, c)

(* One turn of the loop: a header byte is counted, then looked at. *)
Byte(st, i, c, n) ==
  LET s == IF st.p.state \in HeaderStates THEN [st EXCEPT !.p.nread = @ + 1] ELSE st
  IN  IF st.p.state \in HeaderStates /\ s.p.nread > MaxHeader
      THEN Error(s, "HEADER_OVERFLOW")
      ELSE Switch([s EXCEPT !.next = i + 1], i, c, n)

(* No data means that the peer has closed. *)
AtEOF(p) == IF p.state \in {"dead", "start_req"} THEN p
            ELSE [p EXCEPT !.errno = "INVALID_EOF_STATE"]

(* http_parser_execute: the parser after it, and the callbacks it made.  A *)
(* URL that is under way when the call begins is marked at its first byte, *)
(* and one that is under way when it ends is handed over as far as it is.  *)
Execute(p, data) ==
  LET n     == Len(data)
      begin == [p |-> p, calls |-> <<>>, next |-> 1, stop |-> FALSE,
                mark |-> IF p.state \in UrlStates THEN 1 ELSE NULL]
      end   == FoldLeft(LAMBDA st, i : IF st.stop \/ i < st.next THEN st ELSE Byte(st, i, data[i], n),
                        begin, [i \in 1 .. n |-> i])
      left  == IF end.stop \/ end.mark = NULL THEN end ELSE OnUrl(end, n + 1)
  IN  CASE p.errno # "OK"          -> [p |-> p, calls |-> <<>>]
        [] p.errno = "OK" /\ n = 0 -> [p |-> AtEOF(p), calls |-> <<>>]
        [] OTHER                   -> [p |-> left.p, calls |-> left.calls]

=============================================================================
