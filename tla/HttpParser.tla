------------------------------ MODULE HttpParser ------------------------------
(***************************************************************************)
(* The messages of one HTTP connection, from the events of http_parser to  *)
(* the IncomingMessage objects: src/src/modules/iotjs_module_httpparser.c  *)
(* and src/src/js/http_common.js and http_incoming.js.  http_parser        *)
(* (deps/) is here as far as the binding uses it: the callbacks it makes   *)
(* for well-formed messages, in pieces where a chunk of the socket ends in *)
(* the middle of a token, or an error.  A piece of text is the number of   *)
(* its message, of its header (0 for the URL) and of the piece, and        *)
(* whether another follows; a header with the name of an earlier one has   *)
(* the number of that one in the pieces of its field.                      *)
(***************************************************************************)
EXTENDS Integers, Sequences, SequencesExt

CONSTANTS HeaderMax,     \* HEADER_MAX
          MaxHeaders,    \* bound: headers and trailers of a message
          MaxMessages,   \* bound: messages on the connection
          MaxCuts        \* bound: tokens that the end of a chunk cuts

ASSUME HttpAssumption == /\ HeaderMax \in Nat \ {0, 1}
                         /\ MaxHeaders \in Nat /\ MaxMessages \in Nat
                         /\ MaxCuts \in Nat

VARIABLE http

Slots == 1 .. HeaderMax
NoMessage == [url |-> << >>, headers |-> << >>]
NoHeaders == [name \in {} |-> << >>]

\* iotjs_httpparserwrap_initialize, create and Reinitialize, with the fields that
\* connectionListener and tickOnSocket give the parser
HttpInit ==
    \E type \in {"request", "response"} :
        http = [type      |-> type,
                url       |-> << >>,
                fields    |-> [i \in Slots |-> << >>],
                values    |-> [i \in Slots |-> << >>],
                n_fields  |-> 0,
                n_values  |-> 0,
                flushed   |-> FALSE,
                cur_buf   |-> FALSE,     \* Execute is running
                jsHeaders |-> << >>,     \* _headers
                jsUrl     |-> << >>,     \* _url
                incoming  |-> [url |-> << >>, headers |-> NoHeaders],   \* the last one
                at        |-> "begin",   \* http_parser: what comes next
                token     |-> "none",    \* a token that the chunk cuts
                piece     |-> 1,
                header    |-> 0,         \* header of the message
                name      |-> 0,         \* the header whose name this one has
                cuts      |-> 0,
                msg       |-> 0,         \* number of the message
                want      |-> NoMessage, \* history: the message as it was sent
                parsed    |-> FALSE,     \* its headers are complete
                trailers  |-> FALSE]     \* history: a message had trailers

\* iotjs_httpparserwrap_make_header
MakeHeader(h) == [i \in 1 .. h.n_values |-> <<h.fields[i], h.values[i]>>]

\* iotjs_httpparserwrap_flush and parserOnHeaders
Flush(h) ==
    [h EXCEPT !.jsHeaders = @ \o MakeHeader(h),
              !.jsUrl = IF h.type = "request" THEN @ \o h.url ELSE @,
              !.url = << >>,
              !.flushed = TRUE]

-----------------------------------------------------------------------------
(* Execute, and the callbacks that http_parser makes in it *)

\* iotjs_httpparserwrap_set_buf before http_parser_execute
Execute ==
    /\ ~http.cur_buf /\ http.at \notin {"error", "closed"}
    /\ http' = [http EXCEPT !.cur_buf = TRUE]

\* The chunk is used up
ExecuteReturns ==
    /\ http.cur_buf
    /\ http' = [http EXCEPT !.cur_buf = FALSE]

\* http_parser refuses what follows: Execute returns an error and the socket is
\* destroyed
ParseError ==
    /\ http.cur_buf /\ http.token = "none"
    /\ http' = [http EXCEPT !.cur_buf = FALSE, !.at = "error"]

\* A token goes on in the next chunk, or ends here
Goes(h, token, more) ==
    [h EXCEPT !.token = IF more THEN token ELSE "none",
              !.piece = IF more THEN @ + 1 ELSE 1,
              !.cuts = IF more THEN @ + 1 ELSE @,
              !.cur_buf = ~more]
Parsing(places) == http.cur_buf /\ http.at \in places
\* Inside a cut token nothing else comes; a piece cut in this chunk ends it
May(token, more) ==
    /\ http.token \in {"none", token}
    /\ more => http.cuts < MaxCuts

\* iotjs_httpparserwrap_on_message_begin
OnMessageBegin ==
    /\ Parsing({"begin"})
    /\ http.msg < MaxMessages
    /\ http' = [http EXCEPT !.url = << >>, !.header = 0, !.msg = @ + 1,
                            !.at = IF http.type = "request" THEN "url" ELSE "headers",
                            !.want = NoMessage, !.parsed = FALSE]

Text(header, more) == <<http.msg, header, http.piece, more>>

\* iotjs_httpparserwrap_on_url
OnUrl(more) ==
    /\ Parsing({"url"}) /\ May("url", more)
    /\ http' = Goes([http EXCEPT !.url = Append(@, Text(0, more)),
                                 !.at = IF more THEN "url" ELSE "headers",
                                 !.want.url = Append(@, Text(0, more))], "url", more)

\* The part of iotjs_httpparserwrap_on_header_field that opens a new header
NewField(h) ==
    LET full == h.n_fields + 1 = HeaderMax
        f == IF full THEN [Flush(h) EXCEPT !.n_fields = 1, !.n_values = 0]
             ELSE [h EXCEPT !.n_fields = @ + 1]
    IN  IF h.n_fields # h.n_values THEN h
        ELSE [f EXCEPT !.fields[f.n_fields] = << >>]

\* iotjs_httpparserwrap_on_header_field; a field that begins may have the
\* name of the first; the names of trailers make no difference, for they are not read
OnHeaderField(more, name) ==
    /\ Parsing({"headers", "trailers"}) /\ May("field", more)
    /\ http.header < MaxHeaders
    /\ name \in IF http.token = "field" THEN {http.name}
                ELSE IF http.at = "trailers" THEN {http.header} ELSE {0, http.header}
    /\ LET h == NewField(http)
           text == Text(name, more)
       IN  http' = Goes([h EXCEPT !.fields[h.n_fields] = Append(@, text),
                                  !.name = name,
                                  !.at = IF more THEN @ ELSE
                                         IF @ = "headers" THEN "value" ELSE "trailerValue",
                                  !.want.headers =
                                      IF http.at = "trailers" THEN @
                                      ELSE IF http.token = "field"
                                      THEN [@ EXCEPT ![Len(@)][1] = Append(@, text)]
                                      ELSE Append(@, << <<text>>, << >> >>),
                                  !.trailers = @ \/ http.at = "trailers"], "field", more)

\* iotjs_httpparserwrap_on_header_value
OnHeaderValue(more) ==
    /\ Parsing({"value", "trailerValue"}) /\ May("value", more)
    /\ LET h == IF http.n_fields = http.n_values THEN http
                ELSE [http EXCEPT !.n_values = @ + 1, !.values[http.n_values + 1] = << >>]
           text == Text(http.header, more)
       IN  http' = Goes([h EXCEPT !.values[h.n_values] = Append(@, text),
                                  !.name = 0,
                                  !.at = IF more THEN @ ELSE
                                         IF @ = "value" THEN "headers" ELSE "trailers",
                                  !.header = IF more THEN @ ELSE @ + 1,
                                  !.want.headers =
                                      IF http.at = "trailerValue" THEN @
                                      ELSE [@ EXCEPT ![Len(@)][2] = Append(@, text)]], "value", more)

\* matchKnownFields: the name that the pieces of a field make up, in lower case, or
\* <<0, 0>> when they are not the whole field and nothing else
FieldName(field) ==
    IF \A i \in DOMAIN field :
           field[i] = <<field[1][1], field[1][2], i, i < Len(field)>>
    THEN <<field[1][1], field[1][2]>> ELSE <<0, 0>>

\* IncomingMessage.addHeaders: an object, in which a later header replaces an earlier
\* one of its name
AddHeaders(headers) ==
    LET Names(n) == {FieldName(headers[i][1]) : i \in 1 .. n}
        LastOf(name) == SelectLastInSeq(headers, LAMBDA h : FieldName(h[1]) = name)
    IN  [name \in Names(Len(headers)) |-> headers[LastOf(name)][2]]

\* parserOnHeadersComplete: the URL and the headers come with the call, unless some
\* were flushed; _headers is emptied, _url is not ("this.url = ''")
HeadersComplete(h, info) ==
    [h EXCEPT !.incoming = [url |-> IF info.url = << >> THEN h.jsUrl ELSE info.url,
                            headers |-> AddHeaders(IF h.flushed THEN h.jsHeaders
                                                   ELSE info.headers)],
              !.parsed = TRUE,
              !.jsHeaders = IF h.flushed THEN << >> ELSE @]

\* iotjs_httpparserwrap_on_headers_complete; skip is what onIncoming returns
OnHeadersComplete(skip) ==
    /\ Parsing({"headers"}) /\ http.token = "none"
    /\ LET h == IF http.flushed THEN Flush(http) ELSE http
           info == IF http.flushed THEN [url |-> << >>, headers |-> << >>]
                   ELSE [url |-> http.url, headers |-> MakeHeader(http)]
       IN  http' = [HeadersComplete(h, info) EXCEPT
                       !.n_fields = 0, !.n_values = 0, !.header = 0,
                       !.at = IF skip THEN "end" ELSE "body"]

\* iotjs_httpparserwrap_on_body and parserOnBody: a slice of the buffer of this
\* Execute goes to the incoming stream
OnBody ==
    /\ Parsing({"body"})
    /\ UNCHANGED http

\* http_parser: a chunked body ends and trailers follow
LastChunk ==
    /\ Parsing({"body"})
    /\ http' = [http EXCEPT !.at = "trailers"]

\* iotjs_httpparserwrap_on_message_complete and parserOnMessageComplete
MessageComplete(h) == [h EXCEPT !.at = "begin"]
OnMessageComplete ==
    /\ Parsing({"body", "trailers", "end"}) /\ http.token = "none"
    /\ http' = MessageComplete(http)

\* Finish, at the end of the socket's data: http_parser completes a body that only
\* the end of the connection delimits, and otherwise reports an error
Finish ==
    /\ ~http.cur_buf /\ http.at \notin {"error", "closed"}
    /\ http' = IF http.at = "body" /\ http.type = "response"
               THEN [MessageComplete(http) EXCEPT !.at = "closed"]
               ELSE [http EXCEPT !.at = IF @ = "begin" THEN "closed" ELSE "error"]

HttpNext ==
    \/ Execute \/ ExecuteReturns \/ ParseError \/ OnMessageBegin
    \/ \E more \in BOOLEAN : OnUrl(more) \/ OnHeaderValue(more)
    \/ \E more \in BOOLEAN, name \in 0 .. MaxHeaders : OnHeaderField(more, name)
    \/ \E skip \in BOOLEAN : OnHeadersComplete(skip)
    \/ OnBody \/ LastChunk \/ OnMessageComplete \/ Finish

HttpSpec == HttpInit /\ [][HttpNext]_http

-----------------------------------------------------------------------------

\* Every message has the headers that it was sent with: each name, with the whole value
\* that was sent for it last, and no other, however the chunks cut them and however
\* often the binding's HEADER_MAX slots were flushed.  The other values of a name that
\* is sent more than once are lost (addHeaders).  The exception is a message that
\* follows one with trailers, whose slots are not cleared by on_message_complete.
HeadersWhole ==
    http.parsed /\ ~http.trailers =>
        LET sent == http.want.headers
            Name(i) == sent[i][1][1][2]
        IN  /\ DOMAIN http.incoming.headers = {<<http.msg, Name(i)>> : i \in DOMAIN sent}
            /\ \A i \in DOMAIN sent :
                  (\A j \in DOMAIN sent : j > i => Name(j) # Name(i)) =>
                      http.incoming.headers[<<http.msg, Name(i)>>] = sent[i][2]

\* docs/api/HTTP.md:332, message.url: "Requests URL as `string`".  The url of a
\* request is the one that its client sent.
UrlIsTheRequests ==
    http.parsed /\ http.type = "request" => http.incoming.url = http.want.url
=============================================================================
