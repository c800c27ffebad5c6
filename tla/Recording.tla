----------------------------- MODULE Recording -----------------------------
(***************************************************************************)
(* One exchange with the origin, step by step: httputil.ReverseProxy       *)
(* writes the answer into a ResponseSaver, which passes it on to the       *)
(* client, and writeCache decides about it.  AlwaysCache takes all of this *)
(* for a response that arrives at once.                                    *)
(*                                                                         *)
(* The exchange is started by proxy (mode "proxy", the client's request),  *)
(* by sendToClientIfValidationFailed ("validate", where a 304 is held back *)
(* and a stored page is sent) or by saveRequest ("background", without a   *)
(* client).                                                                *)
(***************************************************************************)
EXTENDS Storing, CacheControlField, ResponseSaver

CONSTANTS
  Exchanges,  \* the exchanges: [mode, request]
  Responses,  \* what the origin may answer: [status, header, trailer]
  Hints,      \* the headers of interim responses
  StoredPage, \* the response being validated: [status, header, body]
  MaxParts    \* bound: the parts a body is received in

IsSequence(s) == s \in Seq({s[i] : i \in DOMAIN s})

(* Fields of a message: names with sequences of lines. *)
IsFields(h) ==
  /\ h = [n \in DOMAIN h |-> h[n]]
  /\ \A n \in DOMAIN h : IsSequence(h[n])
  /\ Values(h, "Cache-Control") \in CacheControlLines

ASSUME RecordingAssumption ==
  /\ \A e \in Exchanges : /\ {"mode", "request"} \subseteq DOMAIN e
                          /\ e.mode \in {"proxy", "validate", "background"}
  /\ \A r \in Responses : /\ {"status", "header", "trailer"} \subseteq DOMAIN r
                          /\ r.status \in 200..599
                          /\ IsFields(r.header) /\ IsFields(r.trailer)
  /\ \A h \in Hints : IsFields(h)
  /\ StoredPage.status \in 200..599 /\ IsFields(StoredPage.header)
  /\ MaxParts \in Nat

VARIABLES
  exchange,  \* the mode and the request
  pc,        \* where the exchange is
  saver,     \* the ResponseSaver, with the client's writer in it
  response,  \* the answer of the origin, as far as it has arrived
  parts,     \* how many parts of its body have arrived
  hinted,    \* ghost: an interim response came first
  whole,     \* ghost: the body did not break off
  row        \* what writeCache has put into the database

recordingVars == <<exchange, pc, saver, response, parts, hinted, whole, row>>

Mode == exchange.mode
Method == exchange.request.method

(* The field that proxy sets "on underlying rw only (i.e. do not save to      *)
(* cache)", and sendStoredResponse on the handler's writer.                   *)
CacheStatus(status) == [n \in {"Cache-Status"} |-> <<status>>]

(* The saver of proxy, sendToClientIfValidationFailed or saveRequest. *)
SaverFor(mode) ==
  CASE mode = "proxy" -> NewResponseSaver(TRUE, NewWriter(CacheStatus("fwd")), 0)
    [] mode = "validate" -> NewResponseSaver(TRUE, NewWriter(NoFields), 304)
    [] mode = "background" -> NewResponseSaver(FALSE, NewWriter(NoFields), 0)

Init ==
  /\ exchange \in Exchanges
  /\ pc = "sent"
  /\ saver = SaverFor(exchange.mode)
  /\ response = None /\ parts = 0
  /\ hinted = FALSE /\ whole = TRUE
  /\ row = None

(*********************** httputil.ReverseProxy *****************************)

(* Got1xxResponse writes an interim response and clears the header after it. *)
EarlyHints ==
  /\ pc = "sent" /\ ~hinted
  /\ \E h \in Hints :
       saver' = [WriteHeader([saver EXCEPT !.header = copyHeader(@, h)], 103)
                   EXCEPT !.header = NoFields]
  /\ hinted' = TRUE
  /\ UNCHANGED <<exchange, pc, response, parts, whole, row>>

(* Announced trailers are listed in a field. *)
Announce(trailer) ==
  IF trailer = NoFields THEN NoFields ELSE [n \in {"Trailer"} |-> <<DOMAIN trailer>>]

HeadArrives ==
  /\ pc = "sent"
  /\ \E r \in Responses :
       LET header == copyHeader(r.header, Announce(r.trailer))
       IN /\ response' = [r EXCEPT !.header = header]
          /\ saver' = WriteHeader([saver EXCEPT !.header = copyHeader(@, header)], r.status)
  /\ pc' = "body"
  /\ UNCHANGED <<exchange, parts, hinted, whole, row>>

(* The default ErrorHandler. *)
Unreachable ==
  /\ pc = "sent"
  /\ response' = [status |-> 502, header |-> NoFields, trailer |-> NoFields]
  /\ saver' = WriteHeader(saver, 502)
  /\ pc' = "recorded"
  /\ UNCHANGED <<exchange, parts, hinted, whole, row>>

HasBody == BodyAllowed(Method, response.status)

BodyPart ==
  /\ pc = "body" /\ HasBody /\ parts < MaxParts
  /\ parts' = parts + 1
  /\ saver' = Write(saver, parts')
  /\ UNCHANGED <<exchange, pc, response, hinted, whole, row>>

(* Announced trailers go into the header of the writer. *)
BodyEnds ==
  /\ pc = "body"
  /\ saver' = [saver EXCEPT !.header = copyHeader(@, response.trailer)]
  /\ pc' = "recorded"
  /\ UNCHANGED <<exchange, response, parts, hinted, whole, row>>

(* A body that breaks off makes the proxy panic if the request is one of a   *)
(* server; the ones of validation and of saveRequest are not.                *)
BreaksOff ==
  /\ pc = "body" /\ HasBody
  /\ whole' = FALSE
  /\ pc' = IF Mode = "proxy" THEN "aborted" ELSE "recorded"
  /\ UNCHANGED <<exchange, saver, response, parts, hinted, row>>

(************************* When it has returned ****************************)

(* The header as the decisions read it. *)
HeaderOf(h) ==
  IF h = NoFields THEN EmptyHeader
  ELSE [EmptyHeader EXCEPT
          !.cc = ParseCacheControl(Values(h, "Cache-Control")),
          !.expires = IF Values(h, "Expires") = <<>> THEN "absent" ELSE Values(h, "Expires")[1],
          !.other = TRUE]

Refused == MustNotStore(exchange.request, saver.status, HeaderOf(saver.header))

(* sendToClientIfValidationFailed goes by the status it has recorded. *)
Validated == Mode = "validate" /\ saver.status = 304

writeCache ==
  /\ pc = "recorded" /\ ~Validated
  /\ row' = IF Refused THEN None ELSE saver.b
  /\ pc' = IF Refused THEN "refused" ELSE "stored"
  /\ UNCHANGED <<exchange, saver, response, parts, hinted, whole>>

(* sendStoredResponse with the handler's own writer. *)
sendStoredResponse ==
  /\ pc = "recorded" /\ Validated
  /\ LET header == copyHeader(copyHeader(saver.w.header, StoredPage.header), CacheStatus("hit"))
         begun == SendHead([saver.w EXCEPT !.header = header], StoredPage.status)
     IN saver' = [saver EXCEPT !.w = SendPart(begun, StoredPage.body)]
  /\ pc' = "validated"
  /\ UNCHANGED <<exchange, response, parts, hinted, whole, row>>

Over == pc \in {"aborted", "refused", "stored", "validated"} /\ UNCHANGED recordingVars

Next ==
  \/ EarlyHints \/ HeadArrives \/ Unreachable
  \/ BodyPart \/ BodyEnds \/ BreaksOff
  \/ writeCache \/ sendStoredResponse
  \/ Over

Spec == Init /\ [][Next]_recordingVars

(******************************* Properties ********************************)

Received == [i \in 1..parts |-> Part(i)]

(* What is stored reads back as what has arrived of the origin's answer: its  *)
(* status, exactly its header fields (no Cache-Status of this cache, no       *)
(* trailer) and its body, part by part.  The body of a client's own request   *)
(* (mode "proxy") is whole: if it breaks off, the reverse proxy panics past   *)
(* writeCache.  Two cases are not promised, because the code does otherwise:  *)
(* the answer to a validation or to a background fetch is stored although it  *)
(* broke off, and after an interim response the row reads back as that one.   *)
StoredIsWhatWasSent ==
  pc = "stored" /\ ~hinted =>
    /\ ReadResponse(row, Method) =
         [status |-> response.status, header |-> response.header, body |-> Received]
    /\ Mode = "proxy" => whole

(* What may be added to the fields of an answer: Cache-Status, and the fields *)
(* of an interim response, which come again.                                  *)
Added == {"Cache-Status"} \cup (IF hinted THEN UNION {DOMAIN h : h \in Hints} ELSE {})

(* The members stand side by side among the lines, in their order. *)
Preserves(lines, members) ==
  \E i \in 0..(Len(lines) - Len(members)) :
    \A j \in DOMAIN members : lines[i + j] = members[j]

(* A client gets exactly one answer after any interim response: the stored    *)
(* page if the origin has confirmed it, with nothing of the 304, and          *)
(* otherwise all that the origin has sent, field by field and in order.  The  *)
(* Cache-Status members of other caches are kept ("caches SHOULD preserve the *)
(* existing field value", 2._cache-status.go:112); where this cache puts its  *)
(* own and what it says there is not part of the property.  A background      *)
(* fetch has no client.                                                       *)
OneAnswer ==
  pc \in {"stored", "refused", "validated"} =>
    LET page == pc = "validated"
        answer == IF page THEN StoredPage ELSE response
        out == saver.w.out
    IN IF Mode = "background" THEN out = <<>>
       ELSE \E k \in DOMAIN out :
              /\ \A i \in 1..(k - 1) : out[i].kind = "head" /\ out[i].status < 200
              /\ out[k].kind = "head" /\ out[k].status = answer.status
              /\ \A n \in DOMAIN answer.header \ Added :
                   Values(out[k].header, n) = answer.header[n]
              /\ Preserves(Values(out[k].header, "Cache-Status"),
                           Values(answer.header, "Cache-Status"))
              /\ SubSeq(out, k + 1, Len(out))
                   = IF page THEN <<Part(StoredPage.body)>> ELSE Received

(* The rule of section 3 for the response as the origin sent it: its header,  *)
(* without the trailers, and what it meant by its Cache-Control.              *)
AllowedAsMeant ==
  RuleAllowsStoring(exchange.request, response.status,
    [HeaderOf(response.header) EXCEPT !.cc = Meant(Values(response.header, "Cache-Control"))])

(* The fields that decide about storing, if the trailer has them too, are     *)
(* merged into the header before writeCache reads it.                         *)
Overruled ==
  \E n \in {"Cache-Control", "Expires"} : Values(response.trailer, n) # <<>>

(* No response is refused that the rule of section 3 allows to store: neither *)
(* the parsing of a well-separated field, on however many lines, nor the      *)
(* chain of conditions in mustNotStore loses a cacheable response.  Responses *)
(* whose trailer repeats a deciding field are left out: the code lets it      *)
(* overrule the header.                                                       *)
RefusedOnlyWhenForbidden ==
  pc = "refused" /\ WellSeparated(Values(response.header, "Cache-Control")) /\ ~Overruled
    => ~AllowedAsMeant

(* The comment over the conditions: "A cache MUST NOT store a response to a   *)
(* request unless" every one of them holds.                                   *)
StoredOnlyWhenAllowed == pc = "stored" => AllowedAsMeant
=============================================================================
