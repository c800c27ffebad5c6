---------------------------- MODULE MCRecording ----------------------------
(***************************************************************************)
(* Exchanges for TLC: every combination of directives on one line, some    *)
(* combinations in other layouts, with and without trailers.               *)
(***************************************************************************)
EXTENDS Recording, SequencesExt, TLC

Request(method, auth) == [method |-> method, auth |-> auth]

AllExchanges ==
  [mode : {"proxy"}, request : [method : {"GET", "HEAD", "POST"}, auth : BOOLEAN]]
  \cup [mode : {"validate"}, request : [method : {"GET"}, auth : BOOLEAN]]
  \cup [mode : {"background"}, request : {Request("GET", FALSE)}]

Sent == {"no-store", "private", "public", "must-understand", "max-age", "s-maxage"}

OneDirective(name) == [name |-> name, arg |-> IF name \in {"max-age", "s-maxage"} THEN 1 ELSE NoArg]

Listed(names) == LET s == SetToSeq(names) IN [i \in DOMAIN s |-> OneDirective(s[i])]

(* One line, a piece for each directive; a line for each; all in one piece. *)
OnOneLine(ds) == <<[i \in DOMAIN ds |-> <<ds[i]>>]>>
OnLines(ds) == [i \in DOMAIN ds |-> <<<<ds[i]>>>>]
Glued(ds) == <<<<ds>>>>

Fields ==
  {OnOneLine(Listed(names)) : names \in SUBSET Sent \ {{}}}
  \cup {OnLines(Listed(names)) : names \in {n \in SUBSET Sent : Cardinality(n) = 2}}
  \cup {Glued(Listed(names)) : names \in {n \in SUBSET {"private", "public", "max-age"} : Cardinality(n) = 2}}

CacheControlIs(lines) == "Cache-Control" :> lines
ExpiresLine == "Expires" :> <<"date">>

(* The origin repeats the field of its interim response, and a cache between *)
(* has left its mark.                                                        *)
Plain == "Link" :> <<"style">> @@ "Cache-Status" :> <<"upstream">>

Headers ==
  {copyHeader(Plain, copyHeader(cc, ex)) :
     cc \in {NoFields} \cup {CacheControlIs(f) : f \in Fields},
     ex \in {NoFields, ExpiresLine}}

(* A trailer may take back, or give, what the header says. *)
Trailers == {NoFields, CacheControlIs(OnOneLine(<<OneDirective("no-store")>>)),
             CacheControlIs(OnOneLine(<<OneDirective("max-age")>>))}

(* One status of each kind the code tells apart: understood or not, partial, *)
(* redirect, not modified.                                                   *)
AllResponses ==
  [status : {200, 206, 302, 304, 404}, header : Headers, trailer : {NoFields}]
  \cup [status : {200}, header : Headers, trailer : Trailers]

Links == {"Link" :> <<"style">>}

Page == [status |-> 200, header |-> Plain, body |-> 0]
=============================================================================
