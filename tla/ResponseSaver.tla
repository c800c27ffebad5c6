--------------------------- MODULE ResponseSaver ---------------------------
(***************************************************************************)
(* pkg/response-writer-tee/tee.go.  A saver is written to like any         *)
(* http.ResponseWriter; it records what it is given and passes it on to    *)
(* the writer it wraps, w, as long as rw is TRUE (t.rw is not nil).        *)
(*                                                                         *)
(* A header is a function from the names of its fields to their lines, the *)
(* buffer b a sequence of heads and parts of the body.                     *)
(***************************************************************************)
EXTENDS Integers, Sequences

NoFields == [n \in {} |-> <<>>]

Values(header, name) == IF name \in DOMAIN header THEN header[name] ELSE <<>>

(* Adds the lines of src to those of dst. *)
copyHeader(dst, src) ==
  [n \in DOMAIN dst \cup DOMAIN src |-> Values(dst, n) \o Values(src, n)]

MessageHead(code, header) == [kind |-> "head", status |-> code, header |-> header]
Part(data) == [kind |-> "part", data |-> data]

IsFinal(out) == \E i \in DOMAIN out : out[i].kind = "head" /\ out[i].status >= 200

(************ The http.ResponseWriter of net/http: header, out *************)

NewWriter(header) == [header |-> header, out |-> <<>>]

(* A second final status is superfluous and ignored. *)
SendHead(w, code) ==
  IF IsFinal(w.out) THEN w
  ELSE [w EXCEPT !.out = Append(@, MessageHead(code, w.header))]

AddFields(w, fields) == [w EXCEPT !.header = copyHeader(@, fields)]

SendPart(w, data) ==
  LET begun == IF IsFinal(w.out) THEN w ELSE SendHead(w, 200)
  IN [begun EXCEPT !.out = Append(@, Part(data))]

(***************************** The saver **********************************)

NewResponseSaver(rw, w, statusFilter) ==
  [rw |-> rw, w |-> w, b |-> <<>>, header |-> NoFields,
   status |-> 0, wroteHeaders |-> FALSE, statusFilter |-> statusFilter]

(* Mutant: the fields are recorded after they were added to the wrapped writer's. *)
RecordsWrappedHeader(s, code) ==
  LET rw == s.rw /\ code # s.statusFilter
      header == IF rw THEN copyHeader(s.w.header, s.header) ELSE s.header
  IN [s EXCEPT !.rw = rw, !.wroteHeaders = TRUE, !.status = code,
               !.b = Append(@, MessageHead(code, header)),
               !.w = IF rw THEN SendHead([@ EXCEPT !.header = header], code) ELSE @]

(* Mutant: no status is held back. *)
PassesFiltered(s, code) ==
  [s EXCEPT !.wroteHeaders = TRUE, !.status = code,
            !.b = Append(@, MessageHead(code, s.header)),
            !.w = IF s.rw THEN SendHead(AddFields(@, s.header), code) ELSE @]

WriteHeader(s, code) ==
  LET rw == s.rw /\ code # s.statusFilter
  IN [s EXCEPT !.rw = rw, !.wroteHeaders = TRUE, !.status = code,
               !.b = Append(@, MessageHead(code, s.header)),
               !.w = IF rw THEN SendHead(AddFields(@, s.header), code) ELSE @]

Write(s, data) ==
  LET begun == IF s.wroteHeaders THEN s ELSE WriteHeader(s, 200)
  IN [begun EXCEPT !.b = Append(@, Part(data)),
                   !.w = IF begun.rw THEN SendPart(@, data) ELSE @]

(* http.ReadResponse on what Response() has returned: the first head, and all *)
(* that follows it as the body unless the status or the method has none.      *)
BodyAllowed(method, status) == method # "HEAD" /\ status \notin {204, 304} \cup 100..199

ReadResponse(b, method) ==
  [status |-> b[1].status, header |-> b[1].header,
   body |-> IF BodyAllowed(method, b[1].status) THEN Tail(b) ELSE <<>>]
=============================================================================
