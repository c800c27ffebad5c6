------------------------------- MODULE Reuse -------------------------------
(***************************************************************************)
(* RFC 9111 sections 4, 4.1, 4.3.1 and 4.4 as the code implements them:    *)
(* whether a stored response may answer a request, the conditional request *)
(* that validates it, and what a response to an unsafe request asks the    *)
(* cache to bring up to date.  An entry is a row of the database.          *)
(***************************************************************************)
EXTENDS Freshness, CacheKey

(* Mutant: an absent field equals an empty one. *)
AbsentMatchesEmpty(req, originalReq, hdr) ==
  \A i \in DOMAIN hdr.vary :
    /\ Get(req.header, hdr.vary[i]) = Get(originalReq.header, hdr.vary[i])
    /\ hdr.vary[i] # "*"

headerFieldsMatch(req, originalReq, hdr) ==
  \A i \in DOMAIN hdr.vary :
    LET name == hdr.vary[i]
    IN /\ Get(req.header, name) = Get(originalReq.header, name)
       /\ FieldAbsent(req.header, name) = FieldAbsent(originalReq.header, name)
       /\ name # "*"

mustWriteThrough(req, hdr) ==
  ~HasDirective(hdr.cc, "safe") /\ UnsafeRequest(req)

(* createStoredResponse: the request of a stored response comes from its key. *)
OriginalRequest(e) == GetRequestFromKey(e.key)

(* Whether a stored response is one for this request at all. *)
Selected(req, e) ==
  LET original == OriginalRequest(e)
  IN /\ ~mustWriteThrough(req, e.res.hdr)
     /\ req.uri = original.uri
     /\ headerFieldsMatch(req, original, e.res.hdr)

(* Mutant: staleness is left to the origin to announce. *)
OnlyNoCache(e, t) == HasDirective(e.res.hdr.cc, "no-cache")

NeedsValidation(e, t) ==
  \/ HasDirective(e.res.hdr.cc, "no-cache")
  \/ ~isFresh(e.res, e.receivedAt, e.requestedAt, t)

(* MustNotReuse with its three outcomes: not for this request (forward),     *)
(* usable once validated, usable.                                            *)
MustNotReuse(req, e, t) ==
  IF ~Selected(req, e) THEN "forward"
  ELSE IF NeedsValidation(e, t) THEN "validate"
  ELSE "reuse"

(* Mutant: the stored entity tag does not replace the client's. *)
KeepsClientTag(req, e) ==
  [req EXCEPT !.inm = IF @ = None /\ "etag" \in e.res.hdr.validators
                      THEN e.res.seen[e.key.uri] ELSE @]

(* The client's own request with the validators of the stored response: an   *)
(* entity tag, or the modification time of the state it was rendered from,   *)
(* replaces the client's own; without one the client's stays in place.       *)
generateConditionalRequest(req, e) ==
  LET tag == e.res.seen[e.key.uri]
  IN [req EXCEPT !.ims = IF "lm" \in e.res.hdr.validators THEN tag ELSE @,
                 !.inm = IF "etag" \in e.res.hdr.validators THEN tag ELSE @]

nonErrorResponse(res) == res.status \in 200..399

(* Mutant: Location and Content-Location are ignored. *)
OnlyTargetURI(req, res) ==
  IF UnsafeRequest(req) /\ nonErrorResponse(res) THEN <<req.uri>> ELSE <<>>

(* The target URI and the ones in Location and Content-Location. *)
GetInvalidateURIs(req, res) ==
  IF UnsafeRequest(req) /\ nonErrorResponse(res)
  THEN <<req.uri>> \o res.hdr.location
  ELSE <<>>

(* Mutant: updates with a delay get lost. *)
OnlyUpdatesNow(req, res) ==
  IF UnsafeRequest(req) THEN SelectSeq(res.hdr.updates, LAMBDA u : u.delay = 0) ELSE <<>>

GetCacheUpdates(req, res) ==
  IF UnsafeRequest(req) THEN res.hdr.updates ELSE <<>>
=============================================================================
