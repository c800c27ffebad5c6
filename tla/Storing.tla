------------------------------ MODULE Storing ------------------------------
(***************************************************************************)
(* RFC 9111 section 3 as rfc9111/3.0_storing-responses-in-caches.go, 3.5   *)
(* and MustNotStore of rfc9111.go implement it: which responses are put    *)
(* into the cache.                                                         *)
(***************************************************************************)
EXTENDS HttpMessages

requestMethodIsUnderstood(method) == method \in {"GET", "POST"}

responseStatusCodeIsUnderstood(status) == status = 200

responseStatusCodeIsFinal(status) == status \in 200..599

statusCodeUnderstoodIfNeeded(status, cc) ==
  \/ status \notin {206, 304} /\ ~HasDirective(cc, "must-understand")
  \/ responseStatusCodeIsUnderstood(status)

mayUseResponseForAuthenticatedRequest(cc) ==
  HasDirective(cc, "public") \/ HasDirective(cc, "s-maxage")

(* Go's && binds tighter than ||: the conditions up to the Authorization    *)
(* check are one alternative, the ones from mayUseResponse... on the other. *)
mustNotStore(req, status, hdr) ==
  LET cc == hdr.cc
  IN ~ \/ /\ requestMethodIsUnderstood(req.method)
          /\ responseStatusCodeIsFinal(status)
          /\ statusCodeUnderstoodIfNeeded(status, cc)
          /\ ~HasDirective(cc, "no-store")
          /\ ~HasDirective(cc, "private")
          /\ ~req.auth
       \/ /\ mayUseResponseForAuthenticatedRequest(cc)
          /\ \/ HasDirective(cc, "public")
             \/ hdr.expires # "absent"
             \/ HasDirective(cc, "max-age")
             \/ HasDirective(cc, "s-maxage")

(* MustNotStore: a response without any header field is an error.  Its other *)
(* errors (no status, no request, no method) have no counterpart: the        *)
(* callers always set them.                                                  *)
MustNotStore(req, status, hdr) ==
  hdr = EmptyHeader \/ mustNotStore(req, status, hdr)

(* The rule as the comments of mustNotStore quote it from the RFC: "a cache  *)
(* MUST NOT store a response to a request unless" all of these hold.         *)
RuleAllowsStoring(req, status, hdr) ==
  LET cc == hdr.cc
  IN /\ requestMethodIsUnderstood(req.method)
     /\ responseStatusCodeIsFinal(status)
     /\ statusCodeUnderstoodIfNeeded(status, cc)
     /\ ~HasDirective(cc, "no-store")
     /\ ~HasDirective(cc, "private")
     /\ req.auth => mayUseResponseForAuthenticatedRequest(cc)
     /\ \/ HasDirective(cc, "public")
        \/ hdr.expires # "absent"
        \/ HasDirective(cc, "max-age")
        \/ HasDirective(cc, "s-maxage")
=============================================================================
