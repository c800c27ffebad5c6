--------------------------- MODULE ClientProofs ---------------------------
(***************************************************************************)
(* What clients get from the store: the answer to a request like theirs,   *)
(* with the age it really has, and after a validation the current one.     *)
(***************************************************************************)
EXTENDS CacheSteps

(******************** The course of a client's request ********************)

HandlerLabels == {"idle", "lookup", "validate", "proxy", "write", "update", "save", "done"}

(* The entry that is validated is the one the conditional request is about. *)
Validates(p, e) ==
  /\ found[p] = {e}
  /\ Like(GetKeyPrefix(req[p]), e.key) /\ Selected(req[p], e)
  /\ fetch[p].out = generateConditionalRequest(req[p], e)

(* What a handler has in hand at each place of the code. *)
Course(p) ==
  /\ pc[p] \in HandlerLabels
  /\ pc[p] # "idle" => req[p] \in Requests
  /\ pc[p] \in {"idle", "lookup", "validate", "proxy"} => reply[p] = None
  /\ pc[p] = "lookup" => \A e \in found[p] : Like(GetKeyPrefix(req[p]), e.key)
  /\ pc[p] = "validate" => \E e \in found[p] : Validates(p, e)
  /\ pc[p] = "proxy" => fetch[p].out = req[p]
  /\ pc[p] = "write" => /\ reply[p].res = fetch[p].res
                        /\ fetch[p].out.method = req[p].method
                        /\ fetch[p].out.uri = req[p].uri
  /\ pc[p] \in {"write", "update", "save"} => reply[p].orig = req[p]
  /\ pc[p] = "done" => reply[p].sent

Courses == \A p \in Handlers : Course(p)

(* The request that validates e for q, field by field. *)
LEMMA ConditionalRequest ==
  ASSUME NEW q \in Requests, NEW e
  PROVE  LET c == generateConditionalRequest(q, e)
         IN /\ c.method = q.method /\ c.uri = q.uri
            /\ c.inm = IF "etag" \in e.res.hdr.validators THEN e.res.seen[e.key.uri] ELSE q.inm
            /\ c.ims = IF "lm" \in e.res.hdr.validators THEN e.res.seen[e.key.uri] ELSE q.ims
  BY SiteAssumption DEF generateConditionalRequest

(* Every step keeps a handler on its course. *)
LEMMA NextCourse ==
  ASSUME TypeOK, [Next]_vars, NEW p \in Handlers, Course(p)
  PROVE  Course(p)'
  <1>1. /\ p \in Procs /\ p # Updater /\ p \notin Delayed
        /\ DOMAIN pc = Procs /\ DOMAIN fetch = Procs /\ DOMAIN req = Handlers
        /\ DOMAIN found = Handlers /\ DOMAIN todo = Handlers /\ DOMAIN reply = Handlers
        /\ DOMAIN since = Handlers
    BY SiteAssumption DEF TypeOK, Procs
  <1> USE DEF HandlerLabels
  <1>2. CASE Still(p)
    BY <1>2 DEF Still, Course, Validates
  <1>3. CASE Crash
    <2>1. pc'[p] = "idle" /\ reply'[p] = None
      BY <1>1, <1>3 DEF Crash, Start
    <2> QED
      BY <2>1 DEF Course
  <1>4. CASE OriginStep(p)
    <2>1. PICK res : OriginAnswered(p, res)
      BY <1>1, <1>4, OriginAnswers
    <2>2. pc[p] # "write" /\ IsFetch(fetch[p])
      BY <1>1, <2>1 DEF OriginAnswered, InFlight, Arrived, TypeOK
    <2>3. fetch'[p].out = fetch[p].out /\ UNCHANGED <<pc, req, found, reply>>
      BY <1>1, <2>1, <2>2 DEF OriginAnswered, IsFetch
    <2> QED
      BY <2>2, <2>3 DEF Course, Validates
  <1>5. ASSUME NEW q \in Requests, ServeHTTP(p, q) PROVE Course(p)'
    <2>1. PICK rows \in getResponsesForUri(q) : found' = [found EXCEPT ![p] = rows]
      BY <1>5 DEF ServeHTTP
    <2>2. \A e \in rows : Like(GetKeyPrefix(q), e.key)
      BY DEF getResponsesForUri, All
    <2>3. pc'[p] = "lookup" /\ req'[p] = q /\ found'[p] = rows /\ reply'[p] = None
      BY <1>1, <1>5, <2>1 DEF ServeHTTP, Course
    <2> QED
      BY <2>2, <2>3 DEF Course
  <1>6. CASE SendStoredResponse(p)
    <2>1. PICK e \in found[p] : reply' = [reply EXCEPT ![p] = StoredReply("hit", e, e.res)]
      BY <1>6 DEF SendStoredResponse
    <2>2. reply'[p].sent /\ pc'[p] = "done" /\ req'[p] = req[p] /\ pc[p] = "lookup"
      BY <1>1, <1>6, <2>1 DEF SendStoredResponse, StoredReply
    <2> QED
      BY <2>2 DEF Course
  <1>7. CASE SendValidationRequest(p)
    <2>1. PICK e \in found[p] :
            /\ MustNotReuse(req[p], e, now) = "validate"
            /\ found' = [found EXCEPT ![p] = {e}]
            /\ Fetch(p, generateConditionalRequest(req[p], e))
      BY <1>7 DEF SendValidationRequest
    <2>2. Selected(req[p], e) /\ Like(GetKeyPrefix(req[p]), e.key)
      BY <1>7, <2>1 DEF MustNotReuse, Course, SendValidationRequest
    <2>3. /\ found'[p] = {e} /\ fetch'[p].out = generateConditionalRequest(req[p], e)
          /\ pc'[p] = "validate" /\ req'[p] = req[p] /\ reply'[p] = reply[p] /\ pc[p] = "lookup"
      BY <1>1, <1>7, <2>1 DEF SendValidationRequest, Fetch
    <2> QED
      BY <2>2, <2>3 DEF Course, Validates
  <1>8. CASE Proxy(p)
    <2>1. /\ fetch'[p].out = req[p] /\ pc'[p] = "proxy"
          /\ req'[p] = req[p] /\ reply'[p] = reply[p] /\ pc[p] = "lookup"
      BY <1>1, <1>8 DEF Proxy, Fetch
    <2> QED
      BY <2>1 DEF Course
  <1>9. CASE ValidationSucceeded(p)
    <2>1. PICK e \in found[p] :
            reply' = [reply EXCEPT ![p] = StoredReply("validated", e, fetch[p].res)]
      BY <1>9 DEF ValidationSucceeded
    <2>2. reply'[p].sent /\ pc'[p] = "done" /\ req'[p] = req[p] /\ pc[p] = "validate"
      BY <1>1, <1>9, <2>1 DEF ValidationSucceeded, StoredReply
    <2> QED
      BY <2>2 DEF Course
  <1>10. CASE ValidationFailed(p) \/ ProxyDone(p)
    <2>1. /\ reply'[p].res = fetch[p].res /\ reply'[p].orig = req[p]
          /\ pc'[p] = "write" /\ req'[p] = req[p] /\ fetch'[p] = fetch[p]
          /\ pc[p] \in {"validate", "proxy"}
      BY <1>1, <1>10 DEF ValidationFailed, ProxyDone, Reply
    <2>2. fetch[p].out.method = req[p].method /\ fetch[p].out.uri = req[p].uri
      <3>1. CASE pc[p] = "validate"
        BY <3>1, ConditionalRequest DEF Course, Validates
      <3>2. CASE pc[p] = "proxy"
        BY <3>2 DEF Course
      <3> QED
        BY <2>1, <3>1, <3>2
    <2> QED
      BY <2>1, <2>2 DEF Course
  <1>11. CASE ProxyAborted(p)
    <2>1. reply'[p].sent /\ pc'[p] = "done" /\ req'[p] = req[p] /\ pc[p] = "proxy"
      BY <1>1, <1>11 DEF ProxyAborted, Reply
    <2> QED
      BY <2>1 DEF Course
  <1>12. CASE \/ updateResponseAndLocations(p) \/ invalidateUri(p) \/ revalidateUri(p)
              \/ saveUpdateNow(p) \/ (\E d \in Delayed : saveUpdateLater(p, d)) \/ Saved(p)
    <2>1. pc[p] \in {"write", "update", "save"} /\ req'[p] = req[p] /\ reply'[p] = reply[p]
      BY <1>12 DEF updateResponseAndLocations, invalidateUri, revalidateUri, saveUpdateNow,
         saveUpdateLater, Saved, Pending
    <2>2. pc'[p] \in {"update", "save"}
      BY <1>1, <1>12 DEF updateResponseAndLocations, invalidateUri, revalidateUri, saveUpdateNow,
         saveUpdateLater, Saved, Pending
    <2> QED
      BY <2>1, <2>2 DEF Course
  <1>13. CASE UpdatesDone(p)
    <2>1. IsReply(reply[p]) /\ pc[p] = "update"
      BY <1>13 DEF UpdatesDone, TypeOK
    <2>2. reply'[p].sent /\ pc'[p] = "done" /\ req'[p] = req[p]
      BY <1>1, <1>13, <2>1 DEF UpdatesDone, IsReply
    <2> QED
      BY <2>1, <2>2 DEF Course
  <1>14. CASE Finish(p)
    <2>1. pc'[p] = "idle" /\ reply'[p] = None
      BY <1>1, <1>14 DEF Finish
    <2> QED
      BY <2>1 DEF Course
  <1> QED
    BY <1>2, <1>3, <1>4, <1>5, <1>6, <1>7, <1>8, <1>9, <1>10, <1>11, <1>12, <1>13, <1>14,
       HandlerFrame DEF HandlerStep

(************************* Where responses come from **********************)

(* What the ResponseSaver of a request has recorded is an answer that the    *)
(* origin gives to it, or the 502 of an unreachable origin.                  *)
FromOrigin(f) ==
  \/ f.res.status = 502 /\ f.res.hdr = EmptyHeader
  \/ \E r \in Answers(f.out) :
       /\ f.res.hdr = r.hdr
       /\ f.res.status = IF NotModified(f.out, r, f.res.seen) THEN 304 ELSE r.status

(* A row is under the key of the request it answers, with the fields its     *)
(* Vary selects, and holds an answer of the origin to that request.          *)
Genuine(e) ==
  /\ e.key = AddVaryKeys(GetKeyPrefix(e.orig), e.orig, e.res.hdr)
  /\ \E r \in Answers(e.orig) : e.res.hdr = r.hdr

Origins ==
  /\ \A e \in store : Genuine(e)
  /\ \A p \in Handlers : \A e \in found[p] : Genuine(e)
  /\ \A p \in Procs : Arrived(p) => FromOrigin(fetch[p])

(* Rows, entries found and recorded responses keep coming from the origin. *)
LEMMA NextOrigins ==
  ASSUME TypeOK, Courses, Origins, [Next]_vars
  PROVE  Origins'
  <1>1. ASSUME NEW e \in store' PROVE Genuine(e)
    <2>1. CASE e \in store
      BY <2>1 DEF Origins
    <2>2. CASE e \notin store
      <3>1. PICK p, q : p \in Procs /\ Stores(p, q) /\ e = CacheEntry(q, fetch[p])
        BY <2>2, StoreStep
      <3>2. e.key = AddVaryKeys(GetKeyPrefix(q), q, fetch[p].res.hdr) /\ e.orig = q
            /\ e.res = fetch[p].res
        BY <3>1 DEF CacheEntry
      <3>3. Answers(q) = Answers(fetch[p].out)
        BY <3>1 DEF Stores, Courses, Course, Answers
      <3>4. FromOrigin(fetch[p]) /\ fetch[p].res.hdr # EmptyHeader
        BY <3>1 DEF Stores, Origins, MustNotStore
      <3> QED
        BY <3>2, <3>3, <3>4 DEF FromOrigin, Genuine
    <2> QED
      BY <2>1, <2>2
  <1>2. ASSUME NEW p \in Handlers, NEW e \in found'[p] PROVE Genuine(e)
    BY FoundStep DEF Origins
  <1>3. ASSUME NEW p \in Procs, Arrived(p)' PROVE FromOrigin(fetch[p])'
    <2>1. CASE Arrived(p) /\ fetch'[p] = fetch[p]
      BY <2>1 DEF Origins, FromOrigin
    <2>2. CASE OriginStep(p)
      <3>1. PICK res : OriginAnswered(p, res)
        BY <2>2, OriginAnswers
      <3>2. IsFetch(fetch[p]) /\ DOMAIN fetch = Procs
        BY <3>1 DEF OriginAnswered, InFlight, TypeOK
      <3>3. fetch'[p].out = fetch[p].out /\ fetch'[p].res = res
        BY <3>1, <3>2 DEF OriginAnswered, IsFetch
      <3> QED
        BY <3>1, <3>3 DEF OriginAnswered, FromOrigin
    <2> QED
      BY <1>3, <2>1, <2>2, FetchStep
  <1> QED
    BY <1>1, <1>2, <1>3 DEF Origins, Genuine

(*********************** Answers out of the store *************************)

(* e is sent to the client of p, as a hit or because it has been validated. *)
SendsStored(p, e) ==
  /\ e \in found[p] /\ req'[p] = req[p]
  /\ Like(GetKeyPrefix(req[p]), e.key) /\ Selected(req[p], e)
  /\ \/ /\ MustNotReuse(req[p], e, now) = "reuse"
        /\ reply'[p] = StoredReply("hit", e, e.res)
     \/ /\ pc[p] = "validate" /\ Arrived(p) /\ fetch[p].res.status = 304 /\ Validates(p, e)
        /\ reply'[p] = StoredReply("validated", e, fetch[p].res)

(* A client has an answer from the store because it had it, or because its   *)
(* handler has just sent it.                                                 *)
LEMMA AnswerStep ==
  ASSUME TypeOK, [Next]_vars, NEW p \in Handlers, Course(p), FromStore(p)'
  PROVE  \/ FromStore(p) /\ reply'[p] = reply[p] /\ req'[p] = req[p]
         \/ \E e : SendsStored(p, e)
  <1>1. DOMAIN reply = Handlers /\ DOMAIN req = Handlers
    BY DEF TypeOK
  <1> USE DEF FromStore
  <1>2. ASSUME NEW q \in Requests, ServeHTTP(p, q) PROVE FALSE
    BY <1>2 DEF ServeHTTP, Course
  <1>3. CASE Finish(p) \/ Crash
    BY <1>1, <1>3 DEF Finish, Crash
  <1>4. CASE OriginStep(p)
    BY <1>4 DEF OriginStep, OriginResponds, OriginFails
  <1>5. CASE SendStoredResponse(p)
    <2>1. PICK e \in found[p] : /\ MustNotReuse(req[p], e, now) = "reuse"
                                /\ reply' = [reply EXCEPT ![p] = StoredReply("hit", e, e.res)]
      BY <1>5 DEF SendStoredResponse
    <2>2. reply'[p] = StoredReply("hit", e, e.res)
      BY <1>1, <2>1
    <2>3. Like(GetKeyPrefix(req[p]), e.key) /\ Selected(req[p], e) /\ req'[p] = req[p]
      BY <1>5, <2>1 DEF SendStoredResponse, Course, MustNotReuse
    <2> QED
      BY <2>1, <2>2, <2>3 DEF SendsStored
  <1>6. CASE ValidationSucceeded(p)
    <2>1. PICK e \in found[p] :
            reply' = [reply EXCEPT ![p] = StoredReply("validated", e, fetch[p].res)]
      BY <1>6 DEF ValidationSucceeded
    <2>2. reply'[p] = StoredReply("validated", e, fetch[p].res)
      BY <1>1, <2>1
    <2>3. /\ pc[p] = "validate" /\ Arrived(p) /\ fetch[p].res.status = 304
          /\ req'[p] = req[p]
      BY <1>6 DEF ValidationSucceeded
    <2>4. Validates(p, e)
      BY <2>3 DEF Course, Validates
    <2> QED
      BY <2>2, <2>3, <2>4 DEF SendsStored, Validates
  <1>7. CASE UNCHANGED <<req, reply>>
    BY <1>7
  <1>8. CASE ValidationFailed(p) \/ ProxyDone(p) \/ ProxyAborted(p)
    BY <1>1, <1>8 DEF ValidationFailed, ProxyDone, ProxyAborted, Reply
  <1>9. CASE UpdatesDone(p)
    <2>1. reply[p].from \in {"origin", "replaced"} /\ IsReply(reply[p])
      BY <1>9 DEF UpdatesDone, TypeOK
    <2> QED
      BY <1>1, <1>9, <2>1 DEF UpdatesDone, IsReply
  <1>10. HandlerStep(p) =>
           \/ Finish(p) \/ SendStoredResponse(p) \/ ValidationSucceeded(p) \/ ValidationFailed(p)
           \/ ProxyDone(p) \/ ProxyAborted(p) \/ UpdatesDone(p) \/ UNCHANGED <<req, reply>>
    BY DEF HandlerStep, SendValidationRequest, Proxy, updateResponseAndLocations, invalidateUri,
       revalidateUri, saveUpdateNow, saveUpdateLater, Saved
  <1> QED
    BY <1>2, <1>3, <1>4, <1>5, <1>6, <1>7, <1>8, <1>9, <1>10, HandlerFrame DEF Still

(* The invariant behind all of what follows. *)
CInv == IInv /\ Courses /\ Origins

(* A cache starts with no request in progress and no rows. *)
LEMMA InitCInv == Init => CInv
  <1> SUFFICES ASSUME Init PROVE CInv
    OBVIOUS
  <1>1. \A p \in Procs : pc[p] \in {"idle", "off", "poll"}
    BY DEF Init, Start
  <1>2. \A p \in Handlers : pc[p] = "idle" /\ reply[p] = None /\ found[p] = {}
    BY SiteAssumption DEF Init, Start, Procs
  <1>3. Courses
    BY <1>2 DEF Courses, Course, HandlerLabels
  <1>4. Origins
    BY <1>1, <1>2 DEF Init, Origins, Arrived, Fetching
  <1> QED
    BY <1>3, <1>4, InitIInv DEF CInv

(* CInv is inductive. *)
LEMMA NextCInv == CInv /\ [Next]_vars => CInv'
  <1> SUFFICES ASSUME CInv, [Next]_vars PROVE CInv'
    OBVIOUS
  <1>1. IInv' /\ TypeOK
    BY NextIInv DEF CInv, IInv
  <1>2. Courses'
    BY <1>1, NextCourse DEF CInv, Courses
  <1>3. Origins'
    BY <1>1, NextOrigins DEF CInv
  <1> QED
    BY <1>1, <1>2, <1>3 DEF CInv

(* The Age that a client reads on a stored response, of any date, through    *)
(* any number of upstream caches and however long the fetch took, is at most *)
(* half a second less than its true age (AddAgeHeader).                      *)
THEOREM AgeIsTold == Spec => []AgeTold
  <1>1. Init => AgeTold
    BY DEF Init, AgeTold, FromStore
  <1>2. CInv /\ AgeTold /\ [Next]_vars => AgeTold'
    <2> SUFFICES ASSUME CInv, AgeTold, [Next]_vars, NEW p \in Handlers,
                        FromStore(p)', reply'[p].res.hdr.dated
                 PROVE  2 * TrueAge(reply'[p].res, reply'[p].at) <= Second * (2 * reply'[p].age + 1)
      BY DEF AgeTold
    <2>1. TypeOK /\ Course(p)
      BY DEF CInv, IInv, Courses
    <2>2. CASE FromStore(p) /\ reply'[p] = reply[p]
      BY <2>2 DEF AgeTold
    <2>3. ASSUME NEW e, SendsStored(p, e)
          PROVE  2 * TrueAge(reply'[p].res, reply'[p].at) <= Second * (2 * reply'[p].age + 1)
      <3> DEFINE d == current_age(e.res, e.receivedAt, e.requestedAt, now)
      <3>1. IsEntry(e) /\ EntryStamps(e) /\ now \in Time
        BY <2>3 DEF SendsStored, CInv, IInv, TypeOK, Stamps
      <3>2. reply'[p].res = e.res /\ reply'[p].at = now /\ reply'[p].age = toDeltaSeconds(d)
        BY <2>3 DEF SendsStored, StoredReply, AddAgeHeader
      <3>3. /\ MaxTime \in Nat /\ MaxTime <= MaxDuration
            /\ Second * e.res.age + MaxTime <= MaxDuration
            /\ e.res.age \in {Absent} \cup Nat
        BY <3>1, BoundAssumption, TimeAssumption DEF IsEntry, IsResponse, Response
      <3>4. /\ now \in Nat /\ now <= MaxTime
            /\ e.requestedAt \in Nat /\ e.requestedAt <= MaxTime
            /\ e.receivedAt \in Nat /\ e.receivedAt <= now
            /\ e.res.at \in Int /\ e.requestedAt <= e.res.at
        BY <3>1, <3>3 DEF IsEntry, IsResponse, Response, EntryStamps, Time
      <3>5. e.res.clock \in Int /\ MaxTime - e.res.clock <= MaxDuration /\ e.res.hdr.dated
        BY <3>1, <3>2 DEF IsEntry, IsResponse, Response
      <3>6. /\ TrueAge(e.res, now) \in Int /\ d \in Int /\ d >= 0 /\ d >= TrueAge(e.res, now)
        BY <3>3, <3>4, <3>5, AgeNotUnderestimated
      <3> HIDE DEF d
      <3>7. 2 * d <= Second * (2 * toDeltaSeconds(d) + 1)
        BY <3>6, RoundedToSeconds
      <3>8. Second * (2 * toDeltaSeconds(d) + 1) \in Int
        BY <3>6, TimeAssumption DEF toDeltaSeconds
      <3> QED
        BY <3>2, <3>6, <3>7, <3>8
    <2> QED
      BY <2>1, <2>2, <2>3, AnswerStep
  <1> QED
    BY <1>1, <1>2, InitCInv, NextCInv, PTL DEF Spec

(* A stored response goes only to requests like the one it answered: with    *)
(* its method and URI, and with the same first line, or the same lack, of    *)
(* every field its Vary names; for any LIKE that finds too much, any Vary    *)
(* list and any request headers.                                             *)
THEOREM HitsMatch == Spec => []HitMatchesRequest
  <1> DEFINE Matches(q, o, hdr) ==
        /\ q.method = o.method /\ q.uri = o.uri
        /\ UnsafeRequest(q) => HasDirective(hdr.cc, "safe")
        /\ \A i \in DOMAIN hdr.vary :
             /\ hdr.vary[i] # "*"
             /\ Get(q.header, hdr.vary[i]) = Get(o.header, hdr.vary[i])
             /\ FieldAbsent(q.header, hdr.vary[i]) <=> FieldAbsent(o.header, hdr.vary[i])
  <1>1. Init => HitMatchesRequest
    BY DEF Init, HitMatchesRequest, FromStore
  <1>2. CInv /\ HitMatchesRequest /\ [Next]_vars => HitMatchesRequest'
    <2> SUFFICES ASSUME CInv, HitMatchesRequest, [Next]_vars, NEW p \in Handlers, FromStore(p)'
                 PROVE  Matches(req'[p], reply'[p].orig, reply'[p].res.hdr)
      BY DEF HitMatchesRequest
    <2>1. TypeOK /\ Course(p)
      BY DEF CInv, IInv, Courses
    <2>2. CASE FromStore(p) /\ reply'[p] = reply[p] /\ req'[p] = req[p]
      BY <2>2 DEF HitMatchesRequest
    <2>3. ASSUME NEW e, SendsStored(p, e)
          PROVE  Matches(req'[p], reply'[p].orig, reply'[p].res.hdr)
      <3> DEFINE q == req[p]
                 hdr == e.res.hdr
                 rebuilt == GetRequestFromKey(e.key)
      <3>1. req'[p] = q /\ reply'[p].orig = e.orig /\ reply'[p].res.hdr = hdr
        BY <2>3 DEF SendsStored, StoredReply
      <3>2. IsEntry(e) /\ Genuine(e)
        BY <2>3 DEF SendsStored, CInv, IInv, TypeOK, Origins
      <3>3. /\ rebuilt = GetRequestFromKey(AddVaryKeys(GetKeyPrefix(e.orig), e.orig, hdr))
            /\ e.key.method = e.orig.method /\ e.key.uri = e.orig.uri
        BY <3>2 DEF Genuine, AddVaryKeys, GetKeyPrefix
      <3>4. q.method = e.orig.method /\ q.uri = e.orig.uri
        BY <2>3, <3>3 DEF SendsStored, Like, GetKeyPrefix, Selected, OriginalRequest,
           GetRequestFromKey
      <3>5. UnsafeRequest(q) => HasDirective(hdr.cc, "safe")
        BY <2>3 DEF SendsStored, Selected, mustWriteThrough
      <3>6. \A i \in DOMAIN hdr.vary :
              /\ Get(q.header, hdr.vary[i]) = Get(rebuilt.header, hdr.vary[i])
              /\ FieldAbsent(q.header, hdr.vary[i]) = FieldAbsent(rebuilt.header, hdr.vary[i])
              /\ hdr.vary[i] # "*"
        BY <2>3 DEF SendsStored, Selected, headerFieldsMatch, OriginalRequest
      <3>7. hdr.vary \in Seq(Field \cup {"*"})
        BY <3>2 DEF IsEntry, IsResponse, Response, Header
      <3>8. \A i \in DOMAIN hdr.vary :
              /\ FieldAbsent(rebuilt.header, hdr.vary[i]) <=> FieldAbsent(e.orig.header, hdr.vary[i])
              /\ Get(rebuilt.header, hdr.vary[i]) = Get(e.orig.header, hdr.vary[i])
        BY <3>3, <3>7, VaryRoundTrip
      <3> HIDE DEF rebuilt, hdr, q
      <3> QED
        BY <3>1, <3>4, <3>5, <3>6, <3>8
    <2> QED
      BY <2>1, <2>2, <2>3, AnswerStep
  <1> QED
    BY <1>1, <1>2, InitCInv, NextCInv, PTL DEF Spec

(************************* The origin's states ****************************)

(* A response shows nothing newer than a state of the origin, or nothing     *)
(* older.                                                                    *)
NotAfter(res, state) == \A u \in URI : res.seen[u] <= state[u]
NotBefore(res, state) == \A u \in URI : state[u] <= res.seen[u]

(* Nothing in the cache is ahead of the origin. *)
Past ==
  /\ \A e \in store : NotAfter(e.res, version)
  /\ \A p \in Handlers : \A e \in found[p] : NotAfter(e.res, version)
  /\ \A p \in Procs : Arrived(p) => NotAfter(fetch[p].res, version)
  /\ \A p \in Handlers :
       pc[p] \in {"write", "update", "save", "done"} => NotAfter(reply[p].res, version)

(* What is not ahead of the origin stays so: its resources only move on. *)
LEMMA StaysPast ==
  ASSUME TypeOK, [Next]_vars, NEW res, IsResponse(res), NotAfter(res, version)
  PROVE  NotAfter(res, version')
  <1>1. /\ version \in [URI -> 0..MaxVersion] /\ version' \in [URI -> 0..MaxVersion]
        /\ \A u \in URI : version[u] <= version'[u]
    BY VersionStep
  <1>2. res.seen \in [URI -> 0..MaxVersion] /\ MaxVersion \in Nat
    BY BoundAssumption DEF IsResponse, Response
  <1> QED
    BY <1>1, <1>2 DEF NotAfter

(* Nothing gets ahead of the origin. *)
LEMMA NextPast ==
  ASSUME TypeOK, Courses, Past, [Next]_vars
  PROVE  Past'
  <1>1. version' \in [URI -> 0..MaxVersion] /\ MaxVersion \in Nat
    BY VersionStep, BoundAssumption
  <1>2. ASSUME NEW e \in store' PROVE NotAfter(e.res, version')
    <2>1. CASE e \in store
      BY <2>1, StaysPast DEF Past, TypeOK, IsEntry
    <2>2. CASE e \notin store
      <3>1. PICK p, q : p \in Procs /\ Stores(p, q) /\ e = CacheEntry(q, fetch[p]) /\ version' = version
        BY <2>2, StoreStep
      <3> QED
        BY <3>1 DEF CacheEntry, Stores, Past
    <2> QED
      BY <2>1, <2>2
  <1>3. ASSUME NEW p \in Handlers, NEW e \in found'[p] PROVE NotAfter(e.res, version')
    BY FoundStep, StaysPast DEF Past, TypeOK, IsEntry
  <1>4. ASSUME NEW p \in Procs, Arrived(p)' PROVE NotAfter(fetch'[p].res, version')
    <2>1. CASE Arrived(p) /\ fetch'[p] = fetch[p]
      BY <2>1, StaysPast DEF Past, Arrived, TypeOK, IsFetch
    <2>2. CASE OriginStep(p)
      <3>1. PICK res : OriginAnswered(p, res)
        BY <2>2, OriginAnswers
      <3>2. IsFetch(fetch[p]) /\ DOMAIN fetch = Procs
        BY <3>1 DEF OriginAnswered, InFlight, TypeOK
      <3>3. fetch'[p].res.seen = version'
        BY <3>1, <3>2 DEF OriginAnswered, IsFetch
      <3> QED
        BY <1>1, <3>3 DEF NotAfter
    <2> QED
      BY <1>4, <2>1, <2>2, FetchStep
  <1>5. ASSUME NEW p \in Handlers, pc'[p] \in {"write", "update", "save", "done"}
        PROVE  NotAfter(reply'[p].res, version')
    <2>1. DOMAIN reply = Handlers /\ DOMAIN pc = Procs /\ p \in Procs /\ p \notin Delayed
      BY SiteAssumption DEF TypeOK, Procs
    <2>2. CASE pc[p] \in {"write", "update", "save", "done"} /\ reply'[p].res = reply[p].res
      <3>1. IsResponse(reply[p].res) /\ NotAfter(reply[p].res, version)
        BY <2>2 DEF Past, TypeOK, IsReply
      <3> QED
        BY <2>2, <3>1, StaysPast
    <2>3. CASE Arrived(p) /\ reply'[p].res = fetch[p].res
      <3>1. IsResponse(fetch[p].res) /\ NotAfter(fetch[p].res, version)
        BY <2>1, <2>3 DEF Past, TypeOK, Arrived, IsFetch
      <3> QED
        BY <2>3, <3>1, StaysPast
    <2>4. CASE \E e \in found[p] : reply'[p].res = e.res
      <3>1. PICK e \in found[p] : reply'[p].res = e.res
        BY <2>4
      <3>2. IsResponse(e.res) /\ NotAfter(e.res, version)
        BY DEF Past, TypeOK, IsEntry
      <3> QED
        BY <3>1, <3>2, StaysPast
    <2>5. ASSUME NEW q \in Requests, ServeHTTP(p, q) PROVE FALSE
      BY <1>5, <2>1, <2>5 DEF ServeHTTP
    <2>6. CASE Crash
      BY <1>5, <2>1, <2>6 DEF Crash, Start
    <2>7. CASE OriginStep(p)
      BY <1>5, <2>2, <2>7 DEF OriginStep, OriginResponds, OriginFails
    <2>8. CASE SendStoredResponse(p)
      <3>1. PICK e \in found[p] : reply' = [reply EXCEPT ![p] = StoredReply("hit", e, e.res)]
        BY <2>8 DEF SendStoredResponse
      <3>2. reply'[p].res = e.res
        BY <2>1, <3>1 DEF StoredReply
      <3> QED
        BY <2>4, <3>2
    <2>9. CASE ValidationSucceeded(p)
      <3>1. PICK e \in found[p] :
              reply' = [reply EXCEPT ![p] = StoredReply("validated", e, fetch[p].res)]
        BY <2>9 DEF ValidationSucceeded
      <3>2. reply'[p].res = e.res
        BY <2>1, <3>1 DEF StoredReply
      <3> QED
        BY <2>4, <3>2
    <2>10. CASE ValidationFailed(p) \/ ProxyDone(p) \/ ProxyAborted(p)
      BY <2>1, <2>3, <2>10 DEF ValidationFailed, ProxyDone, ProxyAborted, Reply
    <2>11. CASE UpdatesDone(p)
      <3>1. IsReply(reply[p]) /\ pc[p] = "update"
        BY <2>11 DEF UpdatesDone, TypeOK
      <3>2. reply'[p].res = reply[p].res
        BY <2>1, <2>11, <3>1 DEF UpdatesDone, IsReply
      <3> QED
        BY <2>2, <3>1, <3>2
    <2>12. CASE SendValidationRequest(p) \/ Proxy(p) \/ Finish(p)
      BY <1>5, <2>1, <2>12 DEF SendValidationRequest, Proxy, Finish
    <2>13. CASE \/ updateResponseAndLocations(p) \/ invalidateUri(p) \/ revalidateUri(p)
                \/ saveUpdateNow(p) \/ (\E d \in Delayed : saveUpdateLater(p, d)) \/ Saved(p)
      BY <2>2, <2>13 DEF updateResponseAndLocations, invalidateUri, revalidateUri,
         saveUpdateNow, saveUpdateLater, Saved, Pending
    <2> QED
      BY <1>5, <2>2, <2>5, <2>6, <2>7, <2>8, <2>9, <2>10, <2>11, <2>12, <2>13, HandlerFrame
      DEF HandlerStep, Still
  <1> QED
    BY <1>2, <1>3, <1>4, <1>5 DEF Past

(* What the origin answers to a client's request is at least as new as the   *)
(* state the client sent it in, and as the entry that is being validated.    *)
Timely(p) ==
  /\ pc[p] # "idle" => \A u \in URI : since[p][u] <= version[u]
  /\ pc[p] \in {"validate", "proxy"} /\ Arrived(p)
       => /\ NotBefore(fetch[p].res, since[p])
          /\ \A e \in found[p] : NotBefore(fetch[p].res, e.res.seen)
  /\ pc[p] \in {"write", "update", "save"} => NotBefore(reply[p].res, since[p])

(* No answer to a client falls behind the state its request was sent in. *)
LEMMA NextTimely ==
  ASSUME TypeOK, Past, Courses, [Next]_vars, NEW p \in Handlers, Timely(p)
  PROVE  Timely(p)'
  <1>1. /\ p \in Procs /\ p # Updater /\ p \notin Delayed
        /\ DOMAIN pc = Procs /\ DOMAIN fetch = Procs /\ DOMAIN since = Handlers
        /\ DOMAIN found = Handlers /\ DOMAIN reply = Handlers
    BY SiteAssumption DEF TypeOK, Procs
  <1>2. /\ version \in [URI -> 0..MaxVersion] /\ version' \in [URI -> 0..MaxVersion]
        /\ \A u \in URI : version[u] <= version'[u]
        /\ MaxVersion \in Nat
    BY VersionStep, BoundAssumption
  <1>3. ASSUME pc[p] # "idle" PROVE \A u \in URI : since[p][u] <= version'[u]
    <2>1. since[p] \in [URI -> 0..MaxVersion]
      BY <1>3 DEF TypeOK
    <2> QED
      BY <1>2, <1>3, <2>1 DEF Timely
  <1> USE DEF NotBefore
  <1>4. CASE Still(p)
    BY <1>3, <1>4 DEF Still, Timely, Arrived, Fetching
  <1>5. CASE Crash
    BY <1>1, <1>5 DEF Crash, Start, Timely
  <1>6. CASE OriginStep(p)
    <2>1. PICK res : OriginAnswered(p, res)
      BY <1>1, <1>6, OriginAnswers
    <2>2. IsFetch(fetch[p]) /\ pc[p] # "write" /\ pc[p] # "idle"
      BY <1>1, <2>1 DEF OriginAnswered, InFlight, Arrived, TypeOK, Fetching
    <2>3. fetch'[p].res.seen = version' /\ UNCHANGED <<pc, reply, found, since>>
      BY <1>1, <2>1, <2>2 DEF OriginAnswered, IsFetch
    <2>4. \A e \in found[p] : NotAfter(e.res, version')
      BY StaysPast DEF Past, TypeOK, IsEntry
    <2>5. \A u \in URI : since[p][u] <= version'[u]
      BY <1>3, <2>2
    <2> QED
      BY <2>2, <2>3, <2>4, <2>5 DEF Timely, NotAfter
  <1>7. ASSUME NEW q \in Requests, ServeHTTP(p, q) PROVE Timely(p)'
    <2>1. pc'[p] = "lookup" /\ since'[p] = version
      BY <1>1, <1>7 DEF ServeHTTP
    <2> QED
      BY <1>2, <2>1 DEF Timely
  <1>8. CASE SendStoredResponse(p) \/ ValidationSucceeded(p) \/ ProxyAborted(p) \/ UpdatesDone(p)
    <2>1. pc[p] # "idle" /\ pc'[p] = "done" /\ since'[p] = since[p]
      BY <1>1, <1>8 DEF SendStoredResponse, ValidationSucceeded, ProxyAborted, UpdatesDone, ghosts
    <2> QED
      BY <1>3, <2>1 DEF Timely
  <1>9. CASE SendValidationRequest(p) \/ Proxy(p)
    <2>1. PICK q : Fetch(p, q)
      BY <1>9 DEF SendValidationRequest, Proxy
    <2>2. pc[p] # "idle" /\ pc'[p] \in {"validate", "proxy"} /\ since'[p] = since[p]
      BY <1>1, <1>9 DEF SendValidationRequest, Proxy, ghosts
    <2>3. fetch'[p].res = None
      BY <1>1, <2>1 DEF Fetch
    <2> QED
      BY <1>3, <2>2, <2>3 DEF Timely, Arrived
  <1>10. CASE ValidationFailed(p) \/ ProxyDone(p)
    <2>1. /\ reply'[p].res = fetch[p].res /\ pc'[p] = "write" /\ since'[p] = since[p]
          /\ pc[p] \in {"validate", "proxy"} /\ Arrived(p)
      BY <1>1, <1>10 DEF ValidationFailed, ProxyDone, Reply, ghosts
    <2> QED
      BY <1>3, <2>1 DEF Timely
  <1>11. CASE \/ updateResponseAndLocations(p) \/ invalidateUri(p) \/ revalidateUri(p)
              \/ saveUpdateNow(p) \/ (\E d \in Delayed : saveUpdateLater(p, d)) \/ Saved(p)
    <2>1. pc[p] \in {"write", "update", "save"} /\ since'[p] = since[p] /\ reply'[p] = reply[p]
      BY <1>11 DEF updateResponseAndLocations, invalidateUri, revalidateUri, saveUpdateNow,
         saveUpdateLater, Saved, Pending, ghosts
    <2>2. pc'[p] \in {"update", "save"}
      BY <1>1, <1>11 DEF updateResponseAndLocations, invalidateUri, revalidateUri, saveUpdateNow,
         saveUpdateLater, Saved, Pending
    <2> QED
      BY <1>3, <2>1, <2>2 DEF Timely
  <1>12. CASE Finish(p)
    BY <1>1, <1>12 DEF Finish, Timely
  <1> QED
    BY <1>4, <1>5, <1>6, <1>7, <1>8, <1>9, <1>10, <1>11, <1>12, HandlerFrame DEF HandlerStep

(* The inductive invariant with the origin's states. *)
HInv == CInv /\ Past /\ \A p \in Handlers : Timely(p)

(* So nothing in it is ahead of the origin. *)
LEMMA InitHInv == Init => HInv
  <1> SUFFICES ASSUME Init PROVE HInv
    OBVIOUS
  <1>1. \A p \in Procs : pc[p] \in {"idle", "off", "poll"}
    BY DEF Init, Start
  <1>2. \A p \in Handlers : pc[p] = "idle" /\ found[p] = {}
    BY SiteAssumption DEF Init, Start, Procs
  <1>3. Past
    BY <1>1, <1>2 DEF Init, Past, Arrived, Fetching
  <1>4. \A p \in Handlers : Timely(p)
    BY <1>2 DEF Timely
  <1> QED
    BY <1>3, <1>4, InitCInv DEF HInv

(* HInv is inductive. *)
LEMMA NextHInv == HInv /\ [Next]_vars => HInv'
  <1> SUFFICES ASSUME HInv, [Next]_vars PROVE HInv'
    OBVIOUS
  <1>1. CInv' /\ TypeOK /\ Courses
    BY NextCInv DEF HInv, CInv, IInv
  <1>2. Past'
    BY <1>1, NextPast DEF HInv
  <1>3. \A p \in Handlers : Timely(p)'
    BY <1>1, NextTimely DEF HInv
  <1> QED
    BY <1>1, <1>2, <1>3 DEF HInv

(* An origin whose 304 answers mean something: it gives them only where a    *)
(* precondition asks for it, and everything it says of a resource carries    *)
(* the same validators.  An origin that drops the ETag of a page now and     *)
(* then makes the cache ask with the validator of the client, and take a 304 *)
(* about the client's copy for one about its own.                            *)
SoundOrigin ==
  \A r, s \in Replies :
    /\ r.status # 304
    /\ r.method = s.method /\ r.uri = s.uri => r.hdr.validators = s.hdr.validators

(* A stored response is sent after a 304 only if it shows the state in which *)
(* the origin gave that answer.                                              *)
LEMMA ValidatedEntry ==
  ASSUME HInv, SoundOrigin, NEW p \in Handlers, NEW e \in found[p], Validates(p, e),
         pc[p] = "validate", Arrived(p), fetch[p].res.status = 304
  PROVE  e.res.seen[req[p].uri] = fetch[p].res.seen[req[p].uri]
  <1> DEFINE q == req[p]
             out == fetch[p].out
             seen == fetch[p].res.seen
  <1>1. /\ q \in Requests /\ IsEntry(e) /\ Genuine(e) /\ IsResponse(fetch[p].res)
        /\ p \in Procs
    BY DEF HInv, CInv, IInv, TypeOK, Courses, Course, Origins, Arrived, IsFetch, Procs
  <1>2. /\ out.method = q.method /\ out.uri = q.uri
        /\ out.inm = IF "etag" \in e.res.hdr.validators THEN e.res.seen[e.key.uri] ELSE q.inm
        /\ out.ims = IF "lm" \in e.res.hdr.validators THEN e.res.seen[e.key.uri] ELSE q.ims
    BY <1>1, ConditionalRequest DEF Validates
  <1>3. /\ e.key.uri = q.uri /\ e.orig.uri = q.uri
        /\ e.orig.method = q.method /\ q.uri \in URI
    BY <1>1, SiteAssumption DEF Validates, Like, Selected, OriginalRequest, GetRequestFromKey,
       Genuine, AddVaryKeys, GetKeyPrefix
  <1>4. PICK r \in Answers(out) : NotModified(out, r, seen)
    <2>1. FromOrigin(fetch[p])
      BY <1>1 DEF HInv, CInv, Origins
    <2> QED
      BY <2>1 DEF FromOrigin, SoundOrigin, Answers
  <1>5. r.hdr.validators = e.res.hdr.validators
    BY <1>1, <1>2, <1>3 DEF Genuine, SoundOrigin, Answers
  <1>6. /\ e.res.seen \in [URI -> 0..MaxVersion] /\ seen \in [URI -> 0..MaxVersion]
        /\ MaxVersion \in Nat /\ e.res.seen[q.uri] <= seen[q.uri]
    BY <1>1, <1>3, BoundAssumption DEF IsEntry, IsResponse, Response, HInv, Timely, NotBefore
  <1>7. e.res.seen[q.uri] # None
    BY <1>3, <1>6, NoneAssumption
  <1>8. CASE "etag" \in e.res.hdr.validators
    BY <1>2, <1>3, <1>4, <1>7, <1>8 DEF NotModified
  <1>9. CASE "etag" \notin e.res.hdr.validators
    <2>1. "lm" \in e.res.hdr.validators /\ out.ims >= seen[q.uri]
      BY <1>2, <1>4, <1>5, <1>9 DEF NotModified
    <2> QED
      BY <1>2, <1>3, <1>6, <2>1
  <1> QED
    BY <1>8, <1>9

(* With such an origin, what a client gets after a validation is current     *)
(* (generateConditionalRequest, sendToClientIfValidationFailed), whatever    *)
(* validators the client's own request had.                                  *)
THEOREM ValidatedAreCurrent == SoundOrigin => (Spec => []ValidatedIsCurrent)
  <1> SUFFICES ASSUME SoundOrigin PROVE Spec => []ValidatedIsCurrent
    OBVIOUS
  <1>1. Init => ValidatedIsCurrent
    BY DEF Init, ValidatedIsCurrent
  <1>2. HInv /\ ValidatedIsCurrent /\ [Next]_vars => ValidatedIsCurrent'
    <2> SUFFICES ASSUME HInv, ValidatedIsCurrent, [Next]_vars, NEW p \in Handlers,
                        reply'[p] # None, reply'[p].from = "validated"
                 PROVE  reply'[p].res.seen[req'[p].uri] = reply'[p].checked.seen[req'[p].uri]
      BY DEF ValidatedIsCurrent
    <2>1. TypeOK /\ Course(p) /\ FromStore(p)'
      BY DEF HInv, CInv, IInv, Courses, FromStore
    <2>2. CASE FromStore(p) /\ reply'[p] = reply[p] /\ req'[p] = req[p]
      BY <2>2 DEF ValidatedIsCurrent
    <2>3. ASSUME NEW e, SendsStored(p, e)
          PROVE  reply'[p].res.seen[req'[p].uri] = reply'[p].checked.seen[req'[p].uri]
      <3>1. /\ pc[p] = "validate" /\ Arrived(p) /\ fetch[p].res.status = 304
            /\ Validates(p, e) /\ e \in found[p] /\ req'[p] = req[p]
            /\ reply'[p] = StoredReply("validated", e, fetch[p].res)
        BY <2>3 DEF SendsStored, StoredReply
      <3>2. reply'[p].res = e.res /\ reply'[p].checked = fetch[p].res
        BY <3>1 DEF StoredReply
      <3> QED
        BY <3>1, <3>2, ValidatedEntry
    <2> QED
      BY <2>1, <2>2, <2>3, AnswerStep
  <1> QED
    BY <1>1, <1>2, InitHInv, NextHInv, PTL DEF Spec
=============================================================================
