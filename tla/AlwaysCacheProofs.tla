------------------------- MODULE AlwaysCacheProofs -------------------------
(***************************************************************************)
(* The cache is type correct and serves nothing beyond its lifetime: for   *)
(* every number of clients and resources, every site, clock offset, length *)
(* of a second and pattern of failures.                                    *)
(*                                                                         *)
(* The inductive invariant is TypeOK /\ Stamps.  FreshHits itself is not   *)
(* inductive: that a row was requested before its response was generated   *)
(* has to be carried from the ResponseSaver (fetch) to the row (store) to  *)
(* the lookup (found), across any number of steps of other processes.      *)
(***************************************************************************)
EXTENDS AlwaysCache, RuleProofs

IInv == TypeOK /\ Stamps

(***************************** The parts of a step ************************)

(* The 502 of the reverse proxy has a header like any other. *)
LEMMA EmptyHeaderType == EmptyHeader \in Header
  BY DEF EmptyHeader, Header, HttpDate, NoDirectives, CacheControl, Absent

(* The expiry that writeCache stores is a time, with a Date or without. *)
LEMMA ExpirationType ==
  ASSUME NEW res, NEW t \in Int, res.hdr \in Header, res.clock \in Int
  PROVE  GetExpiration(res, t) \in Int
  <1> DEFINE cc == res.hdr.cc
  <1>1. /\ cc["s-maxage"] \in Int /\ cc["max-age"] \in Int
        /\ res.hdr.after \in Int
    BY DEF Header, CacheControl, Directives, Absent, NoArg
  <1>2. \A n \in Int : n >= 0 => deltaSeconds(n) \in Int
    <2>1. SUFFICES ASSUME NEW n \in Int, n >= 0 PROVE deltaSeconds(n) \in Int
      OBVIOUS
    <2>2. Second * n \in Nat
      BY <2>1, TimeAssumption
    <2> QED
      BY <2>2, WrapOnlyLowers DEF deltaSeconds
  <1>3. Second * res.hdr.after \in Int
    BY <1>1, TimeAssumption
  <1>4. freshness_lifetime(res, t) \in Int
    BY <1>1, <1>2, <1>3, TimeAssumption DEF freshness_lifetime, getExpires, HasSeconds, Sub
  <1> QED
    BY <1>4, TimeAssumption DEF GetExpiration

(* A new request through the proxy. *)
LEMMA FetchType ==
  ASSUME NEW q, IsRequest(q), now \in Time
  PROVE  LET f == [out |-> q, created |-> now, res |-> None]
         IN IsFetch(f) /\ f.created <= now /\ f.res = None
  BY DEF IsFetch, Time

(* The row that writeCache makes of a response is well formed and its        *)
(* timestamps enclose the response.                                          *)
LEMMA EntryType ==
  ASSUME NEW q, NEW f, IsRequest(q), IsFetch(f), f.res # None,
         now \in Time, f.created <= f.res.at, f.created <= now
  PROVE  IsEntry(CacheEntry(q, f)) /\ EntryStamps(CacheEntry(q, f))
  <1> DEFINE e == CacheEntry(q, f)
  <1>1. IsResponse(f.res) /\ f.created \in Time
    BY DEF IsFetch
  <1>2. IsRequest(e.key)
    BY DEF CacheEntry, AddVaryKeys, GetKeyPrefix, IsRequest
  <1>3. Time \subseteq Int /\ MaxTime \in Nat
    BY BoundAssumption DEF Time
  <1>4. e.expires \in Int
    <2>1. GetExpiration(f.res, now) \in Int
      BY <1>1, <1>3, ExpirationType DEF IsResponse, Response
    <2> QED
      BY <2>1, UnixFloor DEF CacheEntry
  <1>5. /\ Unix(f.created) \in Time /\ Unix(f.created) <= f.created
        /\ Unix(now) \in Time /\ Unix(now) <= now
    <2>1. /\ Unix(f.created) \in Int /\ Unix(f.created) <= f.created /\ Unix(f.created) >= 0
          /\ Unix(now) \in Int /\ Unix(now) <= now /\ Unix(now) >= 0
      BY <1>1, <1>3, UnixFloor DEF Time
    <2> QED
      BY <1>1, <1>3, <2>1 DEF Time
  <1>6. Unix(f.created) <= f.res.at
    BY <1>1, <1>3, <1>5 DEF IsResponse, Response, Time
  <1> QED
    BY <1>1, <1>2, <1>4, <1>5, <1>6 DEF CacheEntry, IsEntry, EntryStamps

(* Storing a response keeps every row of the table well formed. *)
LEMMA StoreType ==
  ASSUME NEW q, NEW f, NEW cached \in BOOLEAN,
         IsRequest(q), IsFetch(f), f.res # None,
         now \in Time, f.created <= f.res.at, f.created <= now,
         \A e \in store : IsEntry(e) /\ EntryStamps(e)
  PROVE  \A e \in writeCache(q, f, cached) : IsEntry(e) /\ EntryStamps(e)
  BY EntryType DEF writeCache, PutCE

(* The work that a response asks for is a list of items. *)
LEMMA WorkListType ==
  ASSUME NEW q, NEW res, IsRequest(q), IsResponse(res)
  PROVE  WorkList(q, res) \in Seq(Items)
  <1>1. GetInvalidateURIs(q, res) \in Seq(URI)
    <2>1. res.hdr.location \in Seq(URI) /\ q.uri \in URI
      BY DEF IsResponse, Response, Header, IsRequest
    <2>2. <<q.uri>> \in Seq(URI)
      BY <2>1
    <2> QED
      BY <2>1, <2>2 DEF GetInvalidateURIs
  <1>2. GetCacheUpdates(q, res) \in Seq(Updates)
    BY DEF GetCacheUpdates, IsResponse, Response, Header
  <1> DEFINE uris == GetInvalidateURIs(q, res)
             ups == GetCacheUpdates(q, res)
             first == [i \in DOMAIN uris |->
                         [kind |-> IF Legacy THEN "invalidate" ELSE "revalidate",
                          path |-> uris[i], delay |-> 0]]
             second == [i \in DOMAIN ups |->
                         [kind |-> "update", path |-> ups[i].path, delay |-> ups[i].delay]]
  <1>3. first \in Seq(Items)
    <2>1. /\ DOMAIN uris = 1..Len(uris) /\ Len(uris) \in Nat
          /\ \A i \in 1..Len(uris) : uris[i] \in URI
      BY <1>1
    <2> HIDE DEF uris
    <2>2. first \in [1..Len(uris) -> Items]
      BY <2>1 DEF Items
    <2> QED
      BY <2>1, <2>2
  <1>4. second \in Seq(Items)
    <2>1. /\ DOMAIN ups = 1..Len(ups) /\ Len(ups) \in Nat
          /\ \A i \in 1..Len(ups) : ups[i] \in Updates
      BY <1>2
    <2> HIDE DEF ups
    <2>2. second \in [1..Len(ups) -> Items]
      BY <2>1 DEF Items, Updates
    <2> QED
      BY <2>1, <2>2
  <1>5. first \o second \in Seq(Items)
    <2> HIDE DEF first, second
    <2> QED
      BY <1>3, <1>4
  <1> QED
    BY <1>5 DEF WorkList

(* The resources of the origin move on, one state at a time. *)
LEMMA VersionsMoveOn ==
  ASSUME TypeOK, NEW p \in Procs, OriginStep(p)
  PROVE  /\ version' \in [URI -> 0..MaxVersion]
         /\ \A u \in URI : version'[u] = version[u] \/ version'[u] = version[u] + 1
  <1>1. version' = version \/ \E uris : version' = Changed(uris)
    BY DEF OriginStep, OriginResponds, OriginFails
  <1> QED
    BY <1>1, BoundAssumption DEF Changed, TypeOK

(* What OriginResponds and OriginFails have in common: a response to the      *)
(* request of p arrives, with the state of the origin in it.                  *)
OriginAnswered(p, res) ==
  /\ InFlight(p)
  /\ IsResponse(res) /\ res.at = now /\ res.seen = version'
  /\ fetch' = [fetch EXCEPT ![p].res = res]
  /\ missed' = missed \cup Untold(p, res)
  /\ \/ res.status = 502 /\ res.hdr = EmptyHeader
     \/ \E r \in Answers(fetch[p].out) :
          /\ res.hdr = r.hdr
          /\ res.status = IF NotModified(fetch[p].out, r, version') THEN 304 ELSE r.status
  /\ UNCHANGED <<now, store, pc, req, found, todo, update, reply, owner, own, due, oldest, since>>

(* The Date of an answer is near enough to the clock to compute with. *)
LEMMA DateInRange ==
  ASSUME TypeOK, NEW skew \in Int, MaxTime + Second - skew <= MaxDuration
  PROVE  Unix(now + skew) \in Int /\ MaxTime - Unix(now + skew) <= MaxDuration
  <1>1. now + skew \in Int /\ now >= 0
    BY BoundAssumption DEF Time, TypeOK
  <1>2. Unix(now + skew) \in Int /\ now + skew < Unix(now + skew) + Second
    BY <1>1, UnixFloor
  <1> QED
    BY <1>1, <1>2, BoundAssumption, TimeAssumption DEF Time, TypeOK

(* Every answer of the origin, and the 502 that stands for none, is recorded  *)
(* as a response.                                                             *)
LEMMA OriginAnswers ==
  ASSUME TypeOK, NEW p \in Procs, OriginStep(p)
  PROVE  \E res : OriginAnswered(p, res)
  <1>0. version' \in [URI -> 0..MaxVersion]
    BY VersionsMoveOn
  <1>1. InFlight(p) /\ IsFetch(fetch[p]) /\ DOMAIN fetch = Procs
    BY DEF TypeOK, OriginStep, OriginResponds, OriginFails, InFlight
  <1>2. CASE OriginResponds(p)
    <2>1. PICK r \in Answers(fetch[p].out), skew \in Skews, age \in Ages,
               whole \in {TRUE} \cup (IF "truncated" \in Failures THEN {FALSE} ELSE {}) :
            /\ version' = Changed(r.changes)
            /\ fetch' = [fetch EXCEPT ![p].res =
                 [status |-> IF NotModified(fetch[p].out, r, version') THEN 304 ELSE r.status,
                  hdr    |-> r.hdr,
                  clock  |-> Unix(now + skew),
                  age    |-> age,
                  whole  |-> whole,
                  seen   |-> version',
                  at     |-> now]]
      BY <1>2 DEF OriginResponds
    <2> DEFINE res == [status |-> IF NotModified(fetch[p].out, r, version') THEN 304 ELSE r.status,
                       hdr    |-> r.hdr,
                       clock  |-> Unix(now + skew),
                       age    |-> age,
                       whole  |-> whole,
                       seen   |-> version',
                       at     |-> now]
    <2>2. r.status \in 200..599 /\ r.hdr \in Header
      BY SiteAssumption DEF Answers, ReplyPattern
    <2>3. Unix(now + skew) \in Int /\ MaxTime - Unix(now + skew) <= MaxDuration
      BY DateInRange, BoundAssumption
    <2>4. now \in Time /\ whole \in BOOLEAN
      BY DEF TypeOK
    <2>5. IsResponse(res) /\ res.at = now /\ res.seen = version' /\ res.hdr = r.hdr
          /\ res.status = IF NotModified(fetch[p].out, r, version') THEN 304 ELSE r.status
      BY <1>0, <2>2, <2>3, <2>4 DEF IsResponse, Response
    <2>6. fetch' = [fetch EXCEPT ![p].res = res]
      BY <2>1
    <2> HIDE DEF res
    <2>7. fetch'[p].res = res
      BY <1>1, <2>6 DEF IsFetch
    <2>8. missed' = missed \cup Untold(p, res)
      BY <1>2, <2>7 DEF OriginResponds, Miss
    <2> QED
      BY <1>1, <1>2, <2>5, <2>6, <2>8 DEF OriginAnswered, OriginResponds
  <1>3. CASE OriginFails(p)
    <2> DEFINE res == [status |-> 502, hdr |-> EmptyHeader, clock |-> Unix(now),
                       age |-> Absent, whole |-> TRUE, seen |-> version', at |-> now]
    <2>1. Unix(now) \in Int /\ MaxTime - Unix(now) <= MaxDuration
      <3>1. now + 0 = now
        BY BoundAssumption DEF TypeOK, Time
      <3>2. MaxTime + Second - 0 <= MaxDuration
        BY BoundAssumption, TimeAssumption
      <3> QED
        BY <3>1, <3>2, DateInRange
    <2>2. now \in Time
      BY DEF TypeOK
    <2>3. /\ IsResponse(res) /\ res.at = now /\ res.seen = version'
          /\ res.status = 502 /\ res.hdr = EmptyHeader
      BY <1>0, <2>1, <2>2, EmptyHeaderType, BoundAssumption DEF IsResponse, Response
    <2>4. fetch' = [fetch EXCEPT ![p].res = res]
      BY <1>3 DEF OriginFails
    <2> HIDE DEF res
    <2>5. fetch'[p].res = res
      BY <1>1, <2>4 DEF IsFetch
    <2>6. missed' = missed \cup Untold(p, res)
      BY <1>3, <2>5 DEF OriginFails, Miss
    <2> QED
      BY <1>1, <1>3, <2>3, <2>4, <2>6 DEF OriginAnswered, OriginFails
  <1> QED
    BY <1>2, <1>3 DEF OriginStep

(************************* The inductive invariant ************************)

(* CreateCache establishes the invariant. *)
LEMMA InitIInv == Init => IInv
  <1> SUFFICES ASSUME Init PROVE IInv
    OBVIOUS
  <1>1. 0 \in Time /\ 0 \in 0..MaxVersion
    BY BoundAssumption DEF Time
  <1>2. Start \in [Procs -> Labels]
    BY DEF Start, Labels
  <1>3. \A p \in Handlers \cup Delayed : Start[p] = "idle"
    BY SiteAssumption DEF Start, Procs
  <1>4. Start[Updater] \in {"off", "poll"}
    BY DEF Start, Procs
  <1>5. \A p \in Procs : Start[p] \in {"idle", "off", "poll"}
    BY DEF Start
  <1>6. TypeOK
    BY <1>1, <1>2, <1>3, <1>4, <1>5 DEF Init, TypeOK, Fetching
  <1>7. Stamps
    BY <1>5 DEF Init, Stamps, Fetching
  <1> QED
    BY <1>6, <1>7 DEF IInv

(* Every step of a handler, a delayed update, the updater, the origin or the *)
(* clock, and every crash, preserves the invariant.                          *)
LEMMA NextIInv == IInv /\ [Next]_vars => IInv'
  <1> SUFFICES ASSUME IInv, [Next]_vars PROVE IInv'
    OBVIOUS
  <1> USE DEF IInv, TypeOK, Stamps, EntryStamps
  <1>1. ASSUME NEW p \in Handlers, NEW q \in Requests, ServeHTTP(p, q) PROVE IInv'
    <2>1. IsRequest(q)
      BY SiteAssumption DEF IsRequest
    <2>2. PICK rows : rows \subseteq store /\ found' = [found EXCEPT ![p] = rows]
      <3>1. PICK rows \in getResponsesForUri(q) : found' = [found EXCEPT ![p] = rows]
        BY <1>1 DEF ServeHTTP
      <3>2. rows \subseteq store
        BY DEF getResponsesForUri, All
      <3> QED
        BY <3>1, <3>2
    <2> QED
      BY <1>1, <2>1, <2>2, SiteAssumption DEF ServeHTTP, Labels, Procs, Arrived, Fetching, ghosts
  <1>2. ASSUME NEW p \in Handlers, SendStoredResponse(p) PROVE IInv'
    <2>1. PICK e \in found[p] :
            reply' = [reply EXCEPT ![p] = StoredReply("hit", e, e.res)]
      BY <1>2 DEF SendStoredResponse
    <2>2. IsReply(StoredReply("hit", e, e.res))
      BY DEF IsEntry, IsReply, StoredReply
    <2> QED
      BY <1>2, <2>1, <2>2, SiteAssumption DEF SendStoredResponse, Labels, Procs, Arrived, Fetching, ghosts
  <1>3. ASSUME NEW p \in Handlers, SendValidationRequest(p) PROVE IInv'
    <2>1. ASSUME NEW e \in found[p]
          PROVE  IsRequest(generateConditionalRequest(req[p], e))
      BY <1>3 DEF generateConditionalRequest, IsRequest, SendValidationRequest
    <2> QED
      BY <1>3, <2>1, FetchType, SiteAssumption
      DEF SendValidationRequest, Fetch, Labels, Procs, Arrived, Fetching, ghosts
  <1>4. ASSUME NEW p \in Handlers, Proxy(p) PROVE IInv'
    BY <1>4, FetchType, SiteAssumption DEF Proxy, Fetch, Labels, Procs, Arrived, Fetching, ghosts
  <1>5. ASSUME NEW p \in Handlers, ValidationSucceeded(p) PROVE IInv'
    <2> DEFINE answer(e) == StoredReply("validated", e, fetch[p].res)
    <2>0. PICK e \in found[p] : reply' = [reply EXCEPT ![p] = answer(e)]
      BY <1>5 DEF ValidationSucceeded
    <2>1. IsReply(answer(e))
      BY DEF IsEntry, IsReply, StoredReply
    <2> HIDE DEF answer
    <2>2. /\ EndFetch(p) /\ pc' = [pc EXCEPT ![p] = "done"]
          /\ pc[p] = "validate"
          /\ UNCHANGED <<now, version, store, req, found, todo, update, owner, own, due, oldest, since>>
      BY <1>5 DEF ValidationSucceeded
    <2> QED
      BY <2>0, <2>1, <2>2, SiteAssumption DEF EndFetch, Labels, Procs, Arrived, Fetching, ghosts
  <1>6. ASSUME NEW p \in Handlers, ValidationFailed(p) PROVE IInv'
    <2>1. IsResponse(fetch[p].res)
      BY <1>6 DEF ValidationFailed, Arrived, Fetching, Procs, IsFetch
    <2>2. PICK r : IsReply(r) /\ r.from \in {"origin", "replaced"} /\ reply' = [reply EXCEPT ![p] = r]
      BY <1>6, <2>1 DEF ValidationFailed, IsReply, Reply
    <2>3. /\ pc[p] = "validate" /\ Arrived(p)
          /\ pc' = [pc EXCEPT ![p] = "write"]
          /\ UNCHANGED <<now, version, store, req, found, fetch, todo, update, owner, own,
                         due, oldest, since>>
      BY <1>6 DEF ValidationFailed, ghosts
    <2> QED
      BY <2>2, <2>3, SiteAssumption DEF Labels, Procs, Arrived, Fetching, ghosts
  <1>7. ASSUME NEW p \in Handlers, ProxyDone(p) PROVE IInv'
    <2>1. IsResponse(fetch[p].res)
      BY <1>7 DEF ProxyDone, Arrived, Fetching, Procs, IsFetch
    <2> DEFINE r == Reply("origin", fetch[p].res, req[p], ~isRedirect(fetch[p].res.status))
    <2>2. IsReply(r) /\ r.from \in {"origin", "replaced"}
      BY <2>1 DEF IsReply, Reply, isRedirect
    <2>3. /\ pc[p] = "proxy" /\ Arrived(p)
          /\ reply' = [reply EXCEPT ![p] = r]
          /\ pc' = [pc EXCEPT ![p] = "write"]
          /\ UNCHANGED <<now, version, store, req, found, fetch, todo, update, owner, own,
                         due, oldest, since>>
      BY <1>7 DEF ProxyDone, ghosts
    <2> HIDE DEF r
    <2> QED
      BY <2>2, <2>3, SiteAssumption DEF Labels, Procs, Arrived, Fetching, ghosts
  <1>8. ASSUME NEW p \in Handlers, ProxyAborted(p) PROVE IInv'
    <2>1. IsResponse(fetch[p].res)
      BY <1>8 DEF ProxyAborted, Arrived, Fetching, Procs, IsFetch
    <2>2. IsReply(Reply("aborted", fetch[p].res, req[p], TRUE))
      BY <2>1 DEF IsReply, Reply
    <2> QED
      BY <1>8, <2>2, SiteAssumption DEF ProxyAborted, EndFetch, Labels, Procs, Arrived, Fetching, ghosts
  <1>9. ASSUME NEW p \in Handlers, updateResponseAndLocations(p) PROVE IInv'
    <2>1. /\ Arrived(p) /\ IsFetch(fetch[p]) /\ IsRequest(req[p])
          /\ fetch[p].created <= fetch[p].res.at /\ fetch[p].created <= now
      BY <1>9 DEF updateResponseAndLocations, Arrived, Fetching, Procs
    <2>2. \A e \in store' : IsEntry(e) /\ EntryStamps(e)
      <3>1. PICK cached \in BOOLEAN : store' = writeCache(req[p], fetch[p], cached)
        BY <1>9 DEF updateResponseAndLocations, Cached
      <3> QED
        BY <2>1, <3>1, StoreType DEF Arrived, Fetching
    <2>3. WorkList(req[p], fetch[p].res) \in Seq(Items)
      BY <2>1, WorkListType DEF Arrived, Fetching, IsFetch
    <2> QED
      BY <1>9, <2>2, <2>3, SiteAssumption
      DEF updateResponseAndLocations, EndFetch, Labels, Procs, Arrived, Fetching, ghosts
  <1>10. ASSUME NEW p \in Handlers, todo[p] # <<>>
         PROVE  Head(todo[p]) \in Items /\ Tail(todo[p]) \in Seq(Items)
    BY <1>10
  <1>11. ASSUME NEW u \in URI PROVE IsRequest(NewRequest(u))
    BY DEF IsRequest, NewRequest, GetRequestFromKey, Methods
  <1>12. ASSUME NEW p \in Handlers, invalidateUri(p) PROVE IInv'
    BY <1>10, <1>12, SiteAssumption
    DEF invalidateUri, Pending, NextItem, Purge, Labels, Procs, Arrived, Fetching, ghosts
  <1>13. ASSUME NEW p \in Handlers, revalidateUri(p) PROVE IInv'
    <2>1. IsRequest(NewRequest(Head(todo[p]).path)) /\ Tail(todo[p]) \in Seq(Items)
      BY <1>10, <1>11, <1>13 DEF revalidateUri, Pending, Items
    <2>2. /\ pc[p] = "update" /\ NextItem(p)
          /\ UNCHANGED <<now, version, store, req, found, update, reply, owner, own, due, oldest, since>>
      BY <1>13 DEF revalidateUri, Pending
    <2>3. CASE UNCHANGED <<fetch, pc>>
      BY <2>1, <2>2, <2>3 DEF NextItem, Arrived, Fetching
    <2>4. CASE /\ Fetch(p, NewRequest(Head(todo[p]).path))
               /\ pc' = [pc EXCEPT ![p] = "save"]
      BY <2>1, <2>2, <2>4, FetchType, SiteAssumption
      DEF NextItem, Fetch, Labels, Procs, Arrived, Fetching, ghosts
    <2> QED
      BY <1>13, <2>3, <2>4 DEF revalidateUri
  <1>14. ASSUME NEW p \in Handlers, saveUpdateNow(p) PROVE IInv'
    <2>1. /\ IsRequest(NewRequest(Head(todo[p]).path))
          /\ Head(todo[p]) \in Items /\ Tail(todo[p]) \in Seq(Items)
      BY <1>10, <1>11, <1>14 DEF saveUpdateNow, Pending, Items
    <2> QED
      BY <1>14, <2>1, FetchType, SiteAssumption
      DEF saveUpdateNow, Pending, NextItem, Fetch, Labels, Procs, Arrived, Fetching, ghosts
  <1>15. ASSUME NEW p \in Handlers, NEW d \in Delayed, saveUpdateLater(p, d) PROVE IInv'
    <2>1. Head(todo[p]) \in Items /\ Tail(todo[p]) \in Seq(Items)
      BY <1>10, <1>15 DEF saveUpdateLater, Pending
    <2>2. Change(Head(todo[p]).path, reply[p].res) \in Changes
      BY <1>15, <2>1 DEF saveUpdateLater, Pending, Change, Changes, Items, IsReply, IsResponse, Response
    <2> QED
      BY <1>15, <2>1, <2>2, SiteAssumption
      DEF saveUpdateLater, Pending, NextItem, Labels, Procs, Arrived, Fetching, ghosts
  <1>16. ASSUME NEW p \in Handlers \cup Delayed, Saved(p) PROVE IInv'
    <2>1. /\ IsFetch(fetch[p]) /\ IsRequest(fetch[p].out)
          /\ fetch[p].created <= fetch[p].res.at /\ fetch[p].created <= now
      BY <1>16 DEF Saved, Arrived, Fetching, Procs, IsFetch
    <2>2. \A e \in store' : IsEntry(e) /\ EntryStamps(e)
      <3>1. PICK cached \in BOOLEAN : store' = writeCache(fetch[p].out, fetch[p], cached)
        BY <1>16 DEF Saved, Cached
      <3> QED
        BY <1>16, <2>1, <3>1, StoreType DEF Saved, Arrived, Fetching
    <2>3. /\ EndFetch(p) /\ pc[p] = "save"
          /\ UNCHANGED <<now, version, req, found, todo, update, reply, due, oldest, since>>
      BY <1>16 DEF Saved
    <2>4. CASE p \in Delayed
      <3>1. /\ pc' = [pc EXCEPT ![p] = "idle"]
            /\ owner' = [owner EXCEPT ![p] = None]
            /\ own' = [own EXCEPT ![p] = None]
        BY <1>16, <2>4 DEF Saved
      <3> QED
        BY <2>2, <2>3, <2>4, <3>1, SiteAssumption DEF EndFetch, Labels, Procs, Arrived, Fetching, ghosts
    <2>5. CASE p \in Handlers
      <3>1. pc' = [pc EXCEPT ![p] = "update"] /\ UNCHANGED <<owner, own>>
        BY <1>16, <2>5, SiteAssumption DEF Saved
      <3> QED
        BY <2>2, <2>3, <2>5, <3>1, SiteAssumption DEF EndFetch, Labels, Procs, Arrived, Fetching, ghosts
    <2> QED
      BY <2>4, <2>5
  <1>17. ASSUME NEW p \in Handlers, UpdatesDone(p) PROVE IInv'
    <2>1. IsReply([reply[p] EXCEPT !.sent = TRUE])
      BY <1>17 DEF UpdatesDone, IsReply
    <2> QED
      BY <1>17, <2>1, SiteAssumption DEF UpdatesDone, Labels, Procs, Arrived, Fetching, ghosts
  <1>18. ASSUME NEW p \in Handlers, Finish(p) PROVE IInv'
    BY <1>18, SiteAssumption DEF Finish, Labels, Procs, Arrived, Fetching, ghosts
  <1>19. ASSUME NEW d \in Delayed, StartSleep(d) PROVE IInv'
    <2>1. now + Second * update[owner[d]].delay \in Nat
      <3>1. update[owner[d]].delay \in Nat
        BY <1>19 DEF StartSleep, Items
      <3>2. Second * update[owner[d]].delay \in Nat
        BY <3>1, TimeAssumption
      <3> QED
        BY <3>2, BoundAssumption DEF Time
    <2> QED
      BY <1>19, <2>1, SiteAssumption DEF StartSleep, Labels, Procs, Arrived, Fetching, ghosts
  <1>20. ASSUME NEW d \in Delayed, DelayOver(d) PROVE IInv'
    <2>1. IsRequest(NewRequest(update[owner[d]].path))
      BY <1>11, <1>20 DEF DelayOver, Items
    <2> QED
      BY <1>20, <2>1, FetchType, SiteAssumption DEF DelayOver, Fetch, Labels, Procs, Arrived, Fetching, ghosts
  <1>21. ASSUME NEW key, IsRequest(key) PROVE IsRequest(GetRequestFromKey(key))
    BY <1>21 DEF GetRequestFromKey, IsRequest
  <1>22. CASE updateEntry
    <2>1. PICK e \in store : oldest' = e.key /\ Fetch(Updater, GetRequestFromKey(e.key))
      BY <1>22 DEF updateEntry, Oldest
    <2>2. IsRequest(e.key) /\ IsRequest(GetRequestFromKey(e.key))
      BY <1>21 DEF IsEntry
    <2> QED
      BY <1>22, <2>1, <2>2, FetchType, SiteAssumption
      DEF updateEntry, Fetch, UpdaterGoes, Labels, Procs, Arrived, Fetching, ghosts
  <1>23. now + Second \in Nat
    BY TimeAssumption, BoundAssumption DEF Time
  <1>24. CASE NothingExpires
    BY <1>23, <1>24, SiteAssumption
    DEF NothingExpires, Sleep, UpdaterGoes, Labels, Procs, Arrived, Fetching, ghosts
  <1>25. CASE Wake
    BY <1>25, SiteAssumption DEF Wake, UpdaterGoes, Labels, Procs, Arrived, Fetching, ghosts
  <1>26. ASSUME NEW cached \in BOOLEAN, Arrived(Updater)
         PROVE  \A e \in writeCache(fetch[Updater].out, fetch[Updater], cached) :
                  IsEntry(e) /\ EntryStamps(e)
    <2>1. /\ IsFetch(fetch[Updater]) /\ IsRequest(fetch[Updater].out)
          /\ fetch[Updater].created <= fetch[Updater].res.at
          /\ fetch[Updater].created <= now
      BY <1>26 DEF Arrived, Fetching, Procs, IsFetch
    <2> QED
      BY <1>26, <2>1, StoreType DEF Arrived, Fetching
  <1>27. CASE Refreshed
    <2>1. PICK cached \in BOOLEAN :
            /\ store' = writeCache(fetch[Updater].out, fetch[Updater], cached)
            /\ IF cached
               THEN UpdaterGoes("poll") /\ oldest' = None /\ UNCHANGED due
               ELSE UpdaterGoes("backoff") /\ Sleep /\ UNCHANGED oldest
      BY <1>27 DEF Refreshed, Cached
    <2>2. \A e \in store' : IsEntry(e) /\ EntryStamps(e)
      BY <1>26, <1>27, <2>1 DEF Refreshed
    <2> QED
      BY <1>23, <1>27, <2>1, <2>2, SiteAssumption
      DEF Refreshed, EndFetch, Sleep, UpdaterGoes, Labels, Procs, Arrived, Fetching, ghosts
  <1>28. CASE Retry
    <2>1. IsRequest(GetRequestFromKey(oldest))
      BY <1>21, <1>28 DEF Retry
    <2> QED
      BY <1>28, <2>1, FetchType, SiteAssumption
      DEF Retry, Fetch, UpdaterGoes, Labels, Procs, Arrived, Fetching, ghosts
  <1>29. CASE Retried
    <2>1. \A e \in store' : IsEntry(e) /\ EntryStamps(e)
      BY <1>26, <1>29 DEF Retried, Cached, Purge
    <2> QED
      BY <1>29, <2>1, SiteAssumption
      DEF Retried, EndFetch, UpdaterGoes, Labels, Procs, Arrived, Fetching, ghosts
  <1>30. ASSUME NEW p \in Procs, OriginStep(p) PROVE IInv'
    <2>1. PICK res : OriginAnswered(p, res)
      BY <1>30, OriginAnswers
    <2>2. /\ IsFetch(fetch[p]) /\ fetch[p].created <= now
          /\ pc[p] # "write"
      BY <2>1 DEF OriginAnswered, InFlight, Arrived, Fetching
    <2>3. PICK f : fetch' = [fetch EXCEPT ![p] = f] /\ f = [fetch[p] EXCEPT !.res = res]
      BY <2>1 DEF OriginAnswered
    <2>4. IsFetch(f) /\ f.created <= now /\ f.created <= f.res.at
      BY <2>1, <2>2, <2>3 DEF IsFetch, OriginAnswered
    <2>5. version' \in [URI -> 0..MaxVersion]
      BY <1>30, VersionsMoveOn
    <2> QED
      BY <2>1, <2>2, <2>3, <2>4, <2>5 DEF OriginAnswered, Arrived, Fetching
  <1>34. CASE Tick
    <2>1. now' \in Time /\ now <= now' /\ now \in Int /\ now' \in Int
      BY <1>34, BoundAssumption DEF Tick, Time
    <2>2. UNCHANGED <<version, store, local, since>>
      BY <1>34 DEF Tick, ghosts
    <2>3. TypeOK'
      BY <2>1, <2>2 DEF local, Arrived, Fetching
    <2>4. Stamps'
      <3>1. \A e \in store : e.receivedAt <= now'
        BY <2>1 DEF IsEntry, Time
      <3>2. \A p \in Handlers : \A e \in found[p] : e.receivedAt <= now'
        BY <2>1 DEF IsEntry, Time
      <3>3. \A p \in Procs : Fetching(p) => fetch[p].created <= now'
        BY <2>1 DEF IsFetch, Time
      <3> QED
        BY <2>2, <3>1, <3>2, <3>3 DEF local, Fetching
    <2> QED
      BY <2>3, <2>4
  <1>35. CASE Crash
    <2>1. /\ Start \in [Procs -> Labels]
          /\ \A p \in Handlers \cup Delayed : Start[p] = "idle"
          /\ \A p \in Procs : Start[p] \in {"idle", "off", "poll"}
          /\ Start[Updater] \in {"off", "poll"}
      BY SiteAssumption DEF Start, Labels, Procs
    <2>2. /\ store' \subseteq store /\ now' = now /\ version' = version /\ pc' = Start
          /\ req' = [p \in Handlers |-> None] /\ found' = [p \in Handlers |-> {}]
          /\ fetch' = [p \in Procs |-> None] /\ todo' = [p \in Handlers |-> <<>>]
          /\ update' = [p \in Handlers |-> None] /\ reply' = [p \in Handlers |-> None]
          /\ owner' = [d \in Delayed |-> None] /\ own' = [d \in Delayed |-> None]
          /\ due' = [p \in Delayed \cup {Updater} |-> 0]
          /\ since' = [p \in Handlers |-> None]
      BY <1>35 DEF Crash
    <2>3. \A e \in store' : IsEntry(e)
      BY <2>2
    <2>4. TypeOK'
      <3>1. /\ pc' \in [Procs -> Labels] /\ todo' \in [Handlers -> Seq(Items)]
            /\ owner' \in [Delayed -> Handlers \cup {None}]
            /\ due' \in [Delayed \cup {Updater} -> Nat]
        BY <2>1, <2>2
      <3>2. \A p \in Procs : pc'[p] \in {"idle", "off", "poll"} /\ fetch'[p] = None
        BY <2>1, <2>2
      <3>3. \A p \in Handlers : pc'[p] = "idle" /\ found'[p] = {} /\ reply'[p] = None
        BY <2>1, <2>2
      <3>4. \A d \in Delayed : pc'[d] = "idle"
        BY <2>1, <2>2
      <3> QED
        BY <2>1, <2>2, <2>3, <3>1, <3>2, <3>3, <3>4 DEF Fetching
    <2>5. Stamps'
      BY <2>1, <2>2 DEF Fetching
    <2> QED
      BY <2>4, <2>5
  <1>36. CASE UNCHANGED vars
    BY <1>36 DEF vars, local, ghosts, Arrived, Fetching
  <1> QED
    BY <1>1, <1>2, <1>3, <1>4, <1>5, <1>6, <1>7, <1>8, <1>9, <1>12, <1>13, <1>14, <1>15,
       <1>16, <1>17, <1>18, <1>19, <1>20, <1>22, <1>24, <1>25, <1>27, <1>28, <1>29,
       <1>30, <1>34, <1>35, <1>36
    DEF Next, HandlerStep, DelayedStep, UpdaterStep

(****************************** The theorems ******************************)

(* Every variable keeps its type, and every process finds what the code it   *)
(* is in reads: no handler, delayed update or retry works on a request, a    *)
(* reply, a loop variable or a key that another process has taken away.      *)
THEOREM TypeCorrect == Spec => []TypeOK
  <1>1. IInv => TypeOK
    BY DEF IInv
  <1> QED
    BY <1>1, InitIInv, NextIInv, PTL DEF Spec

(* The timestamps that writeCache stores always enclose the response, on     *)
(* every path from a ResponseSaver to a row and from a row to a lookup.      *)
THEOREM StampsHold == Spec => []Stamps
  <1>1. IInv => Stamps
    BY DEF IInv
  <1> QED
    BY <1>1, InitIInv, NextIInv, PTL DEF Spec

(* An entry that MustNotReuse lets through is younger than its lifetime. *)
LEMMA ReusedIsYoung ==
  ASSUME NEW q, NEW e, IsEntry(e), EntryStamps(e), now \in Time, e.res.hdr.dated,
         MustNotReuse(q, e, now) = "reuse"
  PROVE  TrueAge(e.res, now) < StatedLifetime(e.res)
  <1>1. isFresh(e.res, e.receivedAt, e.requestedAt, now)
    BY DEF MustNotReuse, NeedsValidation
  <1>2. /\ MaxTime \in Nat /\ MaxTime <= MaxDuration
        /\ Second * e.res.age + MaxTime <= MaxDuration
        /\ e.res.age \in {Absent} \cup Nat
    BY BoundAssumption, TimeAssumption DEF IsEntry, IsResponse, Response
  <1>3. /\ now \in Nat /\ now <= MaxTime
        /\ e.requestedAt \in Nat /\ e.requestedAt <= MaxTime
        /\ e.receivedAt \in Nat /\ e.receivedAt <= now
        /\ e.res.at \in Int /\ e.requestedAt <= e.res.at
    BY <1>2 DEF IsEntry, IsResponse, Response, EntryStamps, Time
  <1>4. /\ e.res.hdr \in Header /\ e.res.clock \in Int
        /\ MaxTime - e.res.clock <= MaxDuration
    BY DEF IsEntry, IsResponse, Response
  <1> QED
    BY <1>1, <1>2, <1>3, <1>4, FreshIsYoung

(* A step that puts one answer into reply, and keeps FreshHits for it, keeps *)
(* it for all.                                                               *)
LEMMA ReplyStep ==
  ASSUME NEW p \in Handlers, NEW r, DOMAIN reply = Handlers, FreshHits,
         reply' = [reply EXCEPT ![p] = r],
         r # None /\ r.from = "hit" /\ r.res.hdr.dated
           => TrueAge(r.res, r.at) < StatedLifetime(r.res)
  PROVE  FreshHits'
  BY DEF FreshHits, Hit

(* Only the hits of the lookup matter: every other answer comes from the     *)
(* origin, or from the store after a validation.                             *)
LEMMA NextFreshHits == IInv /\ FreshHits /\ [Next]_vars => FreshHits'
  <1> SUFFICES ASSUME IInv, FreshHits, [Next]_vars PROVE FreshHits'
    OBVIOUS
  <1>1. DOMAIN reply = Handlers
    BY DEF IInv, TypeOK
  <1>2. ASSUME NEW p \in Handlers, SendStoredResponse(p) PROVE FreshHits'
    <2>1. PICK e \in found[p] :
            /\ MustNotReuse(req[p], e, now) = "reuse"
            /\ reply' = [reply EXCEPT ![p] = StoredReply("hit", e, e.res)]
      BY <1>2 DEF SendStoredResponse
    <2>2. e.res.hdr.dated => TrueAge(e.res, now) < StatedLifetime(e.res)
      BY <2>1, ReusedIsYoung DEF IInv, TypeOK, Stamps
    <2> DEFINE r == StoredReply("hit", e, e.res)
    <2>3. r.res = e.res /\ r.at = now
      BY DEF StoredReply
    <2> HIDE DEF r
    <2>4. r.res.hdr.dated => TrueAge(r.res, r.at) < StatedLifetime(r.res)
      BY <2>2, <2>3
    <2> QED
      BY <1>1, <2>1, <2>4, ReplyStep DEF r
  <1>3. ASSUME NEW p \in Handlers, ValidationSucceeded(p) PROVE FreshHits'
    <2> DEFINE r(e) == StoredReply("validated", e, fetch[p].res)
    <2>1. PICK e \in found[p] : reply' = [reply EXCEPT ![p] = r(e)]
      BY <1>3 DEF ValidationSucceeded
    <2>2. r(e).from # "hit"
      BY DEF StoredReply
    <2> HIDE DEF r
    <2> QED
      BY <1>1, <2>1, <2>2, ReplyStep
  <1>4. ASSUME NEW p \in Handlers, NEW from \in {"origin", "replaced", "aborted"}, NEW sent,
               reply' = [reply EXCEPT ![p] = Reply(from, fetch[p].res, req[p], sent)]
        PROVE  FreshHits'
    <2>1. Reply(from, fetch[p].res, req[p], sent).from # "hit"
      BY DEF Reply
    <2> QED
      BY <1>1, <1>4, <2>1, ReplyStep
  <1>5. ASSUME NEW p \in Handlers, UpdatesDone(p) PROVE FreshHits'
    <2> DEFINE r == [reply[p] EXCEPT !.sent = TRUE]
    <2>1. IsReply(reply[p]) /\ reply' = [reply EXCEPT ![p] = r]
      BY <1>1, <1>5 DEF UpdatesDone, IInv, TypeOK
    <2>2. r.from # "hit"
      BY <1>5, <2>1 DEF UpdatesDone, IInv, TypeOK, IsReply
    <2> HIDE DEF r
    <2> QED
      BY <1>1, <2>1, <2>2, ReplyStep
  <1>6. ASSUME NEW p \in Handlers, Finish(p) PROVE FreshHits'
    BY <1>1, <1>6, ReplyStep DEF Finish
  <1>7. CASE Crash
    BY <1>7 DEF Crash, FreshHits, Hit
  <1>8. CASE UNCHANGED reply
    BY <1>8 DEF FreshHits, Hit
  <1>9. ASSUME NEW p \in Handlers, HandlerStep(p) PROVE FreshHits'
    <2>1. CASE ValidationFailed(p)
      BY <1>4, <2>1 DEF ValidationFailed
    <2>2. CASE ProxyDone(p)
      BY <1>4, <2>2 DEF ProxyDone
    <2>3. CASE ProxyAborted(p)
      BY <1>4, <2>3 DEF ProxyAborted
    <2>4. CASE \/ SendValidationRequest(p) \/ Proxy(p) \/ updateResponseAndLocations(p)
               \/ invalidateUri(p) \/ revalidateUri(p) \/ saveUpdateNow(p)
               \/ (\E d \in Delayed : saveUpdateLater(p, d)) \/ Saved(p)
      BY <1>8, <2>4 DEF SendValidationRequest, Proxy, updateResponseAndLocations,
         invalidateUri, revalidateUri, saveUpdateNow, saveUpdateLater, Saved
    <2> QED
      BY <1>2, <1>3, <1>5, <1>6, <1>9, <2>1, <2>2, <2>3, <2>4 DEF HandlerStep
  <1>10. ASSUME NEW p \in Handlers, NEW q \in Requests, ServeHTTP(p, q) PROVE FreshHits'
    BY <1>8, <1>10 DEF ServeHTTP
  <1>11. ASSUME NEW d \in Delayed, DelayedStep(d) PROVE FreshHits'
    BY <1>8, <1>11 DEF DelayedStep, StartSleep, DelayOver, Saved
  <1>12. CASE UpdaterStep
    BY <1>8, <1>12 DEF UpdaterStep, updateEntry, NothingExpires, Wake, Refreshed, Retry,
       Retried
  <1>13. ASSUME NEW p \in Procs, OriginStep(p) PROVE FreshHits'
    BY <1>8, <1>13 DEF OriginStep, OriginResponds, OriginFails
  <1>14. CASE Tick \/ UNCHANGED vars
    BY <1>8, <1>14 DEF Tick, vars, local
  <1> QED
    BY <1>7, <1>9, <1>10, <1>11, <1>12, <1>13, <1>14 DEF Next

(* No client ever gets a response from the store, without the origin being   *)
(* asked, that is older than the lifetime the origin gave it.                *)
THEOREM FreshHitsHold == Spec => []FreshHits
  <1>1. Init => FreshHits
    BY DEF Init, FreshHits, Hit
  <1> QED
    BY <1>1, InitIInv, NextIInv, NextFreshHits, PTL DEF Spec
=============================================================================
