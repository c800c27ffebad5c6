-------------------------- MODULE CoherenceProofs --------------------------
(***************************************************************************)
(* Stale pages: every change that the origin announces reaches the cache,  *)
(* and a redirect is not sent before it has.                               *)
(***************************************************************************)
EXTENDS ClientProofs

(************************** Keys of plain requests ************************)

(* A plain request has no field to select by: whatever the response varies   *)
(* on, it is stored under the key without selecting fields, the one that     *)
(* invalidateUri, revalidateUri and saveUpdates know.                        *)
LEMMA PlainKey ==
  ASSUME NEW u, NEW hdr
  PROVE  /\ AddVaryKeys(GetKeyPrefix(NewRequest(u)), NewRequest(u), hdr)
              = GetKeyPrefix(NewRequest(u))
         /\ NewRequest(u).uri = u /\ NewRequest(u).method = "GET"
  <1> DEFINE q == NewRequest(u)
             names == At(hdr.vary, Present(q, hdr.vary))
  <1>1. q.uri = u /\ q.method = "GET" /\ q.ckey = <<>>
    BY DEF NewRequest, GetRequestFromKey
  <1>2. DOMAIN q.header = {}
    BY DEF NewRequest, GetRequestFromKey, GetVaryHeaders
  <1>3. Present(q, hdr.vary) = {}
    BY <1>2 DEF Present, FieldAbsent
  <1>4. names = <<>>
    BY <1>3, AtNothing
  <1>5. [i \in DOMAIN names |-> <<names[i], Get(q.header, names[i])>>] = <<>>
    BY <1>4
  <1> QED
    BY <1>1, <1>5 DEF AddVaryKeys, GetKeyPrefix

(* What is fetched to bring a URI up to date is its plain request. *)
Plain ==
  \A p \in Handlers \cup Delayed :
    pc[p] = "save" => fetch[p].out = NewRequest(fetch[p].out.uri)

(* saveRequest asks with the plain request of a URI only. *)
LEMMA NextPlain ==
  ASSUME TypeOK, Plain, [Next]_vars
  PROVE  Plain'
  <1> DEFINE Good(f) == f.out = NewRequest(f.out.uri)
  <1>1. DOMAIN pc = Procs /\ DOMAIN fetch = Procs
    BY DEF TypeOK
  <1>2. ASSUME NEW u, NEW f, f = [out |-> NewRequest(u), created |-> now, res |-> None]
        PROVE  Good(f)
    BY <1>2, PlainKey
  <1>3. ASSUME NEW p \in Procs, OriginStep(p) PROVE fetch'[p].out = fetch[p].out /\ pc'[p] = pc[p]
    <2>1. PICK res : OriginAnswered(p, res)
      BY <1>3, OriginAnswers
    <2>2. IsFetch(fetch[p])
      BY <2>1 DEF OriginAnswered, InFlight, TypeOK
    <2> QED
      BY <1>1, <2>1, <2>2 DEF OriginAnswered, IsFetch
  <1>4. ASSUME NEW p \in Handlers, pc'[p] = "save" PROVE Good(fetch'[p])
    <2>1. p \in Procs /\ p \notin Delayed
      BY SiteAssumption DEF Procs
    <2>2. ASSUME NEW q \in Requests, ServeHTTP(p, q) PROVE FALSE
      BY <1>1, <1>4, <2>1, <2>2 DEF ServeHTTP
    <2>3. CASE Crash
      BY <1>4, <2>1, <2>3 DEF Crash, Start
    <2>4. CASE OriginStep(p) \/ Still(p)
      BY <1>3, <1>4, <2>1, <2>4 DEF Still, Plain
    <2>5. CASE revalidateUri(p) \/ saveUpdateNow(p)
      <3>1. PICK u : fetch'[p] = [out |-> NewRequest(u), created |-> now, res |-> None]
        BY <1>1, <1>4, <2>1, <2>5 DEF revalidateUri, saveUpdateNow, Pending, Fetch
      <3> QED
        BY <1>2, <3>1
    <2>6. HandlerStep(p) => revalidateUri(p) \/ saveUpdateNow(p)
      <3>1. CASE \E d \in Delayed : saveUpdateLater(p, d)
        BY <1>1, <1>4, <2>1, <3>1 DEF saveUpdateLater, Pending
      <3>2. CASE invalidateUri(p)
        BY <1>4, <3>2 DEF invalidateUri, Pending
      <3> QED
        BY <1>1, <1>4, <2>1, <3>1, <3>2 DEF HandlerStep, SendStoredResponse,
           SendValidationRequest, Proxy, ValidationSucceeded, ValidationFailed, ProxyDone,
           ProxyAborted, updateResponseAndLocations, Saved, UpdatesDone, Finish
    <2> QED
      BY <2>2, <2>3, <2>4, <2>5, <2>6, HandlerFrame
  <1>5. ASSUME NEW d \in Delayed, pc'[d] = "save" PROVE Good(fetch'[d])
    <2>1. d \in Procs /\ d # Updater
      BY SiteAssumption DEF Procs
    <2>2. CASE DelayedStep(d)
      <3>1. DelayOver(d)
        BY <1>1, <1>5, <2>1, <2>2 DEF DelayedStep, StartSleep, Saved
      <3>2. PICK u : fetch'[d] = [out |-> NewRequest(u), created |-> now, res |-> None]
        BY <1>1, <2>1, <3>1 DEF DelayOver, Fetch
      <3> QED
        BY <1>2, <3>2
    <2>3. CASE Crash
      BY <1>5, <2>1, <2>3 DEF Crash, Start
    <2>4. CASE OriginStep(d)
      BY <1>3, <1>5, <2>1, <2>4 DEF Plain
    <2>5. ASSUME NEW p \in Handlers, saveUpdateLater(p, d) PROVE FALSE
      BY <1>1, <1>5, <2>1, <2>5 DEF saveUpdateLater
    <2> QED
      BY <1>5, <2>2, <2>3, <2>4, <2>5, DelayedFrame DEF Plain
  <1> QED
    BY <1>4, <1>5 DEF Plain

(******************************* New rows *********************************)

(* A row is late, or shows the state of its page. *)
Fresh(e, u) == e.late \/ e.res.seen[u] = version[u]

(* writeCache marks as late what the origin has changed since. *)
LEMMA EntryFresh ==
  ASSUME NEW q, NEW f
  PROVE  LET e == CacheEntry(q, f)
         IN e.key.uri = q.uri /\ Fresh(e, q.uri) /\ e.late \in BOOLEAN
  BY DEF CacheEntry, AddVaryKeys, GetKeyPrefix, Fresh

(* So a row that is put is late or up to date. *)
LEMMA NewRowFresh ==
  ASSUME TypeOK, [Next]_vars, NEW e \in store', e \notin store
  PROVE  version' = version /\ Fresh(e, e.key.uri)
  BY StoreStep, EntryFresh

(* What brings a page up to date leaves no row of it that is not fresh. *)
Renewed(u) ==
  /\ version' = version
  /\ \A e \in store' : e.key = GetKeyPrefix(NewRequest(u)) => Fresh(e, u)

(* A refetch that is stored, or after which the row is purged, renews the page. *)
LEMMA SaveRenews ==
  ASSUME NEW u, NEW f, version' = version, f.out = NewRequest(u),
         store' = writeCache(f.out, f, TRUE)
  PROVE  Renewed(u)
  <1>1. CacheEntry(f.out, f).key = GetKeyPrefix(NewRequest(u))
    BY PlainKey DEF CacheEntry
  <1>2. NewRequest(u).uri = u
    BY PlainKey
  <1>3. \A e \in store' : e.key = GetKeyPrefix(NewRequest(u)) => e = CacheEntry(f.out, f)
    BY <1>1 DEF writeCache, PutCE
  <1> QED
    BY <1>2, <1>3, EntryFresh DEF Renewed

(************************ The changes on the way **************************)

(* Every URI that an answer names gets an item of work. *)
LEMMA NamedInWorkList ==
  ASSUME NEW q, NEW res, IsRequest(q), IsResponse(res), NEW u \in Named(q, res)
  PROVE  \E i \in DOMAIN WorkList(q, res) : WorkList(q, res)[i].path = u
  <1> DEFINE uris == GetInvalidateURIs(q, res)
             ups == GetCacheUpdates(q, res)
             first == [i \in DOMAIN uris |->
                         [kind |-> IF Legacy THEN "invalidate" ELSE "revalidate",
                          path |-> uris[i], delay |-> 0]]
             second == [i \in DOMAIN ups |->
                         [kind |-> "update", path |-> ups[i].path, delay |-> ups[i].delay]]
  <1>1. /\ q.uri \in URI /\ res.hdr.location \in Seq(URI)
        /\ res.hdr.updates \in Seq(Updates)
    BY DEF IsResponse, Response, Header, IsRequest
  <1>2. UnsafeRequest(q)
    BY DEF Named, UnsafeRequest
  <1>3. ups = res.hdr.updates
    BY <1>2 DEF GetCacheUpdates
  <1>4. uris \in Seq(URI)
    BY <1>1 DEF GetInvalidateURIs
  <1>5. /\ Len(uris) \in Nat /\ DOMAIN uris = 1..Len(uris)
        /\ Len(ups) \in Nat /\ DOMAIN ups = 1..Len(ups)
    BY <1>1, <1>3, <1>4
  <1>6. \/ \E i \in DOMAIN uris : uris[i] = u
        \/ \E i \in DOMAIN ups : ups[i].path = u
    <2>1. CASE u \in {res.hdr.updates[i].path : i \in DOMAIN res.hdr.updates}
      BY <1>3, <2>1
    <2>2. CASE res.status \in 200..399 /\ u = q.uri
      <3>1. uris = <<q.uri>> \o res.hdr.location
        BY <1>2, <2>2 DEF GetInvalidateURIs, nonErrorResponse
      <3>2. 1 \in DOMAIN uris /\ uris[1] = q.uri
        BY <1>1, <3>1
      <3> QED
        BY <2>2, <3>2
    <2>3. CASE res.status \in 200..399 /\ \E i \in DOMAIN res.hdr.location : u = res.hdr.location[i]
      <3>1. uris = <<q.uri>> \o res.hdr.location
        BY <1>2, <2>3 DEF GetInvalidateURIs, nonErrorResponse
      <3>2. PICK i \in DOMAIN res.hdr.location : u = res.hdr.location[i]
        BY <2>3
      <3>3. i + 1 \in DOMAIN uris /\ uris[i + 1] = res.hdr.location[i]
        BY <1>1, <3>1, <3>2
      <3> QED
        BY <3>2, <3>3
    <2> QED
      BY <2>1, <2>2, <2>3 DEF Named
  <1> HIDE DEF uris, ups
  <1>7. /\ first \in Seq({first[i] : i \in DOMAIN uris})
        /\ Len(first) = Len(uris) /\ \A i \in DOMAIN uris : first[i].path = uris[i]
    BY <1>5
  <1>8. /\ second \in Seq({second[i] : i \in DOMAIN ups})
        /\ Len(second) = Len(ups) /\ \A i \in DOMAIN ups : second[i].path = ups[i].path
    BY <1>5
  <1>9. WorkList(q, res) = first \o second
    BY DEF WorkList, uris, ups
  <1> HIDE DEF first, second
  <1>10. CASE \E i \in DOMAIN uris : uris[i] = u
    <2>1. PICK i \in DOMAIN uris : uris[i] = u
      BY <1>10
    <2>2. i \in DOMAIN (first \o second) /\ (first \o second)[i] = first[i]
      BY <1>5, <1>7, <1>8, <2>1
    <2> QED
      BY <1>7, <1>9, <2>1, <2>2
  <1>11. CASE \E i \in DOMAIN ups : ups[i].path = u
    <2>1. PICK i \in DOMAIN ups : ups[i].path = u
      BY <1>11
    <2>2. /\ Len(first) + i \in DOMAIN (first \o second)
          /\ (first \o second)[Len(first) + i] = second[i]
      BY <1>5, <1>7, <1>8, <2>1
    <2> QED
      BY <1>8, <1>9, <2>1, <2>2
  <1> QED
    BY <1>6, <1>10, <1>11

(* The changes that one process is going to bring to the cache. *)
Mine(p) ==
  IF p \in Handlers THEN Announced(p) \cup Scheduled(p)
  ELSE IF p \in Delayed /\ pc[p] # "idle" THEN {own[p]} ELSE {}

Open == missed \cup Unfinished

(* An open change is given up, or some goroutine has it. *)
LEMMA OpenIsMine ==
  \A c : c \in Open <=> c \in missed \/ \E p \in Handlers \cup Delayed : c \in Mine(p)
  <1> SUFFICES ASSUME NEW c
               PROVE  c \in Open <=> c \in missed \/ \E p \in Handlers \cup Delayed : c \in Mine(p)
    OBVIOUS
  <1>1. /\ \A p \in Handlers : Mine(p) = Announced(p) \cup Scheduled(p)
        /\ \A d \in Delayed : Mine(d) = IF pc[d] # "idle" THEN {own[d]} ELSE {}
    BY SiteAssumption DEF Mine
  <1> DEFINE A == UNION {Announced(p) \cup Scheduled(p) : p \in Handlers}
             B == {own[d] : d \in {x \in Delayed : pc[x] # "idle"}}
  <1>2. c \in A <=> \E p \in Handlers : c \in Mine(p)
    BY <1>1
  <1>3. c \in B <=> \E d \in Delayed : c \in Mine(d)
    BY <1>1
  <1>4. Open = missed \cup (A \cup B)
    BY DEF Open, Unfinished
  <1> HIDE DEF A, B
  <1> QED
    BY <1>2, <1>3, <1>4

(* An item of a list is the first or one of the rest. *)
LEMMA HeadOrTail ==
  ASSUME NEW S, NEW s \in Seq(S), s # <<>>, NEW i \in DOMAIN s
  PROVE  s[i] = Head(s) \/ \E j \in DOMAIN Tail(s) : Tail(s)[j] = s[i]
  <1>1. CASE i = 1
    BY <1>1
  <1>2. CASE i # 1
    <2>1. i - 1 \in DOMAIN Tail(s) /\ Tail(s)[i - 1] = s[i]
      BY <1>2
    <2> QED
      BY <2>1
  <1> QED
    BY <1>1, <1>2

(* A handler that takes the next item of its list has the rest of it still   *)
(* to do.                                                                    *)
LEMMA NextItemKeeps ==
  ASSUME TypeOK, NEW p \in Handlers, pc[p] = "update", todo[p] # <<>>, NextItem(p),
         pc'[p] \in {"update", "save"}, reply'[p] = reply[p], NEW c \in Mine(p)
  PROVE  c \in Mine(p)' \/ c = Change(Head(todo[p]).path, reply[p].res)
  <1>1. todo[p] \in Seq(Items) /\ DOMAIN todo = Handlers
    BY DEF TypeOK
  <1>2. PICK i \in DOMAIN todo[p] : c = Change(todo[p][i].path, reply[p].res)
    BY DEF Mine, Announced, Scheduled
  <1>3. CASE todo[p][i] = Head(todo[p])
    BY <1>2, <1>3
  <1>4. CASE \E j \in DOMAIN Tail(todo[p]) : Tail(todo[p])[j] = todo[p][i]
    <2>1. PICK j \in DOMAIN Tail(todo[p]) : Tail(todo[p])[j] = todo[p][i]
      BY <1>4
    <2>2. todo'[p] = Tail(todo[p])
      BY <1>1 DEF NextItem
    <2>3. c = Change(todo'[p][j].path, reply'[p].res) /\ j \in DOMAIN todo'[p]
      BY <1>2, <2>1, <2>2
    <2>4. c \in Scheduled(p)'
      BY <2>3 DEF Scheduled, Change
    <2> QED
      BY <2>4 DEF Mine
  <1> QED
    BY <1>1, <1>2, <1>3, <1>4, HeadOrTail

(* A change that a handler is to bring to the cache stays open, until the    *)
(* page it is about is renewed.                                              *)
LEMMA HandlerKeeps ==
  ASSUME HInv, Plain, [Next]_vars, NEW p \in Handlers, NEW c \in Mine(p)
  PROVE  c \in Open' \/ Renewed(c.path)
  <1>1. /\ p \in Procs /\ p # Updater /\ p \notin Delayed /\ TypeOK /\ Course(p)
        /\ DOMAIN pc = Procs /\ DOMAIN fetch = Procs /\ DOMAIN req = Handlers
        /\ DOMAIN reply = Handlers /\ DOMAIN todo = Handlers /\ todo[p] \in Seq(Items)
        /\ DOMAIN own = Delayed
    BY SiteAssumption DEF HInv, CInv, IInv, Courses, TypeOK, Procs
  <1>2. ASSUME c \in Mine(p)' \/ c \in missed' PROVE c \in Open'
    <2>1. c \in Mine(p)' => c \in Unfinished'
      BY DEF Mine, Unfinished
    <2> QED
      BY <1>2, <2>1 DEF Open
  <1>3. CASE Still(p)
    <2>1. c \in Mine(p)'
      BY <1>3 DEF Still, Mine, Announced, Scheduled, Arrived, Fetching, Change
    <2> QED
      BY <1>2, <2>1
  <1>4. CASE Crash
    <2>1. c \in Unfinished
      BY DEF Mine, Unfinished
    <2> QED
      BY <1>2, <1>4, <2>1 DEF Crash, Miss
  <1>5. CASE OriginStep(p)
    <2>1. PICK res : OriginAnswered(p, res)
      BY <1>1, <1>5, OriginAnswers
    <2>2. IsFetch(fetch[p]) /\ ~Arrived(p)
      BY <1>1, <2>1 DEF OriginAnswered, InFlight, Arrived, TypeOK
    <2>3. fetch'[p].out = fetch[p].out /\ UNCHANGED <<pc, reply, todo>>
      BY <1>1, <2>1, <2>2 DEF OriginAnswered, IsFetch
    <2>4. c \in Scheduled(p)
      BY <2>2 DEF Mine, Announced
    <2>5. c \in Scheduled(p)'
      BY <2>3, <2>4 DEF Scheduled, Change
    <2> QED
      BY <1>2, <2>5 DEF Mine
  <1>6. \/ pc[p] \in {"validate", "proxy", "write"} /\ Arrived(p) /\ c \in Announced(p)
        \/ pc[p] \in {"update", "save"} /\ c \in Scheduled(p)
    BY DEF Mine, Announced, Scheduled
  <1>7. ASSUME NEW q \in Requests, ServeHTTP(p, q) PROVE FALSE
    BY <1>6, <1>7 DEF ServeHTTP
  <1>8. ~(SendStoredResponse(p) \/ SendValidationRequest(p) \/ Proxy(p) \/ Finish(p))
    BY <1>6 DEF SendStoredResponse, SendValidationRequest, Proxy, Finish
  <1>9. CASE ValidationSucceeded(p) \/ ProxyAborted(p)
    <2>1. c \in missed'
      BY <1>6, <1>9 DEF ValidationSucceeded, ProxyAborted, Miss
    <2> QED
      BY <1>2, <2>1
  <1>10. CASE ValidationFailed(p) \/ ProxyDone(p)
    <2>1. /\ pc[p] \in {"validate", "proxy"} /\ Arrived(p) /\ pc'[p] = "write"
          /\ UNCHANGED <<fetch, req>>
      BY <1>1, <1>10 DEF ValidationFailed, ProxyDone
    <2>2. c \in Announced(p)'
      BY <1>6, <2>1 DEF Announced, Arrived, Fetching, Change
    <2> QED
      BY <1>2, <2>2 DEF Mine
  <1>11. CASE updateResponseAndLocations(p)
    <2>1. /\ pc[p] = "write" /\ pc'[p] = "update" /\ reply'[p] = reply[p]
          /\ todo'[p] = WorkList(req[p], fetch[p].res)
      BY <1>1, <1>11 DEF updateResponseAndLocations
    <2>2. PICK u \in Named(req[p], fetch[p].res) : c = Change(u, fetch[p].res)
      BY <1>6, <2>1 DEF Announced
    <2>3. IsRequest(req[p]) /\ IsResponse(fetch[p].res) /\ reply[p].res = fetch[p].res
      BY <1>1, <2>1 DEF TypeOK, Course, Arrived, IsFetch
    <2>4. PICK i \in DOMAIN todo'[p] : todo'[p][i].path = u
      BY <2>1, <2>2, <2>3, NamedInWorkList
    <2>5. c \in Scheduled(p)'
      BY <2>1, <2>2, <2>3, <2>4 DEF Scheduled, Change
    <2> QED
      BY <1>2, <2>5 DEF Mine
  <1>12. ASSUME pc[p] = "update", todo[p] # <<>>, NextItem(p), pc'[p] \in {"update", "save"},
                UNCHANGED reply
         PROVE  c \in Mine(p)' \/ c = Change(Head(todo[p]).path, reply[p].res)
    BY <1>1, <1>12, NextItemKeeps
  <1>13. CASE invalidateUri(p)
    <2>1. /\ pc[p] = "update" /\ todo[p] # <<>> /\ NextItem(p) /\ UNCHANGED <<pc, reply, version>>
          /\ store' = Purge(store, GetKeyPrefix(NewRequest(Head(todo[p]).path)))
      BY <1>13 DEF invalidateUri, Pending
    <2>2. Renewed(Head(todo[p]).path)
      BY <2>1 DEF Renewed, Purge
    <2>3. c \in Mine(p)' \/ c.path = Head(todo[p]).path
      BY <1>12, <2>1 DEF Change
    <2> QED
      BY <1>2, <2>2, <2>3
  <1>14. CASE revalidateUri(p)
    <2> DEFINE u == Head(todo[p]).path
    <2>1. pc[p] = "update" /\ todo[p] # <<>> /\ NextItem(p) /\ UNCHANGED <<store, reply, version>>
      BY <1>14 DEF revalidateUri, Pending
    <2>2. NewRequest(u).uri = u
      BY PlainKey
    <2>3. CASE Fetch(p, NewRequest(u)) /\ pc' = [pc EXCEPT ![p] = "save"]
      <3>1. pc'[p] = "save" /\ fetch'[p].out.uri = u
        BY <1>1, <2>2, <2>3 DEF Fetch
      <3>2. Change(u, reply[p].res) \in Scheduled(p)'
        BY <2>1, <3>1 DEF Scheduled, Change
      <3> QED
        BY <1>2, <1>12, <2>1, <3>1, <3>2 DEF Mine
    <2>4. CASE /\ Miss(IF Rows(NewRequest(u).uri) = {} THEN {}
                       ELSE {Change(NewRequest(u).uri, reply[p].res)})
               /\ UNCHANGED <<fetch, pc>>
      <3>1. c \in Mine(p)' \/ c = Change(u, reply[p].res)
        BY <1>12, <2>1, <2>4
      <3>2. CASE Rows(u) = {}
        <4>1. Renewed(u)
          BY <2>1, <3>2 DEF Renewed, Rows
        <4> QED
          BY <1>2, <3>1, <4>1 DEF Change
      <3>3. CASE Rows(u) # {}
        BY <1>2, <2>2, <2>4, <3>1, <3>3 DEF Miss
      <3> QED
        BY <3>2, <3>3
    <2> QED
      BY <1>14, <2>3, <2>4 DEF revalidateUri
  <1>15. CASE saveUpdateNow(p)
    <2> DEFINE u == Head(todo[p]).path
    <2>1. /\ pc[p] = "update" /\ todo[p] # <<>> /\ NextItem(p) /\ UNCHANGED <<reply>>
          /\ pc'[p] = "save" /\ fetch'[p].out = NewRequest(u)
      BY <1>1, <1>15 DEF saveUpdateNow, Pending, Fetch
    <2>2. fetch'[p].out.uri = u
      BY <2>1, PlainKey
    <2>3. Change(u, reply[p].res) \in Scheduled(p)'
      BY <2>1, <2>2 DEF Scheduled, Change
    <2> QED
      BY <1>2, <1>12, <2>1, <2>3 DEF Mine
  <1>16. ASSUME NEW d \in Delayed, saveUpdateLater(p, d) PROVE c \in Open'
    <2>0. d \in Procs /\ d # p
      BY <1>1 DEF Procs
    <2>1. /\ pc[p] = "update" /\ todo[p] # <<>> /\ NextItem(p) /\ UNCHANGED <<reply>>
          /\ pc'[p] = "update" /\ pc'[d] = "spawned"
          /\ own'[d] = Change(Head(todo[p]).path, reply[p].res)
      BY <1>1, <1>16, <2>0 DEF saveUpdateLater, Pending
    <2>2. own'[d] \in Unfinished'
      <3>1. own'[d] \in {own'[x] : x \in {y \in Delayed : pc'[y] # "idle"}}
        BY <2>1
      <3> QED
        BY <3>1 DEF Unfinished
    <2> QED
      BY <1>2, <1>12, <2>1, <2>2 DEF Open
  <1>17. CASE Saved(p)
    <2> DEFINE u == fetch[p].out.uri
               goal == Change(u, reply[p].res)
    <2>1. /\ pc[p] = "save" /\ pc'[p] = "update" /\ UNCHANGED <<todo, reply, version>>
          /\ fetch[p].out = NewRequest(u) /\ Goal(p) = goal
      BY <1>1, <1>17 DEF Saved, Plain, Goal
    <2>2. c \in Mine(p)' \/ c = goal
      BY <1>6, <2>1 DEF Scheduled, Mine, Change
    <2>3. PICK cached \in Cached(fetch[p].out, fetch[p]) :
            /\ store' = writeCache(fetch[p].out, fetch[p], cached)
            /\ Miss(IF cached /\ fetch[p].out.uri = Goal(p).path THEN {} ELSE {Goal(p)})
      BY <1>17 DEF Saved
    <2>4. CASE cached = TRUE
      <3>1. Renewed(u)
        BY <2>1, <2>3, <2>4, SaveRenews
      <3> QED
        BY <1>2, <2>2, <3>1 DEF Change
    <2>5. CASE cached = FALSE
      BY <1>2, <2>1, <2>2, <2>3, <2>5 DEF Miss
    <2> QED
      BY <2>4, <2>5 DEF Cached
  <1>18. CASE UpdatesDone(p)
    <2>1. pc[p] = "update" /\ todo[p] = <<>>
      BY <1>18 DEF UpdatesDone
    <2>2. FALSE
      BY <1>6, <2>1 DEF Scheduled
    <2> QED
      BY <2>2
  <1> QED
    BY <1>1, <1>3, <1>4, <1>5, <1>7, <1>8, <1>9, <1>10, <1>11, <1>13, <1>14, <1>15, <1>16,
       <1>17, <1>18, HandlerFrame DEF HandlerStep

(* The same for the change that a delayed update was started for. *)
LEMMA DelayedKeeps ==
  ASSUME HInv, Plain, [Next]_vars, NEW d \in Delayed, NEW c \in Mine(d)
  PROVE  c \in Open' \/ Renewed(c.path)
  <1>1. /\ d \in Procs /\ d # Updater /\ d \notin Handlers /\ TypeOK
        /\ DOMAIN pc = Procs /\ DOMAIN fetch = Procs /\ DOMAIN own = Delayed
    BY SiteAssumption DEF HInv, CInv, IInv, TypeOK, Procs
  <1>2. pc[d] # "idle" /\ c = own[d]
    BY <1>1 DEF Mine
  <1>3. ASSUME pc'[d] # "idle" /\ own'[d] = own[d] PROVE c \in Open'
    <2>1. c \in {own'[x] : x \in {y \in Delayed : pc'[y] # "idle"}}
      BY <1>2, <1>3
    <2> QED
      BY <2>1 DEF Open, Unfinished
  <1>4. CASE Crash
    <2>1. c \in {own[x] : x \in {y \in Delayed : pc[y] # "idle"}}
      BY <1>2
    <2>2. c \in Unfinished
      BY <2>1 DEF Unfinished
    <2> QED
      BY <1>4, <2>2 DEF Crash, Miss, Open
  <1>5. CASE OriginStep(d)
    BY <1>2, <1>3, <1>5 DEF OriginStep, OriginResponds, OriginFails
  <1>6. ~ \E p \in Handlers : saveUpdateLater(p, d)
    BY <1>2 DEF saveUpdateLater
  <1>7. CASE StartSleep(d) \/ DelayOver(d)
    BY <1>1, <1>3, <1>7 DEF StartSleep, DelayOver
  <1>8. CASE Saved(d)
    <2> DEFINE u == fetch[d].out.uri
    <2>1. version' = version /\ fetch[d].out = NewRequest(u) /\ Goal(d) = c
      BY <1>2, <1>8 DEF Saved, Plain, Goal
    <2>2. PICK cached \in Cached(fetch[d].out, fetch[d]) :
            /\ store' = writeCache(fetch[d].out, fetch[d], cached)
            /\ Miss(IF cached /\ fetch[d].out.uri = Goal(d).path THEN {} ELSE {Goal(d)})
      BY <1>8 DEF Saved
    <2>3. CASE cached = TRUE /\ u = c.path
      BY <2>1, <2>2, <2>3, SaveRenews
    <2>4. CASE ~(cached = TRUE /\ u = c.path)
      BY <2>1, <2>2, <2>4 DEF Miss, Open, Cached
    <2> QED
      BY <2>3, <2>4
  <1> QED
    BY <1>1, <1>2, <1>3, <1>4, <1>5, <1>6, <1>7, <1>8, DelayedFrame DEF DelayedStep

(* No step loses an open change, unless it renews the page. *)
LEMMA OpenStep ==
  ASSUME HInv, Plain, [Next]_vars, NEW c \in Open
  PROVE  c \in Open' \/ Renewed(c.path)
  <1>1. CASE c \in missed
    <2>1. TypeOK
      BY DEF HInv, CInv, IInv
    <2> QED
      BY <1>1, <2>1, MissedStep DEF Open
  <1>2. CASE \E p \in Handlers \cup Delayed : c \in Mine(p)
    BY <1>2, HandlerKeeps, DelayedKeeps
  <1> QED
    BY <1>1, <1>2, OpenIsMine

(* When the origin changes a resource, the change is announced by the answer *)
(* that its handler is about to read, or nobody hears of it.                 *)
LEMMA ChangeStep ==
  ASSUME HInv, NEW p \in Procs, OriginStep(p), NEW u \in URI, version'[u] # version[u]
  PROVE  [path |-> u, seen |-> version'[u]] \in Open'
  <1> DEFINE c == [path |-> u, seen |-> version'[u]]
  <1>1. TypeOK
    BY DEF HInv, CInv, IInv
  <1>2. PICK res : OriginAnswered(p, res)
    BY <1>1, OriginAnswers
  <1>3. c = Change(u, res) /\ res.seen[u] # version[u] /\ missed' = missed \cup Untold(p, res)
    BY <1>2 DEF OriginAnswered, Change
  <1>4. /\ IsFetch(fetch[p]) /\ DOMAIN fetch = Procs /\ DOMAIN pc = Procs
        /\ Fetching(p) /\ IsResponse(res)
    BY <1>1, <1>2 DEF OriginAnswered, InFlight, TypeOK
  <1>5. fetch'[p].res = res /\ UNCHANGED <<pc, req>> /\ res # None
    BY <1>2, <1>4, NoneAssumption DEF OriginAnswered, IsFetch, IsResponse
  <1>6. CASE c \in Untold(p, res)
    BY <1>3, <1>6 DEF Open
  <1>7. CASE p \in Handlers /\ pc[p] \in {"validate", "proxy"} /\ u \in Named(req[p], res)
    <2>1. c \in Announced(p)'
      BY <1>3, <1>4, <1>5, <1>7 DEF Announced, Arrived, Fetching
    <2> QED
      BY <1>7, <2>1 DEF Open, Unfinished
  <1> QED
    BY <1>3, <1>6, <1>7 DEF Untold

(************************ Every change is followed ************************)

(* Followed is inductive with what is known of handlers and plain fetches. *)
LEMMA NextFollowed == HInv /\ Plain /\ Followed /\ [Next]_vars => Followed'
  <1> SUFFICES ASSUME HInv, Plain, Followed, [Next]_vars,
                      NEW u \in URI, NEW e \in store', e.key = GetKeyPrefix(NewRequest(u)),
                      ~e.late, NEW v \in (e.res.seen[u] + 1) .. version'[u]
               PROVE  [path |-> u, seen |-> v] \in Open'
    BY DEF Followed, Rows, Open
  <1> DEFINE c == [path |-> u, seen |-> v]
  <1>1. TypeOK /\ TypeOK'
    BY NextHInv DEF HInv, CInv, IInv
  <1>2. /\ e.key.uri = u /\ e.res.seen[u] \in Int /\ MaxVersion \in Nat
        /\ version[u] \in Int /\ version'[u] \in Int
    <2>1. e.key.uri = u
      BY PlainKey DEF GetKeyPrefix
    <2>2. /\ version \in [URI -> 0..MaxVersion] /\ version' \in [URI -> 0..MaxVersion]
          /\ e.res.seen \in [URI -> 0..MaxVersion]
      BY <1>1 DEF TypeOK, IsEntry, IsResponse, Response
    <2> QED
      BY <2>1, <2>2, BoundAssumption
  <1>3. e \in store
    <2>1. CASE e \notin store
      <3>1. version'[u] = version[u] /\ e.res.seen[u] = version[u]
        BY <1>1, <1>2, <2>1, NewRowFresh DEF Fresh
      <3> QED
        BY <1>2, <3>1
    <2> QED
      BY <2>1
  <1>4. CASE v <= version[u]
    <2>1. c \in Open
      BY <1>2, <1>3, <1>4 DEF Followed, Rows, Open
    <2>2. CASE Renewed(u)
      <3>1. e.res.seen[u] = version[u] /\ version'[u] = version[u]
        BY <2>2 DEF Renewed, Fresh
      <3> QED
        BY <1>2, <3>1
    <2> QED
      BY <2>1, <2>2, OpenStep
  <1>5. CASE v > version[u]
    <2>1. version' # version
      BY <1>2, <1>5
    <2>2. PICK p \in Procs : OriginStep(p)
      BY <1>1, <2>1, VersionStep
    <2>3. version'[u] = version[u] \/ version'[u] = version[u] + 1
      BY <1>1, <2>2, VersionsMoveOn
    <2>4. v = version'[u] /\ version'[u] # version[u]
      BY <1>2, <1>5, <2>3
    <2> QED
      BY <2>2, <2>4, ChangeStep
  <1> QED
    BY <1>2, <1>4, <1>5

(* For every site, number of clients and pattern of failures and crashes: a  *)
(* page in the cache that is out of date is going to be refetched for each   *)
(* change it lacks, unless the change was lost in one of the ways that       *)
(* missed records, or the page was stored late (updateIfNeeded, saveUpdates, *)
(* revalidateUris, invalidateUris).                                          *)
THEOREM ChangesAreFollowed == Spec => []Followed
  <1>1. Init => Plain /\ Followed
    <2>1. Init => \A p \in Handlers \cup Delayed : pc[p] # "save"
      BY DEF Init, Start, Procs
    <2> QED
      BY <2>1 DEF Init, Plain, Followed, Rows
  <1>2. HInv /\ Plain /\ [Next]_vars => Plain'
    BY NextPlain DEF HInv, CInv, IInv
  <1> QED
    BY <1>1, <1>2, InitHInv, NextHInv, NextFollowed, PTL DEF Spec

(********************** Redirects wait for the updates ********************)

(* Settled, of any table and any record of lost changes. *)
Quiet(rows, lost, u, res) ==
  \A e \in rows : e.key = GetKeyPrefix(NewRequest(u)) =>
    \/ e.late \/ e.res.seen[u] >= res.seen[u]
    \/ Change(u, res) \in lost

(* Settled is Quiet for the table and the record as they are. *)
LEMMA SettledIsQuiet == \A u, res : Settled(u, res) <=> Quiet(store, missed, u, res)
  BY DEF Settled, Quiet, Rows

(* After a page is renewed nothing in the table is older than a response that was. *)
LEMMA RenewedIsQuiet ==
  ASSUME HInv, [Next]_vars, NEW u \in URI, Renewed(u),
         NEW res, IsResponse(res), NotAfter(res, version)
  PROVE  Quiet(store', missed', u, res)
  <1> SUFFICES ASSUME NEW e \in store', e.key = GetKeyPrefix(NewRequest(u)), ~e.late
               PROVE  e.res.seen[u] >= res.seen[u]
    BY DEF Quiet
  <1>1. e.res.seen[u] = version[u]
    BY DEF Renewed, Fresh
  <1>2. res.seen[u] \in Int /\ version[u] \in Int /\ res.seen[u] <= version[u]
    BY BoundAssumption DEF HInv, CInv, IInv, TypeOK, IsResponse, Response, NotAfter
  <1> QED
    BY <1>1, <1>2

(* Where nothing is older than a write, nothing older gets in. *)
LEMMA QuietStep ==
  ASSUME HInv, [Next]_vars, NEW u \in URI, NEW res, IsResponse(res), NotAfter(res, version),
         Quiet(store, missed, u, res)
  PROVE  Quiet(store', missed', u, res)
  <1> SUFFICES ASSUME NEW e \in store', e.key = GetKeyPrefix(NewRequest(u)), ~e.late
               PROVE  e.res.seen[u] >= res.seen[u] \/ Change(u, res) \in missed'
    BY DEF Quiet
  <1>1. TypeOK
    BY DEF HInv, CInv, IInv
  <1>2. CASE e \in store
    BY <1>1, <1>2, MissedStep DEF Quiet
  <1>3. CASE e \notin store
    <2>1. e.key.uri = u
      BY PlainKey DEF GetKeyPrefix
    <2>2. e.res.seen[u] = version[u]
      BY <1>1, <1>3, <2>1, NewRowFresh DEF Fresh
    <2>3. res.seen[u] \in Int /\ version[u] \in Int /\ res.seen[u] <= version[u]
      BY <1>1, BoundAssumption DEF TypeOK, IsResponse, Response, NotAfter
    <2> QED
      BY <2>2, <2>3
  <1> QED
    BY <1>2, <1>3

(* The handler is still going to update u, without a delay. *)
Ahead(p, u) ==
  \/ /\ pc[p] \in {"update", "save"}
     /\ \E j \in DOMAIN todo[p] : todo[p][j].path = u /\ todo[p][j].delay = 0
  \/ pc[p] = "save" /\ fetch[p].out.uri = u

Redirecting(p) == reply[p].from = "origin" /\ isRedirect(reply[p].res.status)

(* The URIs that a redirect waits for. *)
Immediate(q, res) ==
  {u \in URI : \E i \in DOMAIN WorkList(q, res) :
                 WorkList(q, res)[i].path = u /\ WorkList(q, res)[i].delay = 0}

(* A redirect that proxy has passed on is held back while the handler works  *)
(* on its list, and what is no longer on the list is settled.                *)
Waits(p) ==
  /\ pc[p] \in {"write", "update", "save"} /\ Redirecting(p) => ~reply[p].sent
  /\ pc[p] \in {"update", "save", "done"} /\ Redirecting(p) =>
       \A u \in Immediate(req[p], reply[p].res) :
         Quiet(store, missed, u, reply[p].res) \/ Ahead(p, u)

(* Taking the next item leaves the others ahead. *)
LEMMA AheadOrHead ==
  ASSUME TypeOK, NEW p \in Handlers, pc[p] = "update", todo[p] # <<>>, NextItem(p),
         pc'[p] \in {"update", "save"}, NEW u, Ahead(p, u)
  PROVE  Ahead(p, u)' \/ (Head(todo[p]).path = u /\ Head(todo[p]).delay = 0)
  <1>1. todo[p] \in Seq(Items) /\ DOMAIN todo = Handlers
    BY DEF TypeOK
  <1>2. PICK j \in DOMAIN todo[p] : todo[p][j].path = u /\ todo[p][j].delay = 0
    BY DEF Ahead
  <1>3. todo'[p] = Tail(todo[p])
    BY <1>1 DEF NextItem
  <1>4. CASE todo[p][j] = Head(todo[p])
    BY <1>2, <1>4
  <1>5. CASE \E k \in DOMAIN Tail(todo[p]) : Tail(todo[p])[k] = todo[p][j]
    BY <1>2, <1>3, <1>5 DEF Ahead
  <1> QED
    BY <1>1, <1>4, <1>5, HeadOrTail

(* Redirects keep waiting. *)
LEMMA NextWaits ==
  ASSUME HInv, Plain, [Next]_vars, NEW p \in Handlers, Waits(p)
  PROVE  Waits(p)'
  <1>1. /\ p \in Procs /\ p # Updater /\ p \notin Delayed /\ TypeOK /\ Course(p)
        /\ DOMAIN pc = Procs /\ DOMAIN fetch = Procs /\ DOMAIN req = Handlers
        /\ DOMAIN reply = Handlers /\ DOMAIN todo = Handlers /\ todo[p] \in Seq(Items)
    BY SiteAssumption DEF HInv, CInv, IInv, Courses, TypeOK, Procs
  <1>2. ASSUME pc[p] \in {"write", "update", "save", "done"}
        PROVE  IsResponse(reply[p].res) /\ NotAfter(reply[p].res, version)
    BY <1>1, <1>2 DEF TypeOK, IsReply, HInv, Past
  <1>3. ASSUME pc[p] \in {"write", "update", "save", "done"}, NEW u \in URI,
               \/ Quiet(store, missed, u, reply[p].res) \/ Renewed(u)
               \/ Change(u, reply[p].res) \in missed'
        PROVE  Quiet(store', missed', u, reply[p].res)
    <2>1. CASE Quiet(store, missed, u, reply[p].res)
      BY <1>2, <1>3, <2>1, QuietStep
    <2>2. CASE Renewed(u)
      BY <1>2, <1>3, <2>2, RenewedIsQuiet
    <2>3. CASE Change(u, reply[p].res) \in missed'
      BY <2>3 DEF Quiet
    <2> QED
      BY <1>3, <2>1, <2>2, <2>3
  (* A step of the update that keeps request and reply. *)
  <1>4. ASSUME pc[p] \in {"update", "save", "done"}, pc'[p] \in {"update", "save", "done"},
               pc[p] = "done" <=> pc'[p] = "done",
               req'[p] = req[p], reply'[p] = reply[p],
               \A u \in URI : Ahead(p, u) => \/ Ahead(p, u)' \/ Renewed(u)
                                             \/ Change(u, reply[p].res) \in missed'
        PROVE  Waits(p)'
    <2>1. Redirecting(p)' = Redirecting(p)
      BY <1>4 DEF Redirecting
    <2>2. ASSUME Redirecting(p), NEW u \in Immediate(req[p], reply[p].res)
          PROVE  Quiet(store', missed', u, reply[p].res) \/ Ahead(p, u)'
      <3>1. u \in URI /\ (Quiet(store, missed, u, reply[p].res) \/ Ahead(p, u))
        BY <1>4, <2>2 DEF Waits, Immediate
      <3> QED
        BY <1>3, <1>4, <3>1
    <2>3. Immediate(req[p], reply[p].res)' = Immediate(req[p], reply[p].res)
      BY <1>4 DEF Immediate, WorkList, GetInvalidateURIs, GetCacheUpdates, UnsafeRequest,
         nonErrorResponse
    <2>4. \A u : Quiet(store, missed, u, reply[p].res)' <=> Quiet(store', missed', u, reply[p].res)
      BY <1>4 DEF Quiet, Change
    <2> QED
      BY <1>4, <2>1, <2>2, <2>3, <2>4 DEF Waits
  <1>5. CASE Still(p)
    <2>1. \A u \in URI : Ahead(p, u) => Ahead(p, u)'
      BY <1>5 DEF Still, Ahead
    <2>2. CASE pc[p] \in {"update", "save", "done"}
      BY <1>4, <1>5, <2>1, <2>2 DEF Still
    <2>3. CASE pc[p] \notin {"update", "save", "done"}
      BY <1>5, <2>3 DEF Still, Waits, Redirecting
    <2> QED
      BY <2>2, <2>3
  <1>6. CASE OriginStep(p)
    <2>1. PICK res : OriginAnswered(p, res)
      BY <1>1, <1>6, OriginAnswers
    <2>2. IsFetch(fetch[p]) /\ pc[p] # "write"
      BY <1>1, <2>1 DEF OriginAnswered, InFlight, Arrived, TypeOK
    <2>3. fetch'[p].out = fetch[p].out /\ UNCHANGED <<pc, req, reply, todo>>
      BY <1>1, <2>1, <2>2 DEF OriginAnswered, IsFetch
    <2>4. \A u \in URI : Ahead(p, u) => Ahead(p, u)'
      BY <2>3 DEF Ahead
    <2>5. CASE pc[p] \in {"update", "save", "done"}
      BY <1>4, <2>3, <2>4, <2>5
    <2>6. CASE pc[p] \notin {"update", "save", "done"}
      BY <2>2, <2>3, <2>6 DEF Waits
    <2> QED
      BY <2>5, <2>6
  <1>7. ASSUME pc'[p] \in {"idle", "lookup", "validate", "proxy"} PROVE Waits(p)'
    BY <1>7 DEF Waits
  <1>8. CASE \/ Crash \/ (\E q \in Requests : ServeHTTP(p, q))
             \/ SendValidationRequest(p) \/ Proxy(p) \/ Finish(p)
    BY <1>1, <1>7, <1>8 DEF Crash, Start, ServeHTTP, SendValidationRequest, Proxy, Finish
  <1>9. ASSUME reply'[p].from # "origin" PROVE Waits(p)'
    BY <1>9 DEF Waits, Redirecting
  <1>10. CASE SendStoredResponse(p)
    <2>1. PICK e : reply' = [reply EXCEPT ![p] = StoredReply("hit", e, e.res)]
      BY <1>10 DEF SendStoredResponse
    <2> QED
      BY <1>1, <1>9, <2>1 DEF StoredReply
  <1>11. CASE ValidationSucceeded(p)
    <2>1. PICK e : reply' = [reply EXCEPT ![p] = StoredReply("validated", e, fetch[p].res)]
      BY <1>11 DEF ValidationSucceeded
    <2> QED
      BY <1>1, <1>9, <2>1 DEF StoredReply
  <1>12. CASE ValidationFailed(p) \/ ProxyAborted(p)
    BY <1>1, <1>9, <1>12 DEF ValidationFailed, ProxyAborted, Reply
  <1>13. CASE ProxyDone(p)
    <2>1. /\ pc'[p] = "write" /\ reply'[p].res = fetch[p].res
          /\ reply'[p].sent = ~isRedirect(fetch[p].res.status)
      BY <1>1, <1>13 DEF ProxyDone, Reply
    <2> QED
      BY <2>1 DEF Waits, Redirecting, isRedirect
  <1>14. CASE updateResponseAndLocations(p)
    <2>1. /\ pc[p] = "write" /\ pc'[p] = "update" /\ UNCHANGED <<req, reply>>
          /\ todo'[p] = WorkList(req[p], fetch[p].res) /\ reply[p].res = fetch[p].res
      BY <1>1, <1>14 DEF updateResponseAndLocations, Course
    <2>2. todo'[p] = WorkList(req'[p], reply'[p].res)
      BY <2>1
    <2>3. \A u \in Immediate(req[p], reply[p].res)' : Ahead(p, u)'
      BY <2>1, <2>2 DEF Immediate, Ahead
    <2> QED
      BY <2>1, <2>3 DEF Waits, Redirecting
  <1>15. CASE invalidateUri(p)
    <2>1. /\ pc[p] = "update" /\ todo[p] # <<>> /\ NextItem(p)
          /\ UNCHANGED <<pc, req, reply, version>>
          /\ store' = Purge(store, GetKeyPrefix(NewRequest(Head(todo[p]).path)))
      BY <1>15 DEF invalidateUri, Pending
    <2>2. Renewed(Head(todo[p]).path)
      BY <2>1 DEF Renewed, Purge
    <2>3. \A u \in URI : Ahead(p, u) => Ahead(p, u)' \/ Renewed(u)
      BY <1>1, <2>1, <2>2, AheadOrHead
    <2> QED
      BY <1>4, <2>1, <2>3
  <1>16. CASE revalidateUri(p)
    <2> DEFINE h == Head(todo[p]).path
    <2>1. /\ pc[p] = "update" /\ todo[p] # <<>> /\ NextItem(p)
          /\ UNCHANGED <<store, req, reply, version>>
      BY <1>16 DEF revalidateUri, Pending
    <2>2. NewRequest(h).uri = h
      BY PlainKey
    <2>3. CASE Fetch(p, NewRequest(h)) /\ pc' = [pc EXCEPT ![p] = "save"]
      <3>1. pc'[p] = "save" /\ fetch'[p].out.uri = h
        BY <1>1, <2>2, <2>3 DEF Fetch
      <3>2. \A u \in URI : u = h => Ahead(p, u)'
        BY <3>1 DEF Ahead
      <3>3. \A u \in URI : Ahead(p, u) => Ahead(p, u)'
        BY <1>1, <2>1, <3>1, <3>2, AheadOrHead
      <3> QED
        BY <1>4, <2>1, <3>1, <3>3
    <2>4. CASE /\ Miss(IF Rows(NewRequest(h).uri) = {} THEN {}
                       ELSE {Change(NewRequest(h).uri, reply[p].res)})
               /\ UNCHANGED <<fetch, pc>>
      <3>1. Renewed(h) \/ Change(h, reply[p].res) \in missed'
        BY <2>1, <2>2, <2>4 DEF Renewed, Rows, Miss
      <3>2. \A u \in URI : Ahead(p, u) => \/ Ahead(p, u)' \/ Renewed(u)
                                          \/ Change(u, reply[p].res) \in missed'
        BY <1>1, <2>1, <2>4, <3>1, AheadOrHead
      <3> QED
        BY <1>4, <2>1, <2>4, <3>2
    <2> QED
      BY <1>16, <2>3, <2>4 DEF revalidateUri
  <1>17. CASE saveUpdateNow(p)
    <2> DEFINE h == Head(todo[p]).path
    <2>1. /\ pc[p] = "update" /\ todo[p] # <<>> /\ NextItem(p) /\ UNCHANGED <<req, reply>>
          /\ pc'[p] = "save" /\ fetch'[p].out = NewRequest(h)
      BY <1>1, <1>17 DEF saveUpdateNow, Pending, Fetch
    <2>2. fetch'[p].out.uri = h
      BY <2>1, PlainKey
    <2>3. \A u \in URI : u = h => Ahead(p, u)'
      BY <2>1, <2>2 DEF Ahead
    <2>4. \A u \in URI : Ahead(p, u) => Ahead(p, u)'
      BY <1>1, <2>1, <2>3, AheadOrHead
    <2> QED
      BY <1>4, <2>1, <2>4
  <1>18. ASSUME NEW d \in Delayed, saveUpdateLater(p, d) PROVE Waits(p)'
    <2>1. d # p
      BY <1>1
    <2>2. /\ pc[p] = "update" /\ todo[p] # <<>> /\ NextItem(p) /\ UNCHANGED <<req, reply>>
          /\ pc'[p] = "update" /\ Head(todo[p]).delay > 0
      BY <1>1, <1>18, <2>1 DEF saveUpdateLater, Pending
    <2>3. Head(todo[p]).delay # 0
      BY <2>2
    <2>4. \A u \in URI : Ahead(p, u) => Ahead(p, u)'
      BY <1>1, <2>2, <2>3, AheadOrHead
    <2> QED
      BY <1>4, <2>2, <2>4
  <1>19. CASE Saved(p)
    <2> DEFINE h == fetch[p].out.uri
    <2>1. /\ pc[p] = "save" /\ pc'[p] = "update" /\ UNCHANGED <<todo, req, reply, version>>
          /\ fetch[p].out = NewRequest(h) /\ Goal(p) = Change(h, reply[p].res)
      BY <1>1, <1>19 DEF Saved, Plain, Goal
    <2>2. PICK cached \in Cached(fetch[p].out, fetch[p]) :
            /\ store' = writeCache(fetch[p].out, fetch[p], cached)
            /\ Miss(IF cached /\ fetch[p].out.uri = Goal(p).path THEN {} ELSE {Goal(p)})
      BY <1>19 DEF Saved
    <2>3. Renewed(h) \/ Change(h, reply[p].res) \in missed'
      <3>1. CASE cached = TRUE
        BY <2>1, <2>2, <3>1, SaveRenews
      <3>2. CASE cached = FALSE
        BY <2>1, <2>2, <3>2 DEF Miss
      <3> QED
        BY <3>1, <3>2 DEF Cached
    <2>4. \A u \in URI : Ahead(p, u) => Ahead(p, u)' \/ u = h
      BY <2>1 DEF Ahead
    <2> QED
      BY <1>4, <2>1, <2>3, <2>4
  <1>20. CASE UpdatesDone(p)
    <2>1. /\ pc[p] = "update" /\ todo[p] = <<>> /\ IsReply(reply[p])
          /\ pc'[p] = "done" /\ req'[p] = req[p]
      BY <1>1, <1>20 DEF UpdatesDone, TypeOK
    <2>2. reply'[p].from = reply[p].from /\ reply'[p].res = reply[p].res
      BY <1>1, <1>20, <2>1 DEF UpdatesDone, IsReply
    <2>3. \A u : ~Ahead(p, u)
      BY <2>1 DEF Ahead
    <2>4. ASSUME Redirecting(p), NEW u \in Immediate(req[p], reply[p].res)
          PROVE  Quiet(store', missed', u, reply[p].res)
      BY <1>3, <2>1, <2>3, <2>4 DEF Waits, Immediate
    <2>5. Immediate(req[p], reply[p].res)' = Immediate(req[p], reply[p].res)
      BY <2>1, <2>2 DEF Immediate, WorkList, GetInvalidateURIs, GetCacheUpdates, UnsafeRequest,
         nonErrorResponse
    <2>6. \A u : Quiet(store, missed, u, reply[p].res)' <=> Quiet(store', missed', u, reply[p].res)
      BY <2>2 DEF Quiet, Change
    <2> QED
      BY <2>1, <2>2, <2>4, <2>5, <2>6 DEF Waits, Redirecting
  <1> QED
    BY <1>1, <1>5, <1>6, <1>8, <1>10, <1>11, <1>12, <1>13, <1>14, <1>15, <1>16, <1>17, <1>18,
       <1>19, <1>20, HandlerFrame DEF HandlerStep

(* A redirect that the proxy passes on reaches the client when every page    *)
(* that it names for an update without delay is as new as the write, or has  *)
(* been given up: proxy's synchronous call of updateResponseAndLocations.    *)
THEOREM RedirectsWait == Spec => []RedirectAfterUpdate
  <1> DEFINE Inv == HInv /\ Plain /\ \A p \in Handlers : Waits(p)
  <1>1. Init => Inv
    <2> SUFFICES ASSUME Init PROVE Inv
      OBVIOUS
    <2>1. \A p \in Handlers \cup Delayed : pc[p] = "idle"
      BY SiteAssumption DEF Init, Start, Procs
    <2> QED
      BY <2>1, InitHInv DEF Plain, Waits
  <1>2. Inv /\ [Next]_vars => Inv'
    <2> SUFFICES ASSUME Inv, [Next]_vars PROVE Inv'
      OBVIOUS
    <2>1. HInv' /\ Plain'
      BY NextHInv, NextPlain DEF HInv, CInv, IInv
    <2>2. \A p \in Handlers : Waits(p)'
      BY NextWaits
    <2> QED
      BY <2>1, <2>2
  <1>3. Inv => RedirectAfterUpdate
    <2> SUFFICES ASSUME Inv, NEW p \in Handlers, reply[p] # None, reply[p].from = "origin",
                        reply[p].sent, isRedirect(reply[p].res.status),
                        NEW i \in DOMAIN WorkList(req[p], reply[p].res),
                        WorkList(req[p], reply[p].res)[i].delay = 0
                 PROVE  Settled(WorkList(req[p], reply[p].res)[i].path, reply[p].res)
      BY DEF RedirectAfterUpdate
    <2> DEFINE u == WorkList(req[p], reply[p].res)[i].path
    <2>1. Course(p) /\ Waits(p) /\ TypeOK
      BY DEF HInv, CInv, IInv, Courses
    <2>2. pc[p] = "done"
      BY <2>1 DEF Course, HandlerLabels, Waits, Redirecting
    <2>3. IsRequest(req[p]) /\ IsResponse(reply[p].res)
      BY <2>1, <2>2 DEF TypeOK, IsReply
    <2>4. u \in URI
      <3>1. WorkList(req[p], reply[p].res) \in Seq(Items)
        BY <2>3, WorkListType
      <3>2. WorkList(req[p], reply[p].res)[i] \in Items
        BY <3>1
      <3> QED
        BY <3>2 DEF Items
    <2>5. u \in Immediate(req[p], reply[p].res)
      BY <2>4 DEF Immediate
    <2>6. Quiet(store, missed, u, reply[p].res)
      BY <2>1, <2>2, <2>5 DEF Waits, Redirecting, Ahead
    <2> QED
      BY <2>6, SettledIsQuiet
  <1> QED
    BY <1>1, <1>2, <1>3, PTL DEF Spec

(************************ Refreshing before expiry ************************)

(* A site without Cache-Key, whose answers to a URI all vary on the same     *)
(* fields.  Keys of other sites are not rebuilt: the Cache-Key is lost, and  *)
(* a response with another Vary goes under another key.                      *)
SteadyKeys ==
  /\ \A q \in Requests : q.ckey = <<>>
  /\ \A r, s \in Replies : r.method = s.method /\ r.uri = s.uri => r.hdr.vary = s.hdr.vary

(* Whatever the origin answers to the request of a key goes under that key. *)
Rebuilt(key) ==
  LET q == GetRequestFromKey(key)
  IN \A r \in Answers(q) : AddVaryKeys(GetKeyPrefix(q), q, r.hdr) = key

(* The updater asks for the key that it works on, and the key can be rebuilt; *)
(* nobody else is where the updater is, and it is not where others are.       *)
Refreshing ==
  /\ \A e \in store : e.orig.ckey = <<>>
  /\ \A d \in Delayed : pc[d] \notin {"refresh", "retry"}
  /\ pc[Updater] \notin {"validate", "proxy", "write", "save"}
  /\ pc[Updater] \in {"refresh", "backoff", "retry"} => Rebuilt(oldest)
  /\ pc[Updater] \in {"refresh", "retry"} => fetch[Updater].out = GetRequestFromKey(oldest)

(* On a steady site the key of every row can be rebuilt. *)
LEMMA RowsAreRebuilt ==
  ASSUME SteadyKeys, HInv, Refreshing, NEW e \in store
  PROVE  Rebuilt(e.key)
  <1> DEFINE q == GetRequestFromKey(e.key)
  <1>1. IsEntry(e) /\ Genuine(e) /\ e.orig.ckey = <<>>
    BY DEF HInv, CInv, IInv, TypeOK, Origins, Refreshing
  <1>2. PICK s \in Answers(e.orig) : e.res.hdr = s.hdr
    BY <1>1 DEF Genuine
  <1>3. q.method = e.orig.method /\ q.uri = e.orig.uri
    BY <1>1 DEF Genuine, GetRequestFromKey, AddVaryKeys, GetKeyPrefix
  <1>4. e.res.hdr.vary \in Seq(Field \cup {"*"})
    BY <1>1 DEF IsEntry, IsResponse, Response, Header
  <1>5. ASSUME NEW r \in Answers(q) PROVE AddVaryKeys(GetKeyPrefix(q), q, r.hdr) = e.key
    <2>1. r.hdr.vary = e.res.hdr.vary
      BY <1>2, <1>3 DEF Answers, SteadyKeys
    <2>2. e.key = AddVaryKeys(GetKeyPrefix(e.orig), e.orig, e.res.hdr)
      BY <1>1 DEF Genuine
    <2> QED
      BY <1>1, <1>4, <2>1, <2>2, KeyRoundTrip
  <1> QED
    BY <1>5 DEF Rebuilt

(* The updater keeps to a key that can be rebuilt. *)
LEMMA NextRefreshing ==
  ASSUME SteadyKeys, HInv, Plain, Refreshing, [Next]_vars
  PROVE  Refreshing'
  <1>1. /\ TypeOK /\ Courses /\ Updater \in Procs
        /\ DOMAIN pc = Procs /\ DOMAIN fetch = Procs
    BY DEF HInv, CInv, IInv, TypeOK, Procs
  <1>2. \A k : GetRequestFromKey(k).ckey = <<>>
    BY DEF GetRequestFromKey
  <1>3. ASSUME NEW e \in store' PROVE e.orig.ckey = <<>>
    <2>1. CASE e \in store
      BY <2>1 DEF Refreshing
    <2>2. CASE e \notin store
      <3>1. PICK p, q : p \in Procs /\ Stores(p, q) /\ e = CacheEntry(q, fetch[p])
        BY <1>1, <2>2, StoreStep
      <3>2. CASE p \in Handlers /\ q = req[p] /\ pc[p] = "write"
        BY <1>1, <3>2, <3>1 DEF Courses, Course, SteadyKeys, CacheEntry
      <3>3. CASE q = fetch[p].out /\ pc[p] \in {"save", "refresh", "retry"}
        <4>1. CASE p = Updater
          BY <1>2, <3>1, <3>3, <4>1 DEF Refreshing, CacheEntry
        <4>2. CASE p \in Handlers \cup Delayed
          <5>1. pc[p] = "save"
            BY <1>1, <3>3, <4>2 DEF Courses, Course, HandlerLabels, Refreshing
          <5>2. q = NewRequest(q.uri)
            BY <3>3, <4>2, <5>1 DEF Plain
          <5> QED
            BY <1>2, <3>1, <5>2 DEF NewRequest, CacheEntry
        <4> QED
          BY <3>1, <4>1, <4>2 DEF Procs
      <3> QED
        BY <3>1, <3>2, <3>3 DEF Stores
    <2> QED
      BY <2>1, <2>2
  <1>4. ASSUME NEW d \in Delayed PROVE pc'[d] \notin {"refresh", "retry"}
    <2>1. d \in Procs /\ d # Updater /\ pc[d] \notin {"refresh", "retry"}
      BY SiteAssumption DEF Procs, Refreshing
    <2>2. CASE DelayedStep(d)
      BY <1>1, <2>1, <2>2 DEF DelayedStep, StartSleep, DelayOver, Saved
    <2>3. CASE OriginStep(d) \/ Crash
      BY <1>1, <2>1, <2>3 DEF OriginStep, OriginResponds, OriginFails, Crash, Start
    <2>4. ASSUME NEW p \in Handlers, saveUpdateLater(p, d) PROVE pc'[d] = "spawned"
      BY <1>1, <2>1, <2>4 DEF saveUpdateLater
    <2> QED
      BY <1>1, <2>1, <2>2, <2>3, <2>4, DelayedFrame
  <1> DEFINE Working == /\ pc[Updater] \notin {"validate", "proxy", "write", "save"}
                        /\ pc[Updater] \in {"refresh", "backoff", "retry"} => Rebuilt(oldest)
                        /\ pc[Updater] \in {"refresh", "retry"}
                             => fetch[Updater].out = GetRequestFromKey(oldest)
  <1>5. Working
    BY DEF Refreshing
  <1>6. CASE updateEntry
    <2>1. PICK e \in Oldest : oldest' = e.key /\ Fetch(Updater, GetRequestFromKey(e.key))
      BY <1>6 DEF updateEntry
    <2>2. Rebuilt(oldest')
      BY <2>1, RowsAreRebuilt DEF Oldest
    <2>3. pc'[Updater] = "refresh" /\ fetch'[Updater].out = GetRequestFromKey(oldest')
      BY <1>1, <1>6, <2>1 DEF updateEntry, UpdaterGoes, Fetch
    <2> QED
      BY <1>3, <1>4, <2>2, <2>3 DEF Refreshing, Rebuilt
  <1>7. CASE Refreshed
    <2>1. pc[Updater] = "refresh"
      BY <1>7 DEF Refreshed
    <2>2. pc'[Updater] = "poll" \/ (pc'[Updater] = "backoff" /\ oldest' = oldest)
      BY <1>1, <1>7 DEF Refreshed, UpdaterGoes
    <2> QED
      BY <1>3, <1>4, <1>5, <2>1, <2>2 DEF Refreshing, Rebuilt
  <1>8. CASE Retry
    <2>1. /\ pc[Updater] = "backoff" /\ pc'[Updater] = "retry" /\ oldest' = oldest
          /\ fetch'[Updater].out = GetRequestFromKey(oldest)
      BY <1>1, <1>8 DEF Retry, UpdaterGoes, Fetch
    <2> QED
      BY <1>3, <1>4, <1>5, <2>1 DEF Refreshing, Rebuilt
  <1>9. CASE NothingExpires \/ Wake \/ Retried \/ Crash
    <2>1. pc'[Updater] \in {"sleep", "poll", "off"}
      BY <1>1, <1>9 DEF NothingExpires, Wake, Retried, UpdaterGoes, Crash, Start
    <2> QED
      BY <1>3, <1>4, <2>1 DEF Refreshing
  <1>10. CASE OriginStep(Updater)
    <2>1. PICK res : OriginAnswered(Updater, res)
      BY <1>1, <1>10, OriginAnswers
    <2>2. IsFetch(fetch[Updater])
      BY <1>1, <2>1 DEF OriginAnswered, InFlight, TypeOK
    <2>3. fetch'[Updater].out = fetch[Updater].out /\ UNCHANGED <<pc, oldest>>
      BY <1>1, <1>10, <2>1, <2>2 DEF OriginAnswered, IsFetch, OriginStep, OriginResponds,
         OriginFails
    <2> QED
      BY <1>3, <1>4, <1>5, <2>3 DEF Refreshing, Rebuilt
  <1>11. CASE pc'[Updater] = pc[Updater] /\ fetch'[Updater] = fetch[Updater] /\ oldest' = oldest
    BY <1>3, <1>4, <1>5, <1>11 DEF Refreshing, Rebuilt
  <1> QED
    BY <1>1, <1>6, <1>7, <1>8, <1>9, <1>10, <1>11, UpdaterFrame DEF UpdaterStep

(* On a steady site the updater replaces what it refreshes: what it fetches  *)
(* for a key, at once or after a failure, is stored under that key           *)
(* (updateEntry, GetRequestFromKey).                                         *)
THEOREM RefreshesKeepKeys == SteadyKeys => (Spec => []RefreshKeepsKey)
  <1> SUFFICES ASSUME SteadyKeys PROVE Spec => []RefreshKeepsKey
    OBVIOUS
  <1> DEFINE Inv == HInv /\ Plain /\ Refreshing
  <1>1. Init => Inv
    <2> SUFFICES ASSUME Init PROVE Inv
      OBVIOUS
    <2>1. /\ \A p \in Handlers \cup Delayed : pc[p] = "idle"
          /\ pc[Updater] \in {"off", "poll"} /\ store = {}
      BY SiteAssumption DEF Init, Start, Procs
    <2> QED
      BY <2>1, InitHInv DEF Plain, Refreshing
  <1>2. Inv /\ [Next]_vars => Inv'
    <2> SUFFICES ASSUME Inv, [Next]_vars PROVE Inv'
      OBVIOUS
    <2> QED
      BY NextHInv, NextPlain, NextRefreshing DEF HInv, CInv, IInv
  <1>3. Inv => RefreshKeepsKey
    <2> DEFINE f == fetch[Updater]
    <2> SUFFICES ASSUME Inv, Arrived(Updater), ~MustNotStore(f.out, f.res.status, f.res.hdr)
                 PROVE  CacheEntry(f.out, f).key = oldest
      BY DEF RefreshKeepsKey
    <2>1. FromOrigin(f) /\ f.res.hdr # EmptyHeader
      BY DEF HInv, CInv, Origins, Procs, MustNotStore
    <2>2. PICK r \in Answers(f.out) : f.res.hdr = r.hdr
      BY <2>1 DEF FromOrigin
    <2>3. pc[Updater] \in {"refresh", "retry"}
      BY DEF Arrived, Fetching, Refreshing
    <2>4. f.out = GetRequestFromKey(oldest) /\ Rebuilt(oldest)
      BY <2>3 DEF Refreshing
    <2> QED
      BY <2>2, <2>4 DEF Rebuilt, CacheEntry
  <1> QED
    BY <1>1, <1>2, <1>3, PTL DEF Spec
=============================================================================
