---------------------------- MODULE AlwaysCache ----------------------------
(***************************************************************************)
(* The cache itself: always-cache.go, updater.go and the table of          *)
(* cache/cache-provider.go, between clients and an origin server.          *)
(*                                                                         *)
(* A handler is the goroutine net/http runs for one client request,        *)
(* followed by the goroutine it starts to store the response and to bring  *)
(* other responses up to date.  A delayed process is a goroutine of        *)
(* saveUpdates that sleeps before it updates.  The updater is the loop of  *)
(* updateCache.  What runs between two waits (for the origin, for the      *)
(* database, for time to pass) is one step; the database serialises All,   *)
(* PutCE and Purge behind one mutex.                                       *)
(*                                                                         *)
(* Fields and variables marked "ghost" are not in the program; only the    *)
(* properties read them.                                                   *)
(***************************************************************************)
EXTENDS Storing, Reuse, FiniteSets

CONSTANTS
  Handlers, Delayed, Updater,  \* process identifiers
  Requests,   \* the requests that clients send
  Replies,    \* what the origin answers: see ReplyPattern
  Skews,      \* how far the origin's clock may be off, in ticks
  Ages,       \* the Age fields that upstream caches may add
  Failures,   \* subset of {"unreachable", "truncated", "database"}
  HasExact,   \* whether CacheProvider.Has reports what is stored
  Legacy,     \* DisableUpdates: invalidate only
  Crashes,    \* whether the process may crash and be restarted
  InMemory,   \* whether a restart begins with an empty database
  MaxTime,    \* bound: the clock stops here
  MaxVersion  \* bound: how often a resource changes

Methods == {"GET", "HEAD", "POST"}

(* An answer of the origin to a method and URI, and the resources whose     *)
(* state the request changes there.                                         *)
ReplyPattern == [method : Methods, uri : URI, status : 200..599,
                 hdr : Header, changes : SUBSET URI]

ASSUME SiteAssumption ==
  /\ \A q \in Requests :
       /\ DOMAIN q = {"method", "uri", "ckey", "header", "auth", "inm", "ims"}
       /\ q.method \in Methods /\ q.uri \in URI
  /\ Replies \subseteq ReplyPattern
  /\ Updater \notin Handlers \cup Delayed
  /\ Handlers \cap Delayed = {}

(* The times that occur fit a duration: 292 years in Go. *)
ASSUME BoundAssumption ==
  /\ MaxTime \in Nat
  /\ MaxVersion \in Nat
  /\ Skews \subseteq Int
  /\ \A s \in Skews : MaxTime + Second - s <= MaxDuration
  /\ MaxTime + Second <= MaxDuration
  /\ Ages \subseteq {Absent} \cup Nat
  /\ Absent \in Ages
  /\ \A a \in Ages : Second * a + MaxTime <= MaxDuration

Procs == Handlers \cup Delayed \cup {Updater}
Time == 0..MaxTime

(* A response as the proxy records it.  Ghosts: the state of the origin that  *)
(* it was rendered from (seen) and the time of that (at).                     *)
Response == [status : 200..599, hdr : Header, clock : Int, age : Ages,
             whole : BOOLEAN, seen : [URI -> 0..MaxVersion], at : Time]

ASSUME NoneAssumption == None \notin Response /\ None \notin Int

VARIABLES
  now,      \* the wall clock of the cache
  version,  \* the state of every resource at the origin
  store,    \* the rows of the database
  pc,       \* where each process is
  req,      \* the client's request
  found,    \* the entries the lookup returned
  fetch,    \* a request sent through the reverse proxy, and its ResponseSaver
  todo,     \* what is left to invalidate, revalidate and update
  update,   \* the loop variable of saveUpdates, shared by its goroutines
  reply,    \* what the client got
  owner,    \* the handler whose saveUpdates started a delayed process
  own,      \* ghost: the change that a delayed process was started for
  due,      \* when a sleeping process wakes up
  oldest,   \* the key that the updater is working on
  since,    \* ghost: the state of the origin when a client sent its request
  missed    \* ghost: the changes that no update will follow, see Followed

ghosts == <<since, missed>>
local == <<pc, req, found, fetch, todo, update, reply, owner, own, due, oldest>>
vars == <<now, version, store, local, ghosts>>

(****************************** The database ******************************)

All(prefix) == {e \in store : Like(prefix, e.key)}

(* INSERT OR REPLACE *)
PutCE(rows, e) == {r \in rows : r.key # e.key} \cup {e}

Purge(rows, key) == {r \in rows : r.key # key}

(* The row that updates of a URI are about: the one of the plain GET request. *)
Rows(u) == {e \in store : e.key = GetKeyPrefix(NewRequest(u))}

(* Has executes a SELECT and asks for the rows it affected.  database/sql    *)
(* promises a number only for statements that change rows, so unless         *)
(* HasExact any answer is possible.                                          *)
Has(key) == IF HasExact THEN {\E r \in store : r.key = key} ELSE BOOLEAN

(* Entries that expire at some time, the earliest first. *)
Oldest ==
  LET dated == {r \in store : r.key.method = "GET" /\ r.expires > 0}
  IN {r \in dated : \A s \in dated : r.expires <= s.expires}

(********************** Requests through the proxy ************************)

Fetch(p, q) == fetch' = [fetch EXCEPT ![p] = [out |-> q, created |-> now, res |-> None]]
EndFetch(p) == fetch' = [fetch EXCEPT ![p] = None]
Fetching(p) == pc[p] \in {"validate", "proxy", "write", "save", "refresh", "retry"}
InFlight(p) == Fetching(p) /\ fetch[p].res = None
Arrived(p) == Fetching(p) /\ fetch[p].res # None

(* Mutant: the request time is taken when the response is written. *)
StampedWhenWritten(q, f) ==
  [key |-> AddVaryKeys(GetKeyPrefix(q), q, f.res.hdr),
   expires |-> Unix(GetExpiration(f.res, now)),
   requestedAt |-> Unix(now), receivedAt |-> Unix(now), res |-> f.res,
   orig |-> q, late |-> f.res.seen[q.uri] # version[q.uri]]

(* The row that writeCache makes of a recorded response to q. *)
CacheEntry(q, f) ==
  [key         |-> AddVaryKeys(GetKeyPrefix(q), q, f.res.hdr),
   expires     |-> Unix(GetExpiration(f.res, now)),
   requestedAt |-> Unix(f.created),
   receivedAt  |-> Unix(now),
   res         |-> f.res,
   orig        |-> q,                                           \* ghost
   late        |-> f.res.seen[q.uri] # version[q.uri]]          \* ghost

(* writeCache: whether it stores the response, as it tells its caller, and   *)
(* the rows after it.                                                        *)
Cached(q, f) ==
  IF MustNotStore(q, f.res.status, f.res.hdr) THEN {FALSE}
  ELSE {TRUE} \cup (IF "database" \in Failures THEN {FALSE} ELSE {})

writeCache(q, f, cached) ==
  IF cached THEN PutCE(store, CacheEntry(q, f)) ELSE store

(******************** Ghost: changes and their updates ********************)

(* A change of a resource: the state that a write brought it to. *)
Changes == [path : URI, seen : 0..MaxVersion]
Change(u, res) == [path |-> u, seen |-> res.seen[u]]

(* What the answer to a request says it has changed: its target, the places   *)
(* in Location and Content-Location, the paths of Cache-Update.               *)
Named(q, res) ==
  IF q.method # "POST" THEN {}
  ELSE {res.hdr.updates[i].path : i \in DOMAIN res.hdr.updates}
       \cup IF res.status \in 200..399
            THEN {q.uri} \cup {res.hdr.location[i] : i \in DOMAIN res.hdr.location} ELSE {}

(* The changes that a handler knows of and has not yet brought to the cache. *)
Announced(p) ==
  IF pc[p] \in {"validate", "proxy", "write"} /\ Arrived(p)
  THEN {Change(u, fetch[p].res) : u \in Named(req[p], fetch[p].res)} ELSE {}
Scheduled(p) ==
  (IF pc[p] \in {"update", "save"}
   THEN {Change(todo[p][i].path, reply[p].res) : i \in DOMAIN todo[p]} ELSE {})
  \cup (IF pc[p] = "save" THEN {Change(fetch[p].out.uri, reply[p].res)} ELSE {})

(* All changes that some goroutine is still going to bring to the cache. *)
Unfinished ==
  (UNION {Announced(p) \cup Scheduled(p) : p \in Handlers})
  \cup {own[d] : d \in {x \in Delayed : pc[x] # "idle"}}

(* The changes that res, the answer to p, reports to nobody. *)
Untold(p, res) ==
  LET told == IF p \in Handlers /\ pc[p] \in {"validate", "proxy"}
              THEN Named(req[p], res) ELSE {}
  IN {Change(u, res) : u \in {x \in URI : res.seen[x] # version[x]} \ told}

Miss(changes) == missed' = missed \cup changes

(******************************* The origin *******************************)

(* A write changes the state of some resources; one beyond the bound finds   *)
(* nothing left to change.                                                   *)
Changed(uris) ==
  [u \in URI |-> IF u \in uris /\ version[u] < MaxVersion
                 THEN version[u] + 1 ELSE version[u]]

(* Preconditions as RFC 9110 section 13 has them evaluated, on the state that *)
(* the answer is rendered from.                                               *)
NotModified(q, r, state) ==
  /\ q.method \in {"GET", "HEAD"} /\ r.status = 200
  /\ IF q.inm # None
     THEN "etag" \in r.hdr.validators /\ q.inm = state[q.uri]
     ELSE q.ims # None /\ "lm" \in r.hdr.validators /\ q.ims >= state[q.uri]

Answers(q) == {r \in Replies : r.method = q.method /\ r.uri = q.uri}

OriginResponds(p) ==
  /\ InFlight(p)
  /\ \E r \in Answers(fetch[p].out), skew \in Skews, age \in Ages,
        whole \in {TRUE} \cup (IF "truncated" \in Failures THEN {FALSE} ELSE {}) :
       /\ version' = Changed(r.changes)
       /\ fetch' = [fetch EXCEPT ![p].res =
            [status |-> IF NotModified(fetch[p].out, r, version') THEN 304 ELSE r.status,
             hdr    |-> r.hdr,
             clock  |-> Unix(now + skew),
             age    |-> age,
             whole  |-> whole,
             seen   |-> version',
             at     |-> now]]
  /\ Miss(Untold(p, fetch'[p].res))
  /\ UNCHANGED <<now, store, pc, req, found, todo, update, reply, owner, own, due, oldest, since>>

(* The origin cannot be reached, or its answer is lost: httputil.ReverseProxy *)
(* answers 502 without header fields.  The request may have been carried out. *)
OriginFails(p) ==
  /\ "unreachable" \in Failures
  /\ InFlight(p)
  /\ version' \in {version} \cup {Changed(r.changes) : r \in Answers(fetch[p].out)}
  /\ fetch' = [fetch EXCEPT ![p].res =
       [status |-> 502, hdr |-> EmptyHeader, clock |-> Unix(now), age |-> Absent,
        whole |-> TRUE, seen |-> version', at |-> now]]
  /\ Miss(Untold(p, fetch'[p].res))
  /\ UNCHANGED <<now, store, pc, req, found, todo, update, reply, owner, own, due, oldest, since>>

(***************************** Client requests ****************************)

(* What a client gets: a response of the origin, or a stored one with its Age *)
(* field set (AddAgeHeader).  checked is a ghost: the origin's last word.     *)
Reply(from, res, orig, sent) ==
  [from |-> from, res |-> res, orig |-> orig, age |-> res.age,
   sent |-> sent, at |-> now, checked |-> res]

(* Mutant: the two timestamps are passed in the order of MustNotReuse. *)
AgeOfSwappedTimes(e, t) ==
  toDeltaSeconds(current_age(e.res, e.requestedAt, e.receivedAt, t))

AddAgeHeader(e, t) ==
  toDeltaSeconds(current_age(e.res, e.receivedAt, e.requestedAt, t))

StoredReply(from, e, checked) ==
  [from |-> from, res |-> e.res, orig |-> e.orig, age |-> AddAgeHeader(e, now),
   sent |-> TRUE, at |-> now, checked |-> checked]

isRedirect(status) == status \in {301, 302, 303, 307, 308}

(* A client has only validators that the origin has given out. *)
Known(q) == \A v \in {q.inm, q.ims} \ {None} : v <= version[q.uri]

(* What a lookup may find: a query that fails counts as one without results. *)
getResponsesForUri(q) ==
  {All(GetKeyPrefix(q))} \cup (IF "database" \in Failures THEN {{}} ELSE {})

(* ServeHTTP up to the lookup.  A handler is free for a new request when the *)
(* goroutines of its last one have ended.                                    *)
ServeHTTP(p, q) ==
  /\ pc[p] = "idle" /\ Known(q)
  /\ \A d \in Delayed : owner[d] # p
  /\ pc' = [pc EXCEPT ![p] = "lookup"]
  /\ req' = [req EXCEPT ![p] = q]
  /\ \E rows \in getResponsesForUri(q) : found' = [found EXCEPT ![p] = rows]
  /\ since' = [since EXCEPT ![p] = version]
  /\ UNCHANGED <<now, version, store, fetch, todo, update, reply, owner, own, due, oldest, missed>>

(* The loop over the entries.  It passes over those that are not for this    *)
(* request and stops at the first that is; the query has no ORDER BY, so     *)
(* that may be any of them.                                                  *)
SendStoredResponse(p) ==
  /\ pc[p] = "lookup"
  /\ \E e \in found[p] :
       /\ MustNotReuse(req[p], e, now) = "reuse"
       /\ reply' = [reply EXCEPT ![p] = StoredReply("hit", e, e.res)]
  /\ pc' = [pc EXCEPT ![p] = "done"]
  /\ UNCHANGED <<now, version, store, req, found, fetch, todo, update, owner, own, due, oldest, ghosts>>

SendValidationRequest(p) ==
  /\ pc[p] = "lookup"
  /\ \E e \in found[p] :
       /\ MustNotReuse(req[p], e, now) = "validate"
       /\ found' = [found EXCEPT ![p] = {e}]
       /\ Fetch(p, generateConditionalRequest(req[p], e))
  /\ pc' = [pc EXCEPT ![p] = "validate"]
  /\ UNCHANGED <<now, version, store, req, todo, update, reply, owner, own, due, oldest, ghosts>>

Proxy(p) ==
  /\ pc[p] = "lookup"
  /\ \A e \in found[p] : MustNotReuse(req[p], e, now) = "forward"
  /\ Fetch(p, req[p])
  /\ pc' = [pc EXCEPT ![p] = "proxy"]
  /\ UNCHANGED <<now, version, store, req, found, todo, update, reply, owner, own, due, oldest, ghosts>>

(* A 304 is filtered out by the ResponseSaver and the stored response is sent. *)
ValidationSucceeded(p) ==
  /\ pc[p] = "validate" /\ Arrived(p)
  /\ fetch[p].res.status = 304
  /\ \E e \in found[p] :
       reply' = [reply EXCEPT ![p] = StoredReply("validated", e, fetch[p].res)]
  /\ EndFetch(p)
  /\ pc' = [pc EXCEPT ![p] = "done"]
  /\ Miss(Announced(p))
  /\ UNCHANGED <<now, version, store, req, found, todo, update, owner, own, due, oldest, since>>

(* Any other answer has been written to the client; a goroutine stores it.  A *)
(* validation request is not a server's request, so a truncated body does not *)
(* abort it.                                                                  *)
ValidationFailed(p) ==
  /\ pc[p] = "validate" /\ Arrived(p)
  /\ fetch[p].res.status # 304
  /\ reply' = [reply EXCEPT ![p] = Reply("replaced", fetch[p].res, req[p], TRUE)]
  /\ pc' = [pc EXCEPT ![p] = "write"]
  /\ UNCHANGED <<now, version, store, req, found, fetch, todo, update, owner, own, due, oldest, ghosts>>

(* Mutant: the answer does not wait for the updates. *)
ProxyDoneAtOnce(p) ==
  /\ pc[p] = "proxy" /\ Arrived(p)
  /\ fetch[p].res.whole
  /\ reply' = [reply EXCEPT ![p] = Reply("origin", fetch[p].res, req[p], TRUE)]
  /\ pc' = [pc EXCEPT ![p] = "write"]
  /\ UNCHANGED <<now, version, store, req, found, fetch, todo, update, owner, own, due, oldest, ghosts>>

(* After a redirect the handler returns, and the client gets the answer, only *)
(* when everything is updated: a redirect is short enough for net/http to     *)
(* hold it back until then.  Otherwise a goroutine takes over.                *)
ProxyDone(p) ==
  /\ pc[p] = "proxy" /\ Arrived(p)
  /\ fetch[p].res.whole
  /\ reply' = [reply EXCEPT ![p] =
       Reply("origin", fetch[p].res, req[p], ~isRedirect(fetch[p].res.status))]
  /\ pc' = [pc EXCEPT ![p] = "write"]
  /\ UNCHANGED <<now, version, store, req, found, fetch, todo, update, owner, own, due, oldest, ghosts>>

(* The proxy panics when the body of a client's request breaks off. *)
ProxyAborted(p) ==
  /\ pc[p] = "proxy" /\ Arrived(p)
  /\ ~fetch[p].res.whole
  /\ reply' = [reply EXCEPT ![p] = Reply("aborted", fetch[p].res, req[p], TRUE)]
  /\ EndFetch(p)
  /\ pc' = [pc EXCEPT ![p] = "done"]
  /\ Miss(Announced(p))
  /\ UNCHANGED <<now, version, store, req, found, todo, update, owner, own, due, oldest, since>>

(* updateIfNeeded: first the URIs to invalidate or revalidate, then the ones *)
(* of Cache-Update.                                                          *)
WorkList(q, res) ==
  LET uris == GetInvalidateURIs(q, res)
      ups == GetCacheUpdates(q, res)
  IN [i \in DOMAIN uris |-> [kind |-> IF Legacy THEN "invalidate" ELSE "revalidate",
                             path |-> uris[i], delay |-> 0]]
     \o [i \in DOMAIN ups |-> [kind |-> "update",
                               path |-> ups[i].path, delay |-> ups[i].delay]]

updateResponseAndLocations(p) ==
  /\ pc[p] = "write"
  /\ \E cached \in Cached(req[p], fetch[p]) :
       store' = writeCache(req[p], fetch[p], cached)
  /\ todo' = [todo EXCEPT ![p] = WorkList(req[p], fetch[p].res)]
  /\ EndFetch(p)
  /\ pc' = [pc EXCEPT ![p] = "update"]
  /\ UNCHANGED <<now, version, req, found, update, reply, owner, own, due, oldest, ghosts>>

(************************* Updates after a write **************************)

Pending(p, kind) ==
  /\ pc[p] = "update" /\ todo[p] # <<>>
  /\ Head(todo[p]).kind = kind

(* Mutant: an item is worked on for ever. *)
SameItem(p) == UNCHANGED todo

NextItem(p) == todo' = [todo EXCEPT ![p] = Tail(todo[p])]

(* Mutant: the key is made from the unsafe request. *)
InvalidatesOwnKey(p) ==
  /\ Pending(p, "invalidate")
  /\ store' = Purge(store, GetKeyPrefix(req[p]))
  /\ NextItem(p)
  /\ UNCHANGED <<now, version, pc, req, found, fetch, update, reply, owner, own, due, oldest, ghosts>>

invalidateUri(p) ==
  /\ Pending(p, "invalidate")
  /\ store' = Purge(store, GetKeyPrefix(NewRequest(Head(todo[p]).path)))
  /\ NextItem(p)
  /\ UNCHANGED <<now, version, pc, req, found, fetch, update, reply, owner, own, due, oldest, ghosts>>

revalidateUri(p) ==
  LET q == NewRequest(Head(todo[p]).path)
  IN /\ Pending(p, "revalidate")
     /\ \/ /\ TRUE \in Has(GetKeyPrefix(q))
           /\ Fetch(p, q)
           /\ pc' = [pc EXCEPT ![p] = "save"]
           /\ UNCHANGED missed
        \/ /\ FALSE \in Has(GetKeyPrefix(q))
           /\ Miss(IF Rows(q.uri) = {} THEN {} ELSE {Change(q.uri, reply[p].res)})
           /\ UNCHANGED <<fetch, pc>>
     /\ NextItem(p)
     /\ UNCHANGED <<now, version, store, req, found, update, reply, owner, own, due, oldest, since>>

saveUpdateNow(p) ==
  /\ Pending(p, "update")
  /\ Head(todo[p]).delay = 0
  /\ update' = [update EXCEPT ![p] = Head(todo[p])]
  /\ Fetch(p, NewRequest(Head(todo[p]).path))
  /\ pc' = [pc EXCEPT ![p] = "save"]
  /\ NextItem(p)
  /\ UNCHANGED <<now, version, store, req, found, reply, owner, own, due, oldest, ghosts>>

(* go func() { ... } captures the loop variable, not its value. *)
saveUpdateLater(p, d) ==
  /\ Pending(p, "update")
  /\ Head(todo[p]).delay > 0
  /\ pc[d] = "idle"
  /\ update' = [update EXCEPT ![p] = Head(todo[p])]
  /\ owner' = [owner EXCEPT ![d] = p]
  /\ own' = [own EXCEPT ![d] = Change(Head(todo[p]).path, reply[p].res)]
  /\ pc' = [pc EXCEPT ![d] = "spawned"]
  /\ NextItem(p)
  /\ UNCHANGED <<now, version, store, req, found, fetch, reply, due, oldest, ghosts>>

(* The change that a fetch of saveRequest is to bring to the cache. *)
Goal(p) == IF p \in Delayed THEN own[p] ELSE Change(fetch[p].out.uri, reply[p].res)

(* The result of saveRequest is not looked at. *)
Saved(p) ==
  /\ pc[p] = "save" /\ Arrived(p)
  /\ \E cached \in Cached(fetch[p].out, fetch[p]) :
       /\ store' = writeCache(fetch[p].out, fetch[p], cached)
       /\ Miss(IF cached /\ fetch[p].out.uri = Goal(p).path THEN {} ELSE {Goal(p)})
  /\ EndFetch(p)
  /\ IF p \in Delayed
     THEN /\ pc' = [pc EXCEPT ![p] = "idle"]
          /\ owner' = [owner EXCEPT ![p] = None]
          /\ own' = [own EXCEPT ![p] = None]
     ELSE /\ pc' = [pc EXCEPT ![p] = "update"]
          /\ UNCHANGED <<owner, own>>
  /\ UNCHANGED <<now, version, req, found, todo, update, reply, due, oldest, since>>

UpdatesDone(p) ==
  /\ pc[p] = "update" /\ todo[p] = <<>>
  /\ reply' = [reply EXCEPT ![p].sent = TRUE]
  /\ pc' = [pc EXCEPT ![p] = "done"]
  /\ UNCHANGED <<now, version, store, req, found, fetch, todo, update, owner, own, due, oldest, ghosts>>

(* Mutant: the loop variable goes with the request. *)
FinishForgettingUpdate(p) ==
  /\ pc[p] = "done"
  /\ pc' = [pc EXCEPT ![p] = "idle"]
  /\ req' = [req EXCEPT ![p] = None]
  /\ found' = [found EXCEPT ![p] = {}]
  /\ reply' = [reply EXCEPT ![p] = None]
  /\ update' = [update EXCEPT ![p] = None]
  /\ since' = [since EXCEPT ![p] = None]
  /\ UNCHANGED <<now, version, store, fetch, todo, owner, own, due, oldest, missed>>

(* The request is over: its locals are gone, but for the captured variable. *)
Finish(p) ==
  /\ pc[p] = "done"
  /\ pc' = [pc EXCEPT ![p] = "idle"]
  /\ req' = [req EXCEPT ![p] = None]
  /\ found' = [found EXCEPT ![p] = {}]
  /\ reply' = [reply EXCEPT ![p] = None]
  /\ since' = [since EXCEPT ![p] = None]
  /\ UNCHANGED <<now, version, store, fetch, todo, update, owner, own, due, oldest, missed>>

(* time.Sleep(update.Delay), then the update: both read the variable then. *)
StartSleep(d) ==
  /\ pc[d] = "spawned"
  /\ due' = [due EXCEPT ![d] = now + Second * update[owner[d]].delay]
  /\ pc' = [pc EXCEPT ![d] = "asleep"]
  /\ UNCHANGED <<now, version, store, req, found, fetch, todo, update, reply, owner, own, oldest, ghosts>>

DelayOver(d) ==
  /\ pc[d] = "asleep" /\ now >= due[d]
  /\ Fetch(d, NewRequest(update[owner[d]].path))
  /\ due' = [due EXCEPT ![d] = 0]
  /\ pc' = [pc EXCEPT ![d] = "save"]
  /\ UNCHANGED <<now, version, store, req, found, todo, update, reply, owner, own, oldest, ghosts>>

(****************************** The updater *******************************)

UpdaterGoes(label) == pc' = [pc EXCEPT ![Updater] = label]
Sleep == due' = [due EXCEPT ![Updater] = now + Second]

(* updateTimeout is one second. *)
updateEntry ==
  /\ pc[Updater] = "poll"
  /\ \E e \in Oldest :
       /\ e.expires - now <= Second
       /\ oldest' = e.key
       /\ Fetch(Updater, GetRequestFromKey(e.key))
  /\ UpdaterGoes("refresh")
  /\ UNCHANGED <<now, version, store, req, found, todo, update, reply, owner, own, due, ghosts>>

(* There is nothing to refresh yet, or the query failed. *)
NothingExpires ==
  /\ pc[Updater] = "poll"
  /\ "database" \in Failures \/ \A e \in Oldest : e.expires - now > Second
  /\ Sleep
  /\ UpdaterGoes("sleep")
  /\ UNCHANGED <<now, version, store, req, found, fetch, todo, update, reply, owner, own, oldest, ghosts>>

Wake ==
  /\ pc[Updater] = "sleep" /\ now >= due[Updater]
  /\ due' = [due EXCEPT ![Updater] = 0]
  /\ UpdaterGoes("poll")
  /\ UNCHANGED <<now, version, store, req, found, fetch, todo, update, reply, owner, own, oldest, ghosts>>

Refreshed ==
  /\ pc[Updater] = "refresh" /\ Arrived(Updater)
  /\ \E cached \in Cached(fetch[Updater].out, fetch[Updater]) :
       /\ store' = writeCache(fetch[Updater].out, fetch[Updater], cached)
       /\ IF cached
          THEN /\ UpdaterGoes("poll")
               /\ oldest' = None
               /\ UNCHANGED due
          ELSE /\ UpdaterGoes("backoff")
               /\ Sleep
               /\ UNCHANGED oldest
  /\ EndFetch(Updater)
  /\ UNCHANGED <<now, version, req, found, todo, update, reply, owner, own, ghosts>>

Retry ==
  /\ pc[Updater] = "backoff" /\ now >= due[Updater]
  /\ Fetch(Updater, GetRequestFromKey(oldest))
  /\ due' = [due EXCEPT ![Updater] = 0]
  /\ UpdaterGoes("retry")
  /\ UNCHANGED <<now, version, store, req, found, todo, update, reply, owner, own, oldest, ghosts>>

(* What cannot be refreshed is purged. *)
Retried ==
  /\ pc[Updater] = "retry" /\ Arrived(Updater)
  /\ \E cached \in Cached(fetch[Updater].out, fetch[Updater]) :
       store' = IF cached THEN writeCache(fetch[Updater].out, fetch[Updater], TRUE)
                ELSE Purge(store, oldest)
  /\ EndFetch(Updater)
  /\ oldest' = None
  /\ UpdaterGoes("poll")
  /\ UNCHANGED <<now, version, req, found, todo, update, reply, owner, own, due, ghosts>>

(************************** The specification *****************************)

(* CreateCache: the updater runs unless updates are disabled. *)
Start == [p \in Procs |-> IF p # Updater THEN "idle"
                          ELSE IF Legacy THEN "off" ELSE "poll"]

Init ==
  /\ now = 0
  /\ version = [u \in URI |-> 0]
  /\ store = {}
  /\ pc = Start
  /\ req = [p \in Handlers |-> None]
  /\ found = [p \in Handlers |-> {}]
  /\ fetch = [p \in Procs |-> None]
  /\ todo = [p \in Handlers |-> <<>>]
  /\ update = [p \in Handlers |-> None]
  /\ reply = [p \in Handlers |-> None]
  /\ owner = [d \in Delayed |-> None]
  /\ own = [d \in Delayed |-> None]
  /\ due = [p \in Delayed \cup {Updater} |-> 0]
  /\ oldest = None
  /\ since = [p \in Handlers |-> None]
  /\ missed = {}

(* Everything but the database file is lost, sleeping goroutines included. *)
Crash ==
  /\ Crashes
  /\ store' = IF InMemory THEN {} ELSE store
  /\ pc' = Start
  /\ req' = [p \in Handlers |-> None]
  /\ found' = [p \in Handlers |-> {}]
  /\ fetch' = [p \in Procs |-> None]
  /\ todo' = [p \in Handlers |-> <<>>]
  /\ update' = [p \in Handlers |-> None]
  /\ reply' = [p \in Handlers |-> None]
  /\ owner' = [d \in Delayed |-> None]
  /\ own' = [d \in Delayed |-> None]
  /\ due' = [p \in Delayed \cup {Updater} |-> 0]
  /\ oldest' = None
  /\ since' = [p \in Handlers |-> None]
  /\ Miss(Unfinished)
  /\ UNCHANGED <<now, version>>

Tick ==
  /\ now < MaxTime
  /\ now' = now + 1
  /\ UNCHANGED <<version, store, local, ghosts>>

(* The steps of a handler from the lookup until the request is over. *)
HandlerStep(p) ==
  \/ SendStoredResponse(p) \/ SendValidationRequest(p) \/ Proxy(p)
  \/ ValidationSucceeded(p) \/ ValidationFailed(p)
  \/ ProxyDone(p) \/ ProxyAborted(p)
  \/ updateResponseAndLocations(p)
  \/ invalidateUri(p) \/ revalidateUri(p) \/ saveUpdateNow(p)
  \/ \E d \in Delayed : saveUpdateLater(p, d)
  \/ Saved(p) \/ UpdatesDone(p) \/ Finish(p)

DelayedStep(d) == StartSleep(d) \/ DelayOver(d) \/ Saved(d)

UpdaterStep == updateEntry \/ NothingExpires \/ Wake \/ Refreshed \/ Retry \/ Retried

OriginStep(p) == OriginResponds(p) \/ OriginFails(p)

Next ==
  \/ \E p \in Handlers : (\E q \in Requests : ServeHTTP(p, q)) \/ HandlerStep(p)
  \/ \E d \in Delayed : DelayedStep(d)
  \/ UpdaterStep
  \/ \E p \in Procs : OriginStep(p)
  \/ Tick
  \/ Crash

Spec == Init /\ [][Next]_vars

(* Go runs every goroutine that can run.  That the origin answers or the     *)
(* connection breaks is an assumption: the transport has no timeout.         *)
Fairness ==
  /\ \A p \in Handlers : WF_vars(HandlerStep(p))
  /\ \A d \in Delayed : WF_vars(DelayedStep(d))
  /\ WF_vars(UpdaterStep)
  /\ \A p \in Procs : WF_vars(OriginStep(p))

FairSpec == Spec /\ Fairness

(*************************** What clients see *****************************)

(* A handler's client has asked from ServeHTTP on and has its answer when it  *)
(* is sent; what the goroutines do after that is not the client's business.   *)
Replied(p) == pc[p] \in {"write", "update", "save", "done"} /\ reply[p].sent

Abstract == INSTANCE HttpCache WITH
  Clients <- Handlers,
  stage   <- [p \in Handlers |->
                IF pc[p] = "idle" THEN "idle" ELSE IF Replied(p) THEN "answered" ELSE "waiting"],
  asked   <- [p \in Handlers |->
                IF pc[p] = "idle" THEN None
                ELSE [method |-> req[p].method, uri |-> req[p].uri, since |-> since[p]]],
  answer  <- [p \in Handlers |->
                IF Replied(p) THEN [orig |-> reply[p].orig, res |-> reply[p].res,
                                    age |-> reply[p].age]
                ELSE None]

(* Clients cannot tell the cache from one that answers every request once,    *)
(* with a current response or with one that is within its lifetime: hits,     *)
(* validations, late answers of the origin, redirects that wait for updates   *)
(* and restarts included.                                                     *)
ImplementsHttpCache == Abstract!AbstractSpec

(****************************** Properties ********************************)

Labels == {"idle", "lookup", "validate", "proxy", "write", "update", "save",
           "done", "spawned", "asleep", "off", "poll", "sleep", "refresh",
           "backoff", "retry"}

(* Its last conjunct says that its Date is near enough to compute with. *)
IsResponse(r) == r \in Response /\ MaxTime - r.clock <= MaxDuration

IsRequest(q) ==
  {"method", "uri"} \subseteq DOMAIN q /\ q.method \in Methods /\ q.uri \in URI

IsEntry(e) ==
  /\ IsRequest(e.key) /\ IsRequest(e.orig)
  /\ e.expires \in Int /\ e.requestedAt \in Time /\ e.receivedAt \in Time
  /\ IsResponse(e.res) /\ e.late \in BOOLEAN

IsFetch(f) ==
  /\ DOMAIN f = {"out", "created", "res"}
  /\ IsRequest(f.out) /\ f.created \in Time
  /\ f.res # None => IsResponse(f.res)

IsReply(r) ==
  /\ DOMAIN r = {"from", "res", "orig", "age", "sent", "at", "checked"}
  /\ r.from \in {"hit", "validated", "origin", "replaced", "aborted"}
  /\ IsResponse(r.res) /\ r.at \in Time /\ r.sent \in BOOLEAN

Items == [kind : {"invalidate", "revalidate", "update"}, path : URI, delay : Nat]

(* Every variable has the type its declaration in the code gives it, and a   *)
(* process has what the code it is in reads: a handler at work a request, one *)
(* that stores and updates the origin's answer, a sleeping goroutine the loop *)
(* variable of the handler that started it, the updater the key it refreshes. *)
TypeOK ==
  /\ now \in Time
  /\ version \in [URI -> 0..MaxVersion]
  /\ pc \in [Procs -> Labels]
  /\ todo \in [Handlers -> Seq(Items)]
  /\ owner \in [Delayed -> Handlers \cup {None}]
  /\ due \in [Delayed \cup {Updater} -> Nat]
  /\ DOMAIN req = Handlers /\ DOMAIN found = Handlers /\ DOMAIN since = Handlers
  /\ DOMAIN reply = Handlers /\ DOMAIN update = Handlers
  /\ DOMAIN fetch = Procs /\ DOMAIN own = Delayed
  /\ \A e \in store : IsEntry(e)
  /\ \A p \in Handlers :
       /\ pc[p] # "idle" => IsRequest(req[p]) /\ since[p] \in [URI -> 0..MaxVersion]
       /\ \A e \in found[p] : IsEntry(e)
       /\ reply[p] # None => IsReply(reply[p])
       /\ pc[p] \in {"write", "update", "save", "done"} => IsReply(reply[p])
       /\ pc[p] \in {"write", "update", "save"} => reply[p].from \in {"origin", "replaced"}
  /\ \A p \in Procs :
       /\ Fetching(p) => IsFetch(fetch[p])
       /\ pc[p] = "write" => Arrived(p)
  /\ \A d \in Delayed :
       pc[d] # "idle" => /\ owner[d] \in Handlers
                         /\ update[owner[d]] \in Items /\ own[d] \in Changes
  /\ pc[Updater] \in {"refresh", "backoff", "retry"} => IsRequest(oldest)

(* The timestamps of a row enclose the response: it was generated after the  *)
(* ResponseSaver was created and received before now, on every path to       *)
(* writeCache.  This is what makes the age computation safe.                 *)
EntryStamps(e) == e.requestedAt <= e.res.at /\ e.receivedAt <= now

Stamps ==
  /\ \A e \in store : EntryStamps(e)
  /\ \A p \in Handlers : \A e \in found[p] : EntryStamps(e)
  /\ \A p \in Procs :
       Fetching(p) => /\ fetch[p].created <= now
                      /\ fetch[p].res # None => fetch[p].created <= fetch[p].res.at

Hit(p) == reply[p] # None /\ reply[p].from = "hit"
FromStore(p) == reply[p] # None /\ reply[p].from \in {"hit", "validated"}

(* A response sent from the store without asking the origin is younger than *)
(* the lifetime the origin gave it, however long the fetch took, whatever   *)
(* the origin's clock says and although timestamps lose their fractions:    *)
(* section 4.2.3 as implemented by isFresh on the rows of writeCache.       *)
FreshHits ==
  \A p \in Handlers :
    Hit(p) /\ reply[p].res.hdr.dated
      => TrueAge(reply[p].res, reply[p].at) < StatedLifetime(reply[p].res)

(* The same for every response, with a Date or not: date_value says of a     *)
(* response without one that "we should never get here".                     *)
FreshHitsUndated ==
  \A p \in Handlers :
    Hit(p) => TrueAge(reply[p].res, reply[p].at) < StatedLifetime(reply[p].res)

(* The Age that a client, perhaps another cache, reads on a stored response   *)
(* is its true age up to rounding to a second, so that the lifetimes it       *)
(* computes from it are not too long.                                         *)
AgeTold ==
  \A p \in Handlers :
    FromStore(p) /\ reply[p].res.hdr.dated
      => 2 * TrueAge(reply[p].res, reply[p].at) <= Second * (2 * reply[p].age + 1)

(* The stored response was given to a request with the same method, URI and  *)
(* selecting fields as the client's: the round trip of a request through its *)
(* key, the prefix query and the checks of mustNotReuse loses none of them.  *)
(* Bodies of requests are not in the key and not in the model: that a safe   *)
(* POST is kept apart by its body is not stated.                             *)
HitMatchesRequest ==
  \A p \in Handlers :
    FromStore(p) =>
      LET q == req[p]
          o == reply[p].orig
          hdr == reply[p].res.hdr
      IN /\ q.method = o.method /\ q.uri = o.uri
         /\ UnsafeRequest(q) => HasDirective(hdr.cc, "safe")
         /\ \A i \in DOMAIN hdr.vary :
              /\ hdr.vary[i] # "*"
              /\ Get(q.header, hdr.vary[i]) = Get(o.header, hdr.vary[i])
              /\ FieldAbsent(q.header, hdr.vary[i]) <=> FieldAbsent(o.header, hdr.vary[i])

(* A response sent because the origin answered 304 is the current one: it    *)
(* was rendered from the state in which the origin gave that answer          *)
(* (sendToClientIfValidationFailed, "the response is ok to use").            *)
ValidatedIsCurrent ==
  \A p \in Handlers :
    reply[p] # None /\ reply[p].from = "validated"
      => reply[p].res.seen[req[p].uri] = reply[p].checked.seen[req[p].uri]

(* The row of a page's plain GET request, if it is out of date, is going to   *)
(* be brought up to date: each change since it was rendered has a goroutine   *)
(* that will refetch or purge it.  Rows(u) is all that invalidateUris and     *)
(* revalidateUris know; rows with selecting fields or a Cache-Key are left    *)
(* until they expire, although section 4.4 asks for "all stored responses     *)
(* whose target URI matches", and the property does not speak of them.        *)
(* The exceptions are the cases in which the program loses a change: nobody   *)
(* was told of it, its answer broke off, its refetch was not stored, Has      *)
(* denied the page, a crash took its goroutine, or the page was put into the  *)
(* cache when the resource had already changed.                               *)
Followed ==
  \A u \in URI : \A e \in Rows(u) :
    e.late \/ \A v \in (e.res.seen[u] + 1) .. version[u] :
                [path |-> u, seen |-> v] \in missed \cup Unfinished

(* Nothing is stored for u that is older than what res says of it. *)
Settled(u, res) ==
  \A e \in Rows(u) : \/ e.late \/ e.res.seen[u] >= res.seen[u]
                      \/ Change(u, res) \in missed

(* The client that gets a redirect finds at the places the write affected    *)
(* nothing older than the write, but for late puts and lost changes: proxy   *)
(* updates synchronously before it lets a redirect go.  What Cache-Update    *)
(* puts off is not waited for.                                               *)
RedirectAfterUpdate ==
  \A p \in Handlers :
    /\ reply[p] # None /\ reply[p].from = "origin" /\ reply[p].sent
    /\ isRedirect(reply[p].res.status)
    => \A i \in DOMAIN WorkList(req[p], reply[p].res) :
         LET item == WorkList(req[p], reply[p].res)[i]
         IN item.delay = 0 => Settled(item.path, reply[p].res)

(* What the updater fetches for a key is stored under that key, so that it    *)
(* replaces the expiring response: updateEntry, "a new entry identified by    *)
(* the key is created".                                                       *)
RefreshKeepsKey ==
  LET f == fetch[Updater]
  IN Arrived(Updater) /\ ~MustNotStore(f.out, f.res.status, f.res.hdr)
       => CacheEntry(f.out, f).key = oldest

(* A delayed update fetches the path of the Cache-Update field it is for. *)
DelayedFetchesOwnPath ==
  \A d \in Delayed : fetch[d] # None => fetch[d].out.uri = own[d].path

(* Every request is answered, also when its answer waits for updates. *)
Answered ==
  \A p \in Handlers :
    pc[p] = "lookup" ~> reply[p] # None /\ reply[p].sent
=============================================================================
