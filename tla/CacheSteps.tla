---------------------------- MODULE CacheSteps ----------------------------
(***************************************************************************)
(* What one step of the cache may do to the state of one handler and to    *)
(* the rows of the database.  The proofs about what clients get and about  *)
(* stale pages rest on these lemmas instead of on all of Next.             *)
(***************************************************************************)
EXTENDS AlwaysCacheProofs

(* Nothing of a handler, but for its captured loop variable, has changed. *)
Still(p) ==
  /\ pc'[p] = pc[p] /\ req'[p] = req[p] /\ found'[p] = found[p]
  /\ fetch'[p] = fetch[p] /\ todo'[p] = todo[p]
  /\ reply'[p] = reply[p] /\ since'[p] = since[p]

(* The goroutines of one request leave those of the others alone. *)
LEMMA OthersStill ==
  ASSUME TypeOK, NEW p \in Handlers, NEW x \in Handlers, x # p,
         (\E q \in Requests : ServeHTTP(x, q)) \/ HandlerStep(x)
  PROVE  Still(p)
  <1> USE DEF Still
  <1>1. /\ p \in Procs /\ p \notin Delayed
        /\ DOMAIN pc = Procs /\ DOMAIN fetch = Procs /\ DOMAIN req = Handlers
        /\ DOMAIN found = Handlers /\ DOMAIN todo = Handlers /\ DOMAIN reply = Handlers
        /\ DOMAIN since = Handlers
    BY SiteAssumption DEF TypeOK, Procs
  <1>2. ASSUME NEW q \in Requests, ServeHTTP(x, q) PROVE Still(p)
    <2>1. PICK rows : found' = [found EXCEPT ![x] = rows]
      BY <1>2 DEF ServeHTTP
    <2> QED
      BY <1>1, <1>2, <2>1 DEF ServeHTTP
  <1>3. CASE SendStoredResponse(x)
    <2>1. PICK r : reply' = [reply EXCEPT ![x] = r]
      BY <1>3 DEF SendStoredResponse
    <2> QED
      BY <1>1, <1>3, <2>1 DEF SendStoredResponse, ghosts
  <1>4. CASE SendValidationRequest(x)
    <2>1. PICK rows, f : found' = [found EXCEPT ![x] = rows] /\ fetch' = [fetch EXCEPT ![x] = f]
      BY <1>4 DEF SendValidationRequest, Fetch
    <2> QED
      BY <1>1, <1>4, <2>1 DEF SendValidationRequest, ghosts
  <1>5. CASE Proxy(x)
    BY <1>1, <1>5 DEF Proxy, Fetch, ghosts
  <1>6. CASE ValidationSucceeded(x)
    <2>1. PICK r : reply' = [reply EXCEPT ![x] = r]
      BY <1>6 DEF ValidationSucceeded
    <2> QED
      BY <1>1, <1>6, <2>1 DEF ValidationSucceeded, EndFetch
  <1>7. CASE ProxyAborted(x) \/ updateResponseAndLocations(x)
    BY <1>1, <1>7 DEF ProxyAborted, EndFetch, updateResponseAndLocations, ghosts
  <1>8. CASE ValidationFailed(x) \/ ProxyDone(x) \/ UpdatesDone(x) \/ Finish(x)
    BY <1>1, <1>8 DEF ValidationFailed, ProxyDone, UpdatesDone, Finish, ghosts
  <1>9. CASE invalidateUri(x) \/ revalidateUri(x) \/ saveUpdateNow(x)
    BY <1>1, <1>9 DEF invalidateUri, revalidateUri, saveUpdateNow, NextItem, Fetch, ghosts
  <1>10. CASE \E d \in Delayed : saveUpdateLater(x, d)
    BY <1>1, <1>10 DEF saveUpdateLater, NextItem, ghosts
  <1>11. CASE Saved(x)
    BY <1>1, <1>11, SiteAssumption DEF Saved, EndFetch
  <1> QED
    BY <1>2, <1>3, <1>4, <1>5, <1>6, <1>7, <1>8, <1>9, <1>10, <1>11 DEF HandlerStep

(* So do delayed updates and the updater. *)
LEMMA BackgroundStill ==
  ASSUME TypeOK, NEW p \in Handlers, (\E d \in Delayed : DelayedStep(d)) \/ UpdaterStep
  PROVE  Still(p) /\ UNCHANGED <<now, version>>
  <1> USE DEF Still
  <1>1. /\ p \in Procs /\ p # Updater /\ p \notin Delayed
        /\ DOMAIN pc = Procs /\ DOMAIN fetch = Procs
    BY SiteAssumption DEF TypeOK, Procs
  <1>2. ASSUME NEW d \in Delayed, DelayedStep(d) PROVE Still(p) /\ UNCHANGED <<now, version>>
    BY <1>1, <1>2 DEF DelayedStep, StartSleep, DelayOver, Saved, Fetch, EndFetch, ghosts
  <1>3. CASE UpdaterStep
    BY <1>1, <1>3 DEF UpdaterStep, updateEntry, NothingExpires, Wake, Refreshed, Retry, Retried,
       Fetch, EndFetch, UpdaterGoes, ghosts
  <1> QED
    BY <1>2, <1>3

(* A handler's state is changed by its own steps, by the origin that answers *)
(* it and by a crash.                                                        *)
LEMMA HandlerFrame ==
  ASSUME TypeOK, [Next]_vars, NEW p \in Handlers
  PROVE  \/ \E q \in Requests : ServeHTTP(p, q)
         \/ HandlerStep(p) \/ OriginStep(p) \/ Crash
         \/ Still(p)
  <1>1. ASSUME NEW x \in Procs, x # p, OriginStep(x) PROVE Still(p)
    <2>1. PICK res : OriginAnswered(x, res)
      BY <1>1, OriginAnswers
    <2>2. p \in Procs /\ DOMAIN fetch = Procs
      BY DEF TypeOK, Procs
    <2> QED
      BY <1>1, <2>1, <2>2 DEF OriginAnswered, Still
  <1>2. CASE Tick \/ UNCHANGED vars
    BY <1>2 DEF Tick, vars, local, ghosts, Still
  <1> QED
    BY <1>1, <1>2, OthersStill, BackgroundStill DEF Next

(* The response that p's ResponseSaver has recorded is written to the cache   *)
(* as the answer to q: its own request where it went to the origin for the    *)
(* cache, the client's where it went for a client.                            *)
Stores(p, q) ==
  /\ Arrived(p) /\ ~MustNotStore(q, fetch[p].res.status, fetch[p].res.hdr)
  /\ \/ q = fetch[p].out /\ pc[p] \in {"save", "refresh", "retry"}
     \/ p \in Handlers /\ q = req[p] /\ pc[p] = "write"

(* Every new row is a CacheEntry that writeCache made of a recorded response. *)
LEMMA StoreStep ==
  ASSUME TypeOK, [Next]_vars, NEW e \in store', e \notin store
  PROVE  /\ UNCHANGED <<now, version>>
         /\ \E p \in Procs : \E q : Stores(p, q) /\ e = CacheEntry(q, fetch[p])
  <1> DEFINE New == /\ UNCHANGED <<now, version>>
                    /\ \E p \in Procs : \E q : Stores(p, q) /\ e = CacheEntry(q, fetch[p])
  <1>1. ASSUME NEW p \in Procs, NEW q, NEW cached \in Cached(q, fetch[p]),
               e \in writeCache(q, fetch[p], cached)
        PROVE  /\ e = CacheEntry(q, fetch[p])
               /\ ~MustNotStore(q, fetch[p].res.status, fetch[p].res.hdr)
    BY <1>1 DEF writeCache, PutCE, Cached
  <1>2. ASSUME NEW p \in Handlers, HandlerStep(p) PROVE New
    <2>1. CASE updateResponseAndLocations(p)
      <3>1. PICK cached \in Cached(req[p], fetch[p]) :
              store' = writeCache(req[p], fetch[p], cached)
        BY <2>1 DEF updateResponseAndLocations
      <3>2. p \in Procs /\ Arrived(p) /\ pc[p] = "write" /\ UNCHANGED <<now, version>>
        BY <2>1 DEF updateResponseAndLocations, TypeOK, Procs
      <3> QED
        BY <1>1, <3>1, <3>2 DEF Stores
    <2>2. CASE Saved(p)
      <3>1. PICK cached \in Cached(fetch[p].out, fetch[p]) :
              store' = writeCache(fetch[p].out, fetch[p], cached)
        BY <2>2 DEF Saved
      <3>2. p \in Procs /\ Arrived(p) /\ pc[p] = "save" /\ UNCHANGED <<now, version>>
        BY <2>2 DEF Saved, Procs
      <3> QED
        BY <1>1, <3>1, <3>2 DEF Stores
    <2>3. CASE invalidateUri(p)
      BY <2>3 DEF invalidateUri, Purge
    <2> QED
      BY <1>2, <2>1, <2>2, <2>3 DEF HandlerStep, SendStoredResponse, SendValidationRequest, Proxy,
         ValidationSucceeded, ValidationFailed, ProxyDone, ProxyAborted, revalidateUri,
         saveUpdateNow, saveUpdateLater, UpdatesDone, Finish
  <1>3. ASSUME NEW d \in Delayed, DelayedStep(d) PROVE New
    <2>1. CASE Saved(d)
      <3>1. PICK cached \in Cached(fetch[d].out, fetch[d]) :
              store' = writeCache(fetch[d].out, fetch[d], cached)
        BY <2>1 DEF Saved
      <3>2. d \in Procs /\ Arrived(d) /\ pc[d] = "save" /\ UNCHANGED <<now, version>>
        BY <2>1 DEF Saved, Procs
      <3> QED
        BY <1>1, <3>1, <3>2 DEF Stores
    <2> QED
      BY <1>3, <2>1 DEF DelayedStep, StartSleep, DelayOver
  <1>4. CASE Refreshed \/ Retried
    <2>1. CASE e \in Purge(store, oldest)
      BY <2>1 DEF Purge
    <2>2. CASE \E cached \in Cached(fetch[Updater].out, fetch[Updater]) :
                 e \in writeCache(fetch[Updater].out, fetch[Updater], cached)
      <3>1. /\ Updater \in Procs /\ Arrived(Updater) /\ pc[Updater] \in {"refresh", "retry"}
            /\ UNCHANGED <<now, version>>
        BY <1>4 DEF Refreshed, Retried, Procs
      <3> QED
        BY <1>1, <2>2, <3>1 DEF Stores
    <2> QED
      BY <1>4, <2>1, <2>2 DEF Refreshed, Retried
  <1>5. CASE updateEntry \/ NothingExpires \/ Wake \/ Retry
    BY <1>5 DEF updateEntry, NothingExpires, Wake, Retry
  <1>6. ASSUME NEW p \in Handlers, NEW q \in Requests, ServeHTTP(p, q) PROVE New
    BY <1>6 DEF ServeHTTP
  <1>7. ASSUME NEW p \in Procs, OriginStep(p) PROVE New
    BY <1>7 DEF OriginStep, OriginResponds, OriginFails
  <1>8. CASE Tick \/ Crash \/ UNCHANGED vars
    BY <1>8 DEF Tick, Crash, vars
  <1> QED
    BY <1>2, <1>3, <1>4, <1>5, <1>6, <1>7, <1>8 DEF Next, UpdaterStep

(* Entries reach a lookup from the database only. *)
LEMMA FoundStep ==
  ASSUME TypeOK, [Next]_vars, NEW p \in Handlers, NEW e \in found'[p]
  PROVE  e \in found[p] \/ e \in store
  <1>1. DOMAIN found = Handlers
    BY DEF TypeOK
  <1>2. ASSUME NEW q \in Requests, ServeHTTP(p, q) PROVE e \in store
    <2>1. PICK rows \in getResponsesForUri(q) : found' = [found EXCEPT ![p] = rows]
      BY <1>2 DEF ServeHTTP
    <2>2. rows \subseteq store
      BY DEF getResponsesForUri, All
    <2> QED
      BY <1>1, <2>1, <2>2
  <1>3. CASE SendValidationRequest(p)
    BY <1>1, <1>3 DEF SendValidationRequest
  <1>4. CASE Finish(p) \/ Crash
    BY <1>1, <1>4 DEF Finish, Crash
  <1>5. CASE OriginStep(p)
    BY <1>5 DEF OriginStep, OriginResponds, OriginFails
  <1>6. CASE HandlerStep(p) /\ UNCHANGED found
    BY <1>6
  <1>7. HandlerStep(p) => SendValidationRequest(p) \/ Finish(p) \/ UNCHANGED found
    BY DEF HandlerStep, SendStoredResponse, Proxy, ValidationSucceeded, ValidationFailed,
       ProxyDone, ProxyAborted, updateResponseAndLocations, invalidateUri, revalidateUri,
       saveUpdateNow, saveUpdateLater, Saved, UpdatesDone
  <1> QED
    BY <1>2, <1>3, <1>4, <1>5, <1>6, <1>7, HandlerFrame DEF Still

(* A recorded response is there because it was there, or because the origin *)
(* has just given it: each request through the proxy begins without one.     *)
LEMMA FetchStep ==
  ASSUME TypeOK, [Next]_vars, NEW p \in Procs, Arrived(p)'
  PROVE  OriginStep(p) \/ (Arrived(p) /\ fetch'[p] = fetch[p])
  <1>1. DOMAIN pc = Procs /\ DOMAIN fetch = Procs /\ Fetching(p)' /\ fetch'[p].res # None
    BY DEF TypeOK, Arrived
  <1> USE DEF Fetching, Arrived
  <1>2. CASE p \in Handlers
    <2>1. ASSUME NEW q \in Requests, ServeHTTP(p, q) PROVE FALSE
      BY <1>1, <2>1 DEF ServeHTTP
    <2>2. CASE Crash
      BY <1>1, <2>2 DEF Crash, Start
    <2>3. CASE Still(p)
      BY <1>1, <2>3 DEF Still
    <2>4. CASE HandlerStep(p)
      <3>1. CASE SendStoredResponse(p) \/ ValidationSucceeded(p) \/ ProxyAborted(p) \/ Finish(p)
        BY <1>1, <3>1 DEF SendStoredResponse, ValidationSucceeded, ProxyAborted, Finish
      <3>2. CASE SendValidationRequest(p)
        <4>1. PICK q : Fetch(p, q)
          BY <3>2 DEF SendValidationRequest
        <4> QED
          BY <1>1, <4>1 DEF Fetch
      <3>3. CASE Proxy(p) \/ saveUpdateNow(p)
        BY <1>1, <3>3 DEF Proxy, saveUpdateNow, Fetch
      <3>4. CASE ValidationFailed(p) \/ ProxyDone(p)
        BY <1>1, <3>4 DEF ValidationFailed, ProxyDone
      <3>5. CASE updateResponseAndLocations(p) \/ UpdatesDone(p)
        BY <1>1, <3>5 DEF updateResponseAndLocations, UpdatesDone
      <3>6. CASE invalidateUri(p) \/ \E d \in Delayed : saveUpdateLater(p, d)
        <4>1. pc[p] = "update" /\ p \notin Delayed
          BY <1>2, <3>6, SiteAssumption DEF invalidateUri, saveUpdateLater, Pending
        <4>2. pc'[p] = pc[p]
          BY <1>1, <3>6, <4>1 DEF invalidateUri, saveUpdateLater
        <4> QED
          BY <1>1, <4>1, <4>2
      <3>7. CASE revalidateUri(p)
        <4>1. pc[p] = "update"
          BY <3>7 DEF revalidateUri, Pending
        <4>2. CASE UNCHANGED <<fetch, pc>>
          BY <1>1, <4>1, <4>2
        <4>3. CASE \E q : Fetch(p, q)
          BY <1>1, <4>3 DEF Fetch
        <4> QED
          BY <3>7, <4>2, <4>3 DEF revalidateUri
      <3>8. CASE Saved(p)
        BY <1>1, <1>2, <3>8, SiteAssumption DEF Saved
      <3> QED
        BY <2>4, <3>1, <3>2, <3>3, <3>4, <3>5, <3>6, <3>7, <3>8 DEF HandlerStep
    <2> QED
      BY <1>2, <2>1, <2>2, <2>3, <2>4, HandlerFrame
  <1>3. CASE p \notin Handlers
    <2>1. ASSUME NEW x \in Handlers, (\E q \in Requests : ServeHTTP(x, q)) \/ HandlerStep(x)
          PROVE  Arrived(p) /\ fetch'[p] = fetch[p]
      <3>1. x # p
        BY <1>3
      <3>2. CASE \E d \in Delayed : saveUpdateLater(x, d)
        <4>1. PICK d \in Delayed : saveUpdateLater(x, d)
          BY <3>2
        <4>2. d # p
          BY <1>1, <4>1 DEF saveUpdateLater
        <4> QED
          BY <1>1, <3>1, <4>1, <4>2 DEF saveUpdateLater
      <3>3. CASE \E q \in Requests : ServeHTTP(x, q)
        BY <1>1, <3>1, <3>3 DEF ServeHTTP
      <3>4. CASE HandlerStep(x) /\ ~ \E d \in Delayed : saveUpdateLater(x, d)
        <4>1. PICK y : pc' = [pc EXCEPT ![x] = y] \/ pc' = pc
          BY <3>4 DEF HandlerStep, SendStoredResponse, SendValidationRequest, Proxy,
             ValidationSucceeded, ValidationFailed, ProxyDone, ProxyAborted,
             updateResponseAndLocations, invalidateUri, revalidateUri, saveUpdateNow,
             Saved, UpdatesDone, Finish
        <4>2. PICK f : fetch' = [fetch EXCEPT ![x] = f] \/ fetch' = fetch
          BY <3>4 DEF HandlerStep, SendStoredResponse, SendValidationRequest, Proxy,
             ValidationSucceeded, ValidationFailed, ProxyDone, ProxyAborted,
             updateResponseAndLocations, invalidateUri, revalidateUri, saveUpdateNow,
             Saved, UpdatesDone, Finish, Fetch, EndFetch
        <4> QED
          BY <1>1, <3>1, <4>1, <4>2
      <3> QED
        BY <2>1, <3>2, <3>3, <3>4
    <2>2. ASSUME NEW d \in Delayed, DelayedStep(d) PROVE Arrived(p) /\ fetch'[p] = fetch[p]
      <3>1. CASE StartSleep(d)
        BY <1>1, <3>1 DEF StartSleep
      <3>2. CASE DelayOver(d)
        BY <1>1, <3>2 DEF DelayOver, Fetch
      <3>3. CASE Saved(d)
        BY <1>1, <3>3 DEF Saved, EndFetch
      <3> QED
        BY <2>2, <3>1, <3>2, <3>3 DEF DelayedStep
    <2>3. CASE UpdaterStep
      <3>1. CASE updateEntry \/ Retry
        <4>1. PICK q : Fetch(Updater, q)
          BY <3>1 DEF updateEntry, Retry
        <4>2. PICK y : pc' = [pc EXCEPT ![Updater] = y]
          BY <3>1 DEF updateEntry, Retry, UpdaterGoes
        <4> QED
          BY <1>1, <4>1, <4>2 DEF Fetch
      <3>2. CASE NothingExpires \/ Wake
        BY <1>1, <3>2 DEF NothingExpires, Wake, UpdaterGoes
      <3>3. CASE Refreshed \/ Retried
        <4>1. PICK y : pc' = [pc EXCEPT ![Updater] = y] /\ y \in {"poll", "backoff"}
          BY <3>3 DEF Refreshed, Retried, UpdaterGoes
        <4>2. EndFetch(Updater)
          BY <3>3 DEF Refreshed, Retried
        <4> QED
          BY <1>1, <4>1, <4>2 DEF EndFetch
      <3> QED
        BY <2>3, <3>1, <3>2, <3>3 DEF UpdaterStep
    <2>4. ASSUME NEW x \in Procs, OriginStep(x), x # p PROVE Arrived(p) /\ fetch'[p] = fetch[p]
      <3>1. PICK res : OriginAnswered(x, res)
        BY <2>4, OriginAnswers
      <3> QED
        BY <1>1, <2>4, <3>1 DEF OriginAnswered
    <2>5. CASE Tick \/ UNCHANGED vars
      BY <1>1, <2>5 DEF Tick, vars, local
    <2>6. CASE Crash
      BY <1>1, <2>6 DEF Crash, Start
    <2> QED
      BY <2>1, <2>2, <2>3, <2>4, <2>5, <2>6 DEF Next
  <1> QED
    BY <1>2, <1>3

(* The resources of the origin only move on, and only when it answers. *)
LEMMA VersionStep ==
  ASSUME TypeOK, [Next]_vars
  PROVE  /\ version \in [URI -> 0..MaxVersion] /\ version' \in [URI -> 0..MaxVersion]
         /\ \A u \in URI : version[u] <= version'[u]
         /\ version' = version \/ \E p \in Procs : OriginStep(p)
  <1>1. version \in [URI -> 0..MaxVersion] /\ MaxVersion \in Nat
    BY BoundAssumption DEF TypeOK
  <1>2. version' = version \/ \E p \in Procs : OriginStep(p)
    BY DEF Next, HandlerStep, DelayedStep, UpdaterStep, ServeHTTP, SendStoredResponse,
       SendValidationRequest, Proxy, ValidationSucceeded, ValidationFailed, ProxyDone,
       ProxyAborted, updateResponseAndLocations, invalidateUri, revalidateUri, saveUpdateNow,
       saveUpdateLater, Saved, UpdatesDone, Finish, StartSleep, DelayOver, updateEntry,
       NothingExpires, Wake, Refreshed, Retry, Retried, Tick, Crash, vars
  <1>3. ASSUME NEW p \in Procs, OriginStep(p)
        PROVE  /\ version' \in [URI -> 0..MaxVersion]
               /\ \A u \in URI : version[u] <= version'[u]
    <2>1. /\ version' \in [URI -> 0..MaxVersion]
          /\ \A u \in URI : version'[u] = version[u] \/ version'[u] = version[u] + 1
      BY <1>3, VersionsMoveOn
    <2> QED
      BY <1>1, <2>1
  <1>4. CASE version' = version
    BY <1>1, <1>4
  <1> QED
    BY <1>1, <1>2, <1>3, <1>4

(* A delayed update runs on its own: besides its steps and the origin's      *)
(* answer there is only the handler that starts it, and a crash.             *)
LEMMA DelayedFrame ==
  ASSUME TypeOK, [Next]_vars, NEW d \in Delayed
  PROVE  \/ DelayedStep(d) \/ OriginStep(d) \/ Crash
         \/ \E p \in Handlers : saveUpdateLater(p, d)
         \/ pc'[d] = pc[d] /\ fetch'[d] = fetch[d] /\ own'[d] = own[d]
  <1> DEFINE Alone == pc'[d] = pc[d] /\ fetch'[d] = fetch[d] /\ own'[d] = own[d]
  <1>1. /\ d \in Procs /\ d # Updater /\ d \notin Handlers
        /\ DOMAIN pc = Procs /\ DOMAIN fetch = Procs /\ DOMAIN own = Delayed
    BY SiteAssumption DEF TypeOK, Procs
  <1>2. ASSUME NEW x \in Handlers, \E q \in Requests : ServeHTTP(x, q) PROVE Alone
    BY <1>1, <1>2 DEF ServeHTTP
  <1>3. ASSUME NEW x \in Handlers, HandlerStep(x), ~saveUpdateLater(x, d) PROVE Alone
    <2>1. CASE \E y \in Delayed : saveUpdateLater(x, y)
      <3>1. PICK y \in Delayed : saveUpdateLater(x, y)
        BY <2>1
      <3> QED
        BY <1>1, <1>3, <3>1 DEF saveUpdateLater
    <2>2. CASE ~ \E y \in Delayed : saveUpdateLater(x, y)
      <3>1. PICK y : pc' = [pc EXCEPT ![x] = y] \/ pc' = pc
        BY <1>3, <2>2 DEF HandlerStep, SendStoredResponse, SendValidationRequest, Proxy,
           ValidationSucceeded, ValidationFailed, ProxyDone, ProxyAborted,
           updateResponseAndLocations, invalidateUri, revalidateUri, saveUpdateNow,
           Saved, UpdatesDone, Finish
      <3>2. PICK f : fetch' = [fetch EXCEPT ![x] = f] \/ fetch' = fetch
        BY <1>3, <2>2 DEF HandlerStep, SendStoredResponse, SendValidationRequest, Proxy,
           ValidationSucceeded, ValidationFailed, ProxyDone, ProxyAborted,
           updateResponseAndLocations, invalidateUri, revalidateUri, saveUpdateNow,
           Saved, UpdatesDone, Finish, Fetch, EndFetch
      <3>3. own' = own
        BY <1>3, <2>2, SiteAssumption DEF HandlerStep, SendStoredResponse,
           SendValidationRequest, Proxy, ValidationSucceeded, ValidationFailed, ProxyDone,
           ProxyAborted, updateResponseAndLocations, invalidateUri, revalidateUri,
           saveUpdateNow, Saved, UpdatesDone, Finish
      <3> QED
        BY <1>1, <3>1, <3>2, <3>3
    <2> QED
      BY <2>1, <2>2
  <1>4. ASSUME NEW x \in Delayed, x # d, DelayedStep(x) PROVE Alone
    BY <1>1, <1>4 DEF DelayedStep, StartSleep, DelayOver, Saved, Fetch, EndFetch
  <1>5. CASE UpdaterStep
    BY <1>1, <1>5 DEF UpdaterStep, updateEntry, NothingExpires, Wake, Refreshed, Retry, Retried,
       Fetch, EndFetch, UpdaterGoes
  <1>6. ASSUME NEW x \in Procs, x # d, OriginStep(x) PROVE Alone
    <2>1. PICK res : OriginAnswered(x, res)
      BY <1>6, OriginAnswers
    <2> QED
      BY <1>1, <1>6, <2>1 DEF OriginAnswered
  <1>7. CASE Tick \/ UNCHANGED vars
    BY <1>7 DEF Tick, vars, local
  <1> QED
    BY <1>2, <1>3, <1>4, <1>5, <1>6, <1>7 DEF Next

(* The state of the updater is changed by its own steps, by the origin that  *)
(* answers it and by a crash.                                                *)
LEMMA UpdaterFrame ==
  ASSUME TypeOK, [Next]_vars
  PROVE  \/ UpdaterStep \/ OriginStep(Updater) \/ Crash
         \/ pc'[Updater] = pc[Updater] /\ fetch'[Updater] = fetch[Updater] /\ oldest' = oldest
  <1> DEFINE Kept == /\ pc'[Updater] = pc[Updater] /\ fetch'[Updater] = fetch[Updater]
                     /\ oldest' = oldest
  <1>1. /\ Updater \in Procs /\ Updater \notin Handlers /\ Updater \notin Delayed
        /\ DOMAIN pc = Procs /\ DOMAIN fetch = Procs
    BY SiteAssumption DEF TypeOK, Procs
  <1>2. ASSUME NEW x \in Handlers, (\E q \in Requests : ServeHTTP(x, q)) \/ HandlerStep(x)
        PROVE  Kept
    <2>1. CASE \E d \in Delayed : saveUpdateLater(x, d)
      BY <1>1, <1>2, <2>1 DEF saveUpdateLater
    <2>2. CASE ~ \E d \in Delayed : saveUpdateLater(x, d)
      <3>1. PICK y : pc' = [pc EXCEPT ![x] = y] \/ pc' = pc
        BY <1>2, <2>2 DEF ServeHTTP, HandlerStep, SendStoredResponse, SendValidationRequest,
           Proxy, ValidationSucceeded, ValidationFailed, ProxyDone, ProxyAborted,
           updateResponseAndLocations, invalidateUri, revalidateUri, saveUpdateNow,
           Saved, UpdatesDone, Finish
      <3>2. PICK f : fetch' = [fetch EXCEPT ![x] = f] \/ fetch' = fetch
        BY <1>2, <2>2 DEF ServeHTTP, HandlerStep, SendStoredResponse, SendValidationRequest,
           Proxy, ValidationSucceeded, ValidationFailed, ProxyDone, ProxyAborted,
           updateResponseAndLocations, invalidateUri, revalidateUri, saveUpdateNow,
           Saved, UpdatesDone, Finish, Fetch, EndFetch
      <3>3. oldest' = oldest
        BY <1>2, <2>2 DEF ServeHTTP, HandlerStep, SendStoredResponse, SendValidationRequest,
           Proxy, ValidationSucceeded, ValidationFailed, ProxyDone, ProxyAborted,
           updateResponseAndLocations, invalidateUri, revalidateUri, saveUpdateNow,
           Saved, UpdatesDone, Finish
      <3> QED
        BY <1>1, <1>2, <3>1, <3>2, <3>3
    <2> QED
      BY <2>1, <2>2
  <1>3. ASSUME NEW x \in Delayed, DelayedStep(x) PROVE Kept
    BY <1>1, <1>3 DEF DelayedStep, StartSleep, DelayOver, Saved, Fetch, EndFetch
  <1>4. ASSUME NEW x \in Procs, x # Updater, OriginStep(x) PROVE Kept
    <2>1. PICK res : OriginAnswered(x, res)
      BY <1>4, OriginAnswers
    <2> QED
      BY <1>1, <1>4, <2>1 DEF OriginAnswered, OriginStep, OriginResponds, OriginFails
  <1>5. CASE Tick \/ UNCHANGED vars
    BY <1>5 DEF Tick, vars, local
  <1> QED
    BY <1>2, <1>3, <1>4, <1>5 DEF Next

(* A change that is given up stays on the record. *)
LEMMA MissedStep ==
  ASSUME TypeOK, [Next]_vars
  PROVE  missed \subseteq missed'
  <1>1. ASSUME NEW p \in Procs, OriginStep(p) PROVE missed \subseteq missed'
    BY <1>1 DEF OriginStep, OriginResponds, OriginFails, Miss
  <1>2. ASSUME NEW p \in Handlers, HandlerStep(p) PROVE missed \subseteq missed'
    BY <1>2 DEF HandlerStep, SendStoredResponse, SendValidationRequest, Proxy,
       ValidationSucceeded, ValidationFailed, ProxyDone, ProxyAborted,
       updateResponseAndLocations, invalidateUri, revalidateUri, saveUpdateNow,
       saveUpdateLater, Saved, UpdatesDone, Finish, Miss, ghosts
  <1>3. ASSUME NEW d \in Delayed, DelayedStep(d) PROVE missed \subseteq missed'
    BY <1>3 DEF DelayedStep, StartSleep, DelayOver, Saved, Miss, ghosts
  <1>4. CASE UpdaterStep
    BY <1>4 DEF UpdaterStep, updateEntry, NothingExpires, Wake, Refreshed, Retry, Retried, ghosts
  <1>5. ASSUME NEW p \in Handlers, NEW q \in Requests, ServeHTTP(p, q)
        PROVE  missed \subseteq missed'
    BY <1>5 DEF ServeHTTP
  <1>6. CASE Tick \/ Crash \/ UNCHANGED vars
    BY <1>6 DEF Tick, Crash, Miss, vars, ghosts
  <1> QED
    BY <1>1, <1>2, <1>3, <1>4, <1>5, <1>6 DEF Next
=============================================================================
