# always-cache: specification and proofs

always-cache is an HTTP cache that sits in front of one origin server, follows
RFC 9111, and *updates* what it has stored instead of waiting for it to expire:
a background loop refreshes responses that are about to become stale, and a
write is followed by fetches of everything it affects. This directory holds TLA+
modules that model it, TLC configurations that check them on small instances,
and proofs checked by TLAPS.

## The system

| Part | State | Operations | Talks to |
|---|---|---|---|
| Request handler (`always-cache.go`) | one goroutine per request, one `ResponseSaver` per fetch | `ServeHTTP`: lookup, hit, validate, forward; then store and update, in the handler for redirects and in a goroutine otherwise | database, origin, client |
| Updater (`updater.go: updateCache, updateEntry`) | the key it refreshes | poll for the entry that expires first, refetch, back off one second, retry once, purge | database, origin |
| Updates after a write (`updater.go: updateIfNeeded` ...) | list of URIs and `Cache-Update` entries; a loop variable shared with delayed goroutines | invalidate (legacy), revalidate what is stored, fetch now, fetch after a delay | database, origin |
| Cache provider (`cache/cache-provider.go`) | one SQLite table, a mutex | `All` (key prefix), `PutCE`, `Oldest`, `Purge`, `Has` | |
| Freshness (`rfc9111/4.2.*`, `5.1`, `5.3`, `1.2`) | none; reads the clock | `freshness_lifetime`, `current_age`, `isFresh`, `GetExpiration`, `AddAgeHeader` | |
| Storing (`rfc9111/3.*`, `rfc9111.go`) | none | `MustNotStore` | |
| Reuse, validation, invalidation (`rfc9111/4.0`, `4.1`, `4.3.1`, `4.4`) | none | `MustNotReuse`, `generateConditionalRequest`, `GetInvalidateURIs` | |
| Cache keys (`pkg/cache-key`) | none | request to key, key to request | |
| Fields (`rfc9111/5.2`, `pkg/cache-update`) | none | parsing of `Cache-Control`, `Cache-Update` | |
| `ResponseSaver` (`pkg/response-writer-tee`) | buffer, header, status, creation time | `WriteHeader`, `Write`: record a response while it is written to the client, hold back a 304 | reverse proxy, client |

What is hard here: any number of handlers, delayed goroutines and the updater
fetch from the origin at the same time and write to one table, each after an
exchange of arbitrary length; the origin's clock is not the cache's; timestamps
lose their fractions; durations saturate and wrap; the request behind a row is
known only through the text of its key; the origin may be unreachable or break
off; the process may stop while goroutines sleep. `PROJECT.json` lists these
hazards at their lines, each with the properties that would catch it.

What makes each part correct:

* handler: a response from the store is for this request, fresh or validated;
  every request is answered; a redirect waits for the updates;
* updater: what it fetches replaces the row it was made for; what cannot be
  refreshed is not served longer than it may; the 502 with which the proxy stands in
  for an unreachable origin, which has no header, does not replace a page (an
  origin's own 5xx is stored if its header fields allow it, like any other status);
* updates: every outdated row has a goroutine that is going to replace it, but
  for the cases in which the program is known to lose a change; a delayed update
  does what its entry says;
* refresh loop: one goroutine is enough to keep all rows from becoming stale;
* provider: keys are unique, `Has` tells the truth, prefixes select one URI;
* freshness: the age is never underestimated, the lifetime never overestimated;
* storing: exactly the responses that section 3 allows;
* recording: what is stored reads back as what the origin sent, and a client gets
  one answer;
* all together: a client gets a current answer or one within its lifetime.

## Modules

```
HttpMessages -- Freshness, CacheKey ---- Reuse
      |                                    |
      |-- Storing ----------------- AlwaysCache ------- MCAlwaysCache
      |      |                        |
      |      |                    HttpCache
      |      |---- (+ Freshness, CacheKey) RefreshLoop - MCRefreshLoop
      |      |
      |-- CacheControlField --- Recording ------------- MCRecording
                                    |
                              ResponseSaver

Freshness, CacheKey -- RuleProofs -- AlwaysCacheProofs (+ AlwaysCache)
                           |               |
                           |           CacheSteps --- ClientProofs --- CoherenceProofs
                           |                               |
Recording                  |                        RefinementProofs
   |                       |
RecordingProofs        RefreshLoopProofs (+ RefreshLoop)
```

(`Reuse` extends `Freshness` and `CacheKey`; `AlwaysCache` extends `Reuse` and
`Storing` and instantiates `HttpCache`; `Recording` extends `Storing`,
`CacheControlField` and `ResponseSaver`. The lower picture has the modules with
proofs; "Proofs" below says what is in them.)

* `HttpMessages`: messages reduced to the fields that decisions read. A body is
  the version of the resource it was rendered from; a validator is a version.
* `Freshness`: section 4.2 on time in ticks, `Second` ticks to a second, with
  Go's arithmetic: `Wrap` for sums of durations and `Sub`, saturating, for
  differences of times. `TrueAge` and `StatedLifetime` define what is promised
  without any of the code's clocks.
* `Storing`: `mustNotStore` as Go groups it, and the rule its comments quote.
* `CacheKey`: keys as records, the request that is rebuilt from one, and what
  `LIKE prefix%` matches. `LikeURI` says which URIs LIKE takes for another.
* `Reuse`: `MustNotReuse` with its three outcomes, the conditional request, what
  a write invalidates and updates.
* `AlwaysCache`: the state machine. Variables are the clock, the origin's
  versions, the rows, and per process its place in the code and its locals.
  One action is what runs between two waits:

  | Actions | Code |
  |---|---|
  | `ServeHTTP` | `ServeHTTP`, `getResponsesForUri` |
  | `SendStoredResponse`, `SendValidationRequest`, `Proxy` | the loop of `ServeHTTP`, `reuseOrValidate`, `proxy` up to the round trip |
  | `ValidationSucceeded`, `ValidationFailed` | `sendToClientIfValidationFailed` |
  | `ProxyDone`, `ProxyAborted` | `proxy` after the round trip; the panic of `httputil.ReverseProxy` |
  | `updateResponseAndLocations` | `writeCache` and the start of `updateIfNeeded` |
  | `invalidateUri`, `revalidateUri`, `saveUpdateNow`, `saveUpdateLater`, `Saved`, `UpdatesDone` | one turn of the loops of `invalidateUris`, `revalidateUris`, `saveUpdates`; `saveRequest` |
  | `StartSleep`, `DelayOver` | the goroutine of `saveUpdates` |
  | `updateEntry`, `NothingExpires`, `Wake`, `Refreshed`, `Retry`, `Retried` | `updateCache`, `updateEntry` |
  | `OriginResponds`, `OriginFails`, `Tick`, `Crash` | external |

  Variables and fields marked ghost are read by properties only: the request a
  row was stored for, whether it was already outdated then, the change a
  goroutine was started for, the state of the origin when a request was sent
  (`since`), and the changes that no goroutine will follow any more (`missed`).
* `HttpCache`: what clients may rely on, without store, keys and updater.
  `AlwaysCache!Abstract` maps the cache to it: the `stage` of a handler's client is
  "waiting" from `ServeHTTP` on, with what it has `asked`, and "answered", with its
  `answer`, when the reply is sent, which for a redirect is after the updates.
* `RefreshLoop`: `updateCache` and `updateEntry` again, alone with the origin and
  with handlers that store responses, in relative time: a row has the seconds
  until it expires, so the clock never stops. One tick is one second, as
  are the loop's sleeps; the fraction of a second by which the `expires` column is
  early is left out.
* `CacheControlField`: `ParseCacheControl` on lines, pieces between `", "` and the
  directives in them; `Meant` is what the origin has listed.
* `ResponseSaver`: `WriteHeader`, `Write` and the recorded bytes as
  `http.ReadResponse` reads them back.
* `Recording`: one exchange as `httputil.ReverseProxy` writes it into a saver
  (interim response, head, body in parts, trailers, or a break), then `writeCache`
  or `sendStoredResponse`. `AlwaysCache` takes such an exchange as one step.
* `MCAlwaysCache`, `MCRefreshLoop`, `MCRecording`: sites, clients and cases for
  TLC.

Definitions marked "Mutant" are plausible errors in the definition they precede;
nothing uses them, they document which error each property excludes.

### Abstractions and assumptions

* Steps between two waits are atomic. The database mutex makes `All`, `PutCE`
  and `Purge` atomic; other state is local to a goroutine, except the loop
  variable of `saveUpdates`, whose reads are separate steps.
* Header text is parsed, outside `CacheControlField`: a directive is absent,
  without a number, or a number.
* A redirect is small enough for net/http to keep it until the handler returns.
* URIs parse; one origin per database; the clock of the cache does not go back.
* Times fit a duration (292 years): `BoundAssumption`.
* `HasExact` is whether `Has` reports what is stored. `SQLiteCache.Has` asks a
  SELECT for the rows it affected, so its answer is arbitrary; the faults and
  liveness runs leave it open, the others have a provider that does what the
  interface documents.
* `RefreshLoop` has no failing database query; `AlwaysCache` has.
* In `Recording`, trailers are announced ones (others get a prefix that no decision
  reads), and interim responses are passed on, as `httputil.ReverseProxy` does
  since Go 1.20. `net/http` ignores a second final status.
* A failing `Purge` or `Has`, and a key that does not parse, panic: `Crash`.
* `NoneAssumption` (`None` is neither a response nor a number) and
  `RecordingAssumption` (headers and trailers are names with sequences of lines,
  statuses are final ones) say of the constants what every HTTP message satisfies.

## Runs

All runs of `MCAlwaysCache` have at most two handlers, two URIs and, where time
matters, a clock of a few ticks. Deadlock is checked, except in `faults` and
`loop_variable`, where the clock stops at `MaxTime` and sleeping goroutines with
it. `coherence` and `faults` use the symmetry of handlers.

| Run | Checks | Instance |
|---|---|---|
| `freshness` | `FreshHits`, `Stamps`, `AgeTold` | one client, one page with `max-age`, `s-maxage` or `Expires`; a second is 2 ticks; origin clock off by 3 ticks either way; `Age` absent or 1; 6 ticks |
| `coherence` | `Followed`, `RedirectAfterUpdate` | two clients, two pages, a redirecting write and one with `Cache-Update`; two versions; crashes |
| `faults` | `TypeOK`, `Followed` | a write with a delayed update, two handlers, one delayed goroutine; origin unreachable, answers that break off, `Has` arbitrary |
| `reuse` | `HitMatchesRequest`, `ValidatedIsCurrent`, `Followed`, `ImplementsHttpCache` | legacy mode; variants (absent, empty, present field), two URIs that LIKE confuses, `no-cache`, HEAD, a write, conditional clients with and without a selecting field |
| `updater` | `RefreshKeepsKey`, `ImplementsHttpCache` | a variant of a page that may change, the updater, origin and database failures, crashes; 4 ticks with a lifetime of 2 |
| `liveness` | `Answered` | two clients, redirecting writes with two revalidations, all origin failures, `Has` arbitrary |
| `refresh` | `RefreshedInTime`, `EveryKeyServed` | three pages, one of them in two variants and one without a lifetime; lifetimes of 2 and 3 s; an origin that takes 0, 1 or 2 s and may fail or not |
| `recording` | `StoredIsWhatWasSent`, `OneAnswer`, `RefusedOnlyWhenForbidden` | all three kinds of exchange; every subset of six directives, also on several lines or glued; `Expires`, trailers, five statuses, bodies of up to two parts |

Why the bounds are enough to meet the interesting cases: two versions let a
page be outdated in two different ways; two handlers are what every race over
one row needs (a read and a write, or two writes); six ticks of half a second
let a fetch, a stay in the cache and a truncation each take more than a second;
four ticks let a response of lifetime 2 expire before, during and after its
refresh, back-off and retry. In `RefreshLoop` nothing is bounded but how long ago
a row has expired (`Horizon`): 18 s is more than `RefreshedInTime` allows (a round
of three keys at 5 s), so no violation hides behind it. A body of two parts has
a first, a later and a missing part.

`recording` states what the code keeps of an exchange. `StoredIsWhatWasSent`: the row
reads back as the final answer as far as it arrived; it is whole if `proxy` passed
the request on, because a break panics past `writeCache`. `OneAnswer`: one final
answer, with the `Cache-Status` members of other caches. `RefusedOnlyWhenForbidden`
applies section 3 to the header as the origin sent it, for well-separated
directives and unless a trailer repeats `Cache-Control` or `Expires`
(`Overruled`). What these leave out is in the list below.

`Followed` is the strongest statement about coherence that the code satisfies.
It speaks of the row of the plain GET request of a page, the one that a write can
reach, and not of its variants. It follows every change of a resource: as long as
that row is older than the change, some goroutine is still going to refetch or purge it
(`Unfinished`: the handler that has the answer to the write, its work list, its
fetch, a delayed goroutine), or the change is in `missed`. `missed` grows exactly
where the program drops a change: the answer to the write named no such page or
broke off, or was a 502; its refetch was not stored, or fetched another path; `Has`
denied the page; a crash took the goroutine. Rows that were already outdated when
they were put (`late`: a read that overtook a write) stay until they expire, as
`missed` ones do. It holds through all interleavings of two writers, so no
*other* way to lose a change exists in these instances.

`ImplementsHttpCache` is the refinement: with its ghosts hidden the cache is an
`HttpCache`. It combines the store, keys, freshness, validation and the updater,
in the instances of `reuse` (versions, validators, legacy invalidation) and
`updater` (expiry, refresh, failures, crashes).

`RefreshedInTime` says that no row outlives its expiry by more than `Round`: the
time to refresh each key once, twice the delay and a second for a key that
fails. With an origin that answers at once, `Round` is 0 and rows are refreshed
before they expire, as the repository's README says.

### Where the code differs from what is said of it

Each of these runs ends in a counterexample; `PROJECT.json` quotes the line it
contradicts.

| Run | What happens |
|---|---|
| `undated` | without a `Date` the age saturates, then wraps to a negative one, and the response is fresh for ever |
| `storing_rule` | `&&` before `\|\|`: responses are stored against the rule of section 3 |
| `loop_variable` | delayed updates of one response share the last path |
| `starved` | a row whose page is now answered without its `Vary` is refetched without pause and stored under another key, and outlives its bound; the loop then has no time for other rows, which the trace does not go on to show |

The model has the following behaviours of the code too. They contradict RFC 9111
as the code's comments quote it, or the repository's README, and bound what the
passing runs can state. None of them has a run of its own, and no passing run
claims the opposite.

* A 304 sent to a client's own precondition is stored when it has `public` or
  `s-maxage`, and is then sent to clients without a precondition (a consequence
  of `storing_rule`).
* A stored response without `ETag` is validated with the client's own
  `If-None-Match` (`4.3.1._sending-a-validation-request.go:22`). If other answers of
  the page do have an `ETag`, the stored one is sent although the 304 was about the
  client's copy. `ValidatedIsCurrent` holds where all answers of a page carry the same
  validators, as in `reuse`; that is the hypothesis `SoundOrigin` of the proofs.
* Only a redirect that `proxy` passes on waits for the updates, and only for those
  without a delay: one that answers a failed validation (of a safe POST, in
  `sendToClientIfValidationFailed`) has reached the client before them.
  `RedirectAfterUpdate` is about the former.
* A bare comma does not separate directives (`5.2._cache-control.go:59`, against
  "comma-separated list" in line 58): `private,max-age=60` is neither, and
  `max-age=60,private` has no lifetime and is not private. The properties of
  `Recording` are about well-separated fields where it matters. (The `;` in
  `s-maxage=600; safe` of the repository's README is not a separator either.)
* Trailers are merged into the header that decisions read, but not into what is stored
  or sent to the client. `3.1._storing-header-and-trailer-fields.go:50` says "Caches MUST
  NOT combine trailer fields with header fields": a `no-store` in a trailer makes the
  code refuse a response that its header allows to store, and a lifetime in a
  trailer can have one stored. `RefusedOnlyWhenForbidden` therefore leaves `Overruled`
  exchanges out.
* An interim response is recorded in front of the answer and read back in its
  place; its fields stay in the header of the client's writer and are sent again
  with the final answer (`Added` in `OneAnswer`).
* `proxy` puts its `Cache-Status` member before those of caches nearer to the origin
  (`rfc9211/2._cache-status.go:92`: "The first member represents the cache closest to
  the origin server").
* After a failed validation the client is sent no `Cache-Status`; a validated page
  is called a hit (line 141: one that had to go forward "is not considered a
  hit"); and the
  reason for forwarding is always `uri-miss`. `OneAnswer` only says that the members
  of other caches are kept.
* The expiry in the database does not count `Age`, so the updater looks at a
  response with an `Age` later than it becomes stale.
* The updater refetches without pause a page whose lifetime is at most the second of
  `updateTimeout` or whose `Expires` is in the past; `refresh` has lifetimes from 2 s.
* The body of a safe POST is not part of its key (`pkg/cache-key/key.go:44`), though
  the repository's README says (lines 36 and 63) that a stored response "MUST NOT be
  reused unless the body of the incoming request semantically matches". Requests of
  the model have no body: `HitMatchesRequest` speaks of method, URI and selecting
  fields only, and the run that checks it has no safe POST.
* `LIKE prefix%` lets a request without `Cache-Key` find rows with one, and
  `GetRequestFromKey` drops it, so a refresh is stored under another key. The
  runs have no `Cache-Key`: `RefreshKeepsKey` would fail, and the loop would
  starve as in `starved`. `SteadyKeys` excludes both in the proof.
* Only the first line of a selecting field counts (`Get` in `HitMatchesRequest`),
  and of several suitable rows any may be used: the query has no order, though
  `4.0_constructing-responses-from-caches.go:139` says "MUST use the most recent one".
* Revalidation and invalidation reach only the row without selecting fields
  (`updater.go:140`), though `4.4._invalidating-stored-responses.go:44` says "all stored
  responses whose target URI matches"; `Followed` is about that row.
* When the answer to a write breaks off the reverse proxy panics past the updates
  (`ProxyAborted`); when a background fetch, or the answer to a failed validation,
  breaks off, what was received is stored and reused as if it were whole
  (`3.3._storing-incomplete-responses.go:10`: "MUST NOT store incomplete").

### Fairness

`FairSpec` asks weak fairness of every handler, delayed goroutine and the
updater: Go runs every goroutine that can run. It asks it of the origin too,
which the code does not justify (the transport has no response timeout): that
the origin answers, or the connection breaks, is an assumption of `Answered`.
Clients, the clock and crashes are not fair.

`RefreshLoop` asks weak fairness of the loop and of the clock. Time passes only
while the loop sleeps or waits for the origin, and no longer than the origin's
delay: the loop's own steps take no time worth mentioning, and that the origin
answers within `delay` is an assumption, as above.

## Proofs

Eight modules hold proofs. All theorems are for any sets of handlers, delayed
goroutines, URIs, requests, answers, clock offsets and ages, any pattern of origin
and database failures and of crashes, with updates or in legacy mode, and for
any `Has`. The assumptions on constants are `TimeAssumption`, `LikeAssumption`,
`SiteAssumption`, `BoundAssumption`, `NoneAssumption`, `RecordingAssumption` and
`LoopAssumption`; TLC evaluates them in the runs. Five theorems have a hypothesis
about the site, `SoundOrigin`, `SteadyKeys` or `SteadySite`, without which they are
false; the instances of the runs that check these properties satisfy it.

| Module | Theorem | States |
|---|---|---|
| `RuleProofs` | `FreshIsYoung` | what `isFresh` accepts is younger than the stated lifetime |
| | `VaryRoundTrip` | the request rebuilt from a key has the selecting fields of the original |
| `AlwaysCacheProofs` | `TypeCorrect`, `StampsHold`, `FreshHitsHold` | `TypeOK`, `Stamps`, `FreshHits` |
| `ClientProofs` | `AgeIsTold`, `HitsMatch` | `AgeTold`, `HitMatchesRequest` |
| | `ValidatedAreCurrent` | `SoundOrigin =>` `ValidatedIsCurrent` |
| `CoherenceProofs` | `ChangesAreFollowed`, `RedirectsWait` | `Followed`, `RedirectAfterUpdate` |
| | `RefreshesKeepKeys` | `SteadyKeys =>` `RefreshKeepsKey` |
| `RefinementProofs` | `CacheImplementsHttpCache` | `SoundOrigin =>` `ImplementsHttpCache` |
| `RefreshLoopProofs` | `OneLoopSuffices` | `SteadySite =>` `RefreshedInTime` |
| | `UpdatedBeforeStale` | `SteadySite =>` no row reaches its expiry, with an origin that answers at once and does not fail |
| `RecordingProofs` | `StoredReadsBack`, `RefusalsAreDue`, `ClientGetsOneAnswer` | `StoredIsWhatWasSent`, `RefusedOnlyWhenForbidden`, `OneAnswer` |

`SoundOrigin`: the origin gives a 304 only where a precondition asks for it, and
all its answers to one method and URI have the same validators. `SteadyKeys`: no
request has a `Cache-Key`, and all answers to one method and URI have the same
`Vary`. `SteadySite` (of `RefreshLoop`) asks that too, of finitely many pages, all
read with GET, and lifetimes of two seconds or more, or none; and, where the origin
does not fail, answers that may be stored. TLC evaluates it for the site of `refresh`
(`ShortLivedIsSteady`); the site of `starved` is not steady.

### Freshness

`FreshIsYoung` rests on: wrapping only lowers a lifetime (`WrapOnlyLowers`,
`LifetimeAtMostStated`), truncation moves times only backwards (`UnixFloor`), and
the computed age is at least the true one when the request time is not after the
response was generated (`AgeNotUnderestimated`). `Second` is positive and the
times involved fit a duration; nothing is assumed of the origin's clock beyond
that.

### The cache

The inductive invariants are built in layers, each needed by the next:

* `IInv` is `TypeOK /\ Stamps`. `TypeOK` alone is not strong enough for what
  follows; `Stamps` carries "requested before it was generated, received before
  now" from the fetch to the row to the lookup. With it, the only step that can
  disturb `FreshHits` is `SendStoredResponse`, where `Stamps` gives the hypotheses of
  `FreshIsYoung`.
* `CInv` adds `Courses`, what a handler has in hand at each place of the code (above
  all: the entry being validated is the one that the conditional request was
  generated from), and `Origins`: every row is under the key of the request it
  answers and holds an answer of the origin to it. `HitsMatch` follows from
  `VaryRoundTrip`: `headerFieldsMatch` compares with a request rebuilt from the key,
  which agrees with the original one on the fields that `Vary` names. `AgeIsTold`
  carries `AgeNotUnderestimated` and the rounding of `Age` to the reply.
* `HInv` adds `Past`, nothing in the cache is ahead of the origin, and `Timely`,
  what a handler fetches is not older than the state in which its client asked,
  nor than the entry being validated. With `SoundOrigin` a 304 then means that the
  entry has the version of the 304 (`ValidatedEntry`).

`CacheSteps` has the frame lemmas for all of this: what a step of any other
goroutine leaves of a handler (`Still`), where new rows, entries found, recorded
responses and versions come from.

`ChangesAreFollowed` adds `Plain`: what is fetched to update a URI is its plain
request, so its row has the plain key (`PlainKey`). `Open` is what is `missed` or
`Unfinished`. A change of the origin is open at once (`ChangeStep`); an open one
stays open or its page is renewed (`OpenStep`, by way of what each handler and
each delayed goroutine has: `HandlerKeeps`, `DelayedKeeps`); and a new row is up to
date or late (`NewRowFresh`). `RedirectsWait` adds `Waits`: a redirect is held back
while its handler works on its list, and what is no longer on the list is
settled and stays so (`QuietStep`: rows are only replaced by newer ones or late ones).

`RefreshesKeepKeys` adds `Refreshing`: the key the updater works on can be
rebuilt, that is, every answer to the request of the key goes under the same key.
By `KeyRoundTrip` that holds of every row of a steady site, also after the row
itself has been purged while the updater was asleep or waiting.

`CacheImplementsHttpCache` maps every action: `ServeHTTP` is `Ask`, `Finish` is
`Leave`, the five steps that answer a client and
`UpdatesDone` are `Answer` or unseen, the origin is `Write`, the clock `Pass`, a
crash `Restart`, and everything else stutters. A hit is within its lifetime by
`FreshIsYoung`; a validated page is current by `ValidatedEntry`; what `proxy`
brings, and a redirect that has waited, is not older than `since` by `Timely` and not
newer than the origin by `Past`.

### The refresh loop

`RefreshedInTime` bounds how late a row can be by the number of keys, but says
nothing of the order in which they are served, so it is not inductive. `LInv` is:

* `LoopOK`: where the loop is; it backs off only where the origin fails, has
  waited for the origin no longer than its delay, and its target is one of `Keys`;
* `RowsOK`: rows that expire are under one of `Keys`, and while the loop sleeps
  each has more seconds left than the loop sleeps;
* `Queued`: a row with `left` seconds is late by at most one `Service` for every
  key it has `Passed`, plus the seconds spent on the present target, `Elapsed`
  (`InTurn`). The keys it has passed are those that it does not wait for: they have no
  row, or one that expires later, and they are not the target.

The count works because whoever is served goes to the end of the queue: the target is
the first to expire (`FirstToExpire`), so no row had passed it (`PollStep`); when
it has been stored again it has two seconds left, or it is purged, so every
row that is late has passed one key more (`Served`), which pays for the time
the service took (`StillWaits`); a row stored for a client can only be passed
(`StoredForClient`); and a second that passes is spent on the target, or the loop
sleeps and every row has two seconds left (`TickStep`). That a refresh lands on
its own key is `KeyRoundTrip`. The keys that a row has passed and the target are
different ones of `Keys`, which gives the bound (`WithinOneRound`). `Horizon` needs
no assumption: if it is smaller than the round, no row is shown later than that
allows, and otherwise `Queued` implies that it is never reached. TLC has checked `LInv`
on the instance of `refresh`, and that the bound is exact there: with a delay of a
second and no failures a row does get down to `1 - Round`.

### Recording

`Recorded` says what the saver has: a log of the origin's head and `parts`
parts, the header with the trailers once they have come, and, once `writeCache`
has decided, the row or the reason: `DecidedByHeader`, of the fields that no
trailer repeats, the decision reads the lines of the origin's own header.
`Passed` says what the client has: interim heads only (`Waiting`) until the
final head, then that head, with the fields the client's writer already had
before those of the origin, and every part (`Passing`); nothing of a status that
is held back. Both are inductive; TLC has checked them on the instance of
`recording`. `ParsedAsMeant` shows that the parser finds in well-separated
lines, however many and with repetitions, what `Meant` says.

### Only model-checked

* `Answered` and `EveryKeyServed`: liveness under fairness is outside the prover's
  reach.
* That the runs' own instances reach every action, and the four counterexamples.

## Not modelled

* Code without callers: the response serializer, `getResponses`, `updateAll`,
  `SQLiteCache.Get`, `Put` and `AllKeys`, `storableHeader`,
  `ConstructDownstreamResponse`, `ConstructReusableResponse`, `GetForwardRequest`.
* Pure text: logging, the wording of `Cache-Status`, formats of dates, resolving
  the paths of `Cache-Update`.
* The command line (its choices are `Legacy` and `InMemory`), SQLite below the
  table, the conformance test harness, pre-caching (not in this code).

## Plan

1. Done: the modules and runs above, and proofs of all invariants and action
   properties that runs check, and of the refinement.
2. Next: `Followed` for variants, if the code learns to reach them.
3. Left open: `Has` with database connections and their change counters as a module
   of its own; paths and delays of `Cache-Update` as text.
