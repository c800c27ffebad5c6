---------------------------- MODULE RefreshLoop ----------------------------
(***************************************************************************)
(* The loop of updateCache and updateEntry against a clock that does not   *)
(* stop: does one goroutine, which refreshes one entry at a time, keep all *)
(* entries from becoming stale?  AlwaysCache has the same loop among the   *)
(* other goroutines, with absolute times and a last moment; here time is   *)
(* relative, and the other goroutines only store responses.                *)
(*                                                                         *)
(* A tick is one second (Second = 1): updateTimeout and the back-off are   *)
(* one second and the expires column holds whole seconds.  The fraction by *)
(* which that column is early is left out.  A row has the seconds that are *)
(* left until it expires.                                                  *)
(***************************************************************************)
EXTENDS Freshness, Storing, CacheKey, FiniteSets, FiniteSetsExt

CONSTANTS
  Pages,     \* the requests whose responses the other goroutines store
  Replies,   \* the origin's answers: [uri, hdr]
  Delays,    \* how many seconds the origin may take to answer
  Faults,    \* whether the origin may fail: a subset of BOOLEAN
  Horizon    \* bound: what has expired longer ago than this is not told apart

ASSUME LoopAssumption ==
  /\ Second = 1 /\ Delays \subseteq Nat /\ Faults \subseteq BOOLEAN /\ Horizon \in Nat
  /\ Replies \subseteq [uri : URI, hdr : Header]

VARIABLES
  rows,    \* the keys in the database and the seconds until they expire
  pc,      \* where the loop is
  target,  \* the key that is being refreshed
  timer,   \* seconds left to sleep
  waited,  \* seconds since the request was sent to the origin
  delay,   \* the origin answers within so many seconds
  faulty   \* the origin may fail

origin == <<delay, faulty>>
loopVars == <<rows, pc, target, timer, waited, origin>>

(* Whole or failed, as the reverse proxy records it. *)
BadGateway == [status |-> 502, hdr |-> EmptyHeader]

Responses(q) ==
  {[status |-> 200, hdr |-> r.hdr] : r \in {x \in Replies : x.uri = q.uri}}
  \cup (IF faulty THEN {BadGateway} ELSE {})

(* The row of a response that arrives now. *)
Row(q, res) ==
  [key  |-> AddVaryKeys(GetKeyPrefix(q), q, res.hdr),
   left |-> GetExpiration([hdr |-> res.hdr, clock |-> 0], 0)]

Stored(q, res) == ~MustNotStore(q, res.status, res.hdr)

Put(row) == {r \in rows : r.key # row.key} \cup {row}

(* A row without a lifetime has a negative expires column for ever. *)
Expires(r) == r.left # ZeroTime

(* Mutant: ORDER BY expires DESC. *)
Newest ==
  LET expiring == {r \in rows : r.key.method = "GET" /\ Expires(r)}
  IN {r \in expiring : \A s \in expiring : r.left >= s.left}

Oldest ==
  LET expiring == {r \in rows : r.key.method = "GET" /\ Expires(r)}
  IN {r \in expiring : \A s \in expiring : r.left <= s.left}

(******************************** The loop ********************************)

Send(label) == pc' = label /\ waited' = 0
Sleep(label) == pc' = label /\ timer' = 1

updateEntry ==
  /\ pc = "poll"
  /\ \E r \in Oldest : r.left <= 1 /\ target' = r.key
  /\ Send("refresh")
  /\ UNCHANGED <<rows, timer, origin>>

NothingExpires ==
  /\ pc = "poll"
  /\ \A r \in Oldest : r.left > 1
  /\ Sleep("sleep")
  /\ UNCHANGED <<rows, target, waited, origin>>

Wake ==
  /\ pc = "sleep" /\ timer = 0
  /\ pc' = "poll"
  /\ UNCHANGED <<rows, target, timer, waited, origin>>

(* Mutant: a failed refresh is neither retried nor purged. *)
RefreshedOrIgnored ==
  /\ pc = "refresh"
  /\ LET q == GetRequestFromKey(target)
     IN \E res \in Responses(q) :
          rows' = IF Stored(q, res) THEN Put(Row(q, res)) ELSE rows
  /\ pc' = "poll"
  /\ waited' = 0
  /\ UNCHANGED <<target, timer, origin>>

Refreshed ==
  /\ pc = "refresh"
  /\ LET q == GetRequestFromKey(target)
     IN \E res \in Responses(q) :
          IF Stored(q, res)
          THEN rows' = Put(Row(q, res)) /\ pc' = "poll" /\ UNCHANGED timer
          ELSE Sleep("backoff") /\ UNCHANGED rows
  /\ waited' = 0
  /\ UNCHANGED <<target, origin>>

Retry ==
  /\ pc = "backoff" /\ timer = 0
  /\ Send("retry")
  /\ UNCHANGED <<rows, target, timer, origin>>

Retried ==
  /\ pc = "retry"
  /\ LET q == GetRequestFromKey(target)
     IN \E res \in Responses(q) :
          rows' = IF Stored(q, res) THEN Put(Row(q, res))
                  ELSE {r \in rows : r.key # target}
  /\ pc' = "poll"
  /\ waited' = 0
  /\ UNCHANGED <<target, timer, origin>>

UpdaterStep == updateEntry \/ NothingExpires \/ Wake \/ Refreshed \/ Retry \/ Retried

(************************* Clients, origin and time ***********************)

(* A handler stores the answer to a client's request. *)
Store(q) ==
  /\ \E res \in Responses(q) : Stored(q, res) /\ rows' = Put(Row(q, res))
  /\ UNCHANGED <<pc, target, timer, waited, origin>>

(* The steps of the loop itself take no time worth mentioning, and the origin *)
(* keeps to its delay: a second passes only while the loop sleeps or waits.   *)
Waiting ==
  \/ pc \in {"sleep", "backoff"} /\ timer > 0
  \/ pc \in {"refresh", "retry"} /\ waited < delay

Tick ==
  /\ Waiting
  /\ rows' = {IF Expires(r) THEN [r EXCEPT !.left = Max({@ - 1, -Horizon})] ELSE r : r \in rows}
  /\ timer' = Max({timer - 1, 0})
  /\ waited' = IF pc \in {"refresh", "retry"} THEN waited + 1 ELSE waited
  /\ UNCHANGED <<pc, target, origin>>

Init ==
  /\ rows = {} /\ pc = "poll" /\ target = None
  /\ timer = 0 /\ waited = 0
  /\ delay \in Delays /\ faulty \in Faults

Next == UpdaterStep \/ (\E q \in Pages : Store(q)) \/ Tick

(* The goroutine runs when it can, the origin answers within its delay and    *)
(* time does not stop.                                                        *)
Spec == Init /\ [][Next]_loopVars /\ WF_loopVars(UpdaterStep) /\ WF_loopVars(Tick)

(******************************* Properties *******************************)

(* The keys that the loop has to look after. *)
Keys ==
  LET landing == {Row(x[1], x[2]) : x \in {y \in Pages \X Replies : y[1].uri = y[2].uri}}
  IN {row.key : row \in {x \in landing : Expires(x)}}

(* How long the loop may be busy with every key once: for a failure the      *)
(* origin's delay twice and the second between the two attempts.              *)
Round == Cardinality(Keys) * (IF faulty THEN 2 * delay + 1 ELSE delay)

(* "Before a cached response becomes stale, the cache is updated with a new   *)
(* response": with an origin that answers at once no row ever reaches its     *)
(* expiry, and otherwise none outlives it by more than one round through all  *)
(* keys.  The order of Oldest, the one second of updateTimeout and purging    *)
(* after the second failure are all needed for it.                            *)
RefreshedInTime == \A r \in rows : Expires(r) => r.left >= 1 - Round

(* The sites for which RefreshedInTime holds.  Elsewhere it may fail: the    *)
(* loop never looks at the answer to a POST; a rebuilt request has lost its  *)
(* Cache-Key, and an answer with another Vary goes under another key, so     *)
(* that the row stays the oldest; an answer that may not be stored costs a   *)
(* back-off, which Round allows for only where the origin may fail; and a    *)
(* lifetime of a second may be over before the loop looks again.             *)
SteadySite ==
  /\ IsFiniteSet(Pages) /\ IsFiniteSet(Replies)
  /\ \A q \in Pages : q.method = "GET" /\ q.ckey = <<>>
  /\ \A r, s \in Replies : r.uri = s.uri => r.hdr.vary = s.hdr.vary
  /\ \A r \in Replies :
       /\ FALSE \in Faults => Stored(NewRequest(r.uri), [status |-> 200, hdr |-> r.hdr])
       /\ Row(NewRequest(r.uri), r).left \in {ZeroTime} \cup (Nat \ {0, 1})

(* A key that is about to expire is refreshed or purged after all, however   *)
(* often the origin fails: no key is left out for ever.                       *)
EveryKeyServed ==
  \A k \in Keys :
    (\E r \in rows : r.key = k /\ Expires(r) /\ r.left <= 1)
      ~> ~(\E r \in rows : r.key = k /\ Expires(r) /\ r.left <= 1)
=============================================================================
