-------------------------- MODULE RefreshLoopProofs --------------------------
(***************************************************************************)
(* One goroutine that refreshes one entry at a time, the earliest first,   *)
(* keeps every row of a steady site within one round of its expiry, for    *)
(* any number of pages, any delay of the origin and any lifetimes.         *)
(***************************************************************************)
EXTENDS RefreshLoop, RuleProofs, WellFoundedInduction

(*************************** What the loop keeps ***************************)

(* The longest that the loop may be busy with one key. *)
Service == IF faulty THEN 2 * delay + 1 ELSE delay

Busy == pc \in {"refresh", "backoff", "retry"}

(* The seconds the loop may have spent on its target so far. *)
Elapsed ==
  CASE pc = "refresh" -> waited
    [] pc = "backoff" -> delay + 1 - timer
    [] pc = "retry"   -> delay + 1 + waited
    [] OTHER          -> 0

(* The keys that a row with so many seconds left does not wait for: their    *)
(* rows expire later, or they have none, and the loop is not busy with them. *)
Passed(left) ==
  {k \in Keys : /\ Busy => k # target
                /\ \A s \in rows : s.key = k /\ Expires(s) => s.left > left}

(* A row is late by one service at most for every key that may have been     *)
(* served while it waited, and by the time spent on the present target.      *)
InTurn(left) == left >= 1 - Service * Cardinality(Passed(left)) - Elapsed

(* Where the loop is.  Only a failing origin makes it back off, and it works *)
(* on a key that it has to look after.                                       *)
LoopOK ==
  /\ pc \in {"poll", "sleep", "refresh", "backoff", "retry"}
  /\ timer \in {0, 1}
  /\ delay \in Nat /\ faulty \in BOOLEAN /\ faulty \in Faults
  /\ waited \in 0..delay
  /\ pc \in {"backoff", "retry"} => faulty = TRUE
  /\ Busy => target \in Keys

IsRow(r) == r = [key |-> r.key, left |-> r.left] /\ r.left \in Int

(* Rows that expire are under the keys of the site, and none becomes stale   *)
(* while the loop sleeps.                                                    *)
RowsOK ==
  \A r \in rows :
    /\ IsRow(r)
    /\ Expires(r) => /\ r.key \in Keys
                     /\ r.left >= -Horizon
                     /\ pc = "sleep" => r.left > timer

(* Unless the bound on how long ago a row has expired hides it, every row    *)
(* has waited no longer than for the keys it was behind.                     *)
Queued == Horizon >= Round => \A r \in rows : Expires(r) => InTurn(r.left)

LInv == LoopOK /\ RowsOK /\ Queued

(******************************** The site ********************************)

(* The keys to look after, without the detour over rows. *)
LEMMA KeysOfSite ==
  ASSUME NEW k
  PROVE  k \in Keys <=> \E q \in Pages, r \in Replies :
                          q.uri = r.uri /\ k = Row(q, r).key /\ Expires(Row(q, r))
  <1> DEFINE pairs == {y \in Pages \X Replies : y[1].uri = y[2].uri}
             landing == {Row(x[1], x[2]) : x \in pairs}
  <1>1. Keys = {row.key : row \in {x \in landing : Expires(x)}}
    BY DEF Keys
  <1>2. ASSUME k \in Keys
        PROVE  \E q \in Pages, r \in Replies :
                 q.uri = r.uri /\ k = Row(q, r).key /\ Expires(Row(q, r))
    <2>1. PICK row \in landing : Expires(row) /\ k = row.key
      BY <1>1, <1>2
    <2>2. PICK x \in pairs : row = Row(x[1], x[2])
      BY <2>1
    <2>3. x[1] \in Pages /\ x[2] \in Replies /\ x[1].uri = x[2].uri
      BY <2>2
    <2> QED
      BY <2>1, <2>2, <2>3
  <1>3. ASSUME NEW q \in Pages, NEW r \in Replies,
               q.uri = r.uri, k = Row(q, r).key, Expires(Row(q, r))
        PROVE  k \in Keys
    <2>1. <<q, r>> \in pairs /\ <<q, r>>[1] = q /\ <<q, r>>[2] = r
      BY <1>3
    <2>2. Row(q, r) \in landing
      BY <2>1
    <2> HIDE DEF landing
    <2> QED
      BY <1>1, <1>3, <2>2
  <1> QED
    BY <1>2, <1>3

(* A site of finitely many pages and answers has finitely many keys. *)
LEMMA FiniteKeys ==
  ASSUME SteadySite
  PROVE  IsFiniteSet(Keys)
  <1> DEFINE pairs == {x \in Pages \X Replies : x[1].uri = x[2].uri /\ Expires(Row(x[1], x[2]))}
             f == [x \in pairs |-> Row(x[1], x[2]).key]
  <1>1. IsFiniteSet(Pages \X Replies)
    BY FS_Product DEF SteadySite
  <1>2. IsFiniteSet(pairs)
    <2>1. pairs \in SUBSET (Pages \X Replies)
      OBVIOUS
    <2> QED
      BY <1>1, <2>1, FS_Subset
  <1>3. f \in Surjection(pairs, Keys)
    <2>1. \A x \in pairs : f[x] \in Keys
      BY KeysOfSite
    <2>2. ASSUME NEW k \in Keys PROVE \E x \in pairs : f[x] = k
      <3>1. PICK q \in Pages, r \in Replies :
              q.uri = r.uri /\ k = Row(q, r).key /\ Expires(Row(q, r))
        BY KeysOfSite
      <3>2. <<q, r>> \in pairs /\ f[<<q, r>>] = k
        BY <3>1
      <3> QED
        BY <3>2
    <2>3. f \in [pairs -> Keys]
      BY <2>1
    <2> HIDE DEF f, pairs
    <2> QED
      BY <2>2, <2>3 DEF Surjection
  <1> HIDE DEF f, pairs
  <1> QED
    BY <1>2, <1>3, FS_Surjection
(* What is stored is an answer of the site, with a lifetime of at least two  *)
(* seconds or none: the 502 of a failed exchange has no header field and is  *)
(* refused (MustNotStore).                                                   *)
LEMMA StoredAnswer ==
  ASSUME SteadySite, NEW q, NEW res \in Responses(q), Stored(q, res)
  PROVE  /\ \E r \in Replies : r.uri = q.uri /\ Row(q, res) = Row(q, r)
         /\ IsRow(Row(q, res))
         /\ Row(q, res).left \in {ZeroTime} \cup (Nat \ {0, 1})
  <1>1. PICK r \in Replies : r.uri = q.uri /\ res = [status |-> 200, hdr |-> r.hdr]
    <2>1. res # BadGateway
      BY DEF Stored, MustNotStore, BadGateway
    <2> QED
      BY <2>1 DEF Responses
  <1>2. res.hdr = r.hdr
    BY <1>1
  <1>3. Row(q, res) = Row(q, r)
    BY <1>2 DEF Row
  <1>4. Row(q, r).left = Row(NewRequest(r.uri), r).left
    BY DEF Row
  <1>5. Row(q, r).left \in {ZeroTime} \cup (Nat \ {0, 1})
    BY <1>4 DEF SteadySite
  <1>6. Row(q, r) = [key |-> Row(q, r).key, left |-> Row(q, r).left]
    BY DEF Row
  <1> QED
    BY <1>1, <1>3, <1>5, <1>6, TimeAssumption DEF IsRow

(* What a handler stores for a page expires under a key of the site. *)
LEMMA PageStored ==
  ASSUME SteadySite, NEW q \in Pages, NEW res \in Responses(q), Stored(q, res),
         Expires(Row(q, res))
  PROVE  Row(q, res).key \in Keys
  <1>1. PICK r \in Replies : r.uri = q.uri /\ Row(q, res) = Row(q, r)
    BY StoredAnswer
  <1> QED
    BY <1>1, KeysOfSite

(* What is fetched for a key goes under that key (GetRequestFromKey).        *)
LEMMA RefreshStored ==
  ASSUME SteadySite, NEW k \in Keys, NEW res \in Responses(GetRequestFromKey(k)),
         Stored(GetRequestFromKey(k), res)
  PROVE  Row(GetRequestFromKey(k), res).key = k
  <1> DEFINE q == GetRequestFromKey(k)
  <1>1. PICK p \in Pages, s \in Replies : p.uri = s.uri /\ k = Row(p, s).key
    BY KeysOfSite
  <1>2. k = AddVaryKeys(GetKeyPrefix(p), p, s.hdr)
    BY <1>1 DEF Row
  <1>3. q.uri = p.uri
    BY <1>2 DEF GetRequestFromKey, AddVaryKeys, GetKeyPrefix
  <1>4. PICK r \in Replies : r.uri = q.uri /\ Row(q, res) = Row(q, r)
    BY StoredAnswer
  <1>5. r.hdr.vary = s.hdr.vary /\ p.ckey = <<>>
    BY <1>1, <1>3, <1>4 DEF SteadySite
  <1>6. s.hdr.vary \in Seq(Field \cup {"*"})
    BY LoopAssumption DEF Header
  <1>7. AddVaryKeys(GetKeyPrefix(q), q, r.hdr) = k
    BY <1>2, <1>5, <1>6, KeyRoundTrip
  <1>8. Row(q, r).key = AddVaryKeys(GetKeyPrefix(q), q, r.hdr)
    BY DEF Row
  <1> QED
    BY <1>4, <1>7, <1>8

(* The loop looks at the keys of the site, all of which belong to a GET, and *)
(* only an origin that fails makes it back off.                              *)
LEMMA RefreshOfKey ==
  ASSUME SteadySite, NEW k \in Keys
  PROVE  /\ k.method = "GET"
         /\ \A res \in Responses(GetRequestFromKey(k)) :
              faulty = FALSE /\ faulty \in Faults => Stored(GetRequestFromKey(k), res)
  <1> DEFINE q == GetRequestFromKey(k)
  <1>1. PICK p \in Pages, s \in Replies : p.uri = s.uri /\ k = Row(p, s).key
    BY KeysOfSite
  <1>2. k.method = "GET"
    BY <1>1 DEF Row, AddVaryKeys, GetKeyPrefix, SteadySite
  <1>3. ASSUME NEW res \in Responses(q), faulty = FALSE, faulty \in Faults
        PROVE  Stored(q, res)
    <2>1. PICK r \in Replies : r.uri = q.uri /\ res = [status |-> 200, hdr |-> r.hdr]
      BY <1>3 DEF Responses
    <2>2. Stored(NewRequest(r.uri), res)
      BY <1>3, <2>1 DEF SteadySite
    <2>3. /\ q.method = "GET" /\ q.auth = FALSE
          /\ NewRequest(r.uri).method = "GET" /\ NewRequest(r.uri).auth = FALSE
      BY <1>2 DEF GetRequestFromKey, NewRequest
    <2> HIDE DEF q
    <2>4. MustNotStore(q, res.status, res.hdr) = MustNotStore(NewRequest(r.uri), res.status, res.hdr)
      BY <2>3 DEF MustNotStore, mustNotStore
    <2> QED
      BY <2>2, <2>4 DEF Stored
  <1> QED
    BY <1>2, <1>3

(******************************* Arithmetic *******************************)

(* Of two integers the maximum is one that is not less than the other. *)
LEMMA MaxOfTwo ==
  ASSUME NEW a \in Int, NEW b \in Int
  PROVE  Max({a, b}) \in {a, b} /\ Max({a, b}) >= a /\ Max({a, b}) >= b
  <1>1. \E x \in {a, b} : \A y \in {a, b} : x >= y
    OBVIOUS
  <1> QED
    BY <1>1 DEF Max

(* More keys that may have been served allow for a longer wait. *)
LEMMA MorePassed ==
  ASSUME SteadySite, NEW d \in Nat, NEW S \in SUBSET Keys, NEW T \in SUBSET Keys,
         S \subseteq T
  PROVE  /\ d * Cardinality(S) \in Nat /\ d * Cardinality(T) \in Nat
         /\ d * Cardinality(S) <= d * Cardinality(T)
         /\ (\E k \in T : k \notin S) => d * Cardinality(S) + d <= d * Cardinality(T)
  <1>1. IsFiniteSet(S) /\ IsFiniteSet(T)
    BY FiniteKeys, FS_Subset
  <1>2. /\ Cardinality(S) \in Nat /\ Cardinality(T) \in Nat
        /\ Cardinality(S) <= Cardinality(T)
    BY <1>1, FS_Subset, FS_CardinalityType
  <1>3. ASSUME NEW k \in T, k \notin S PROVE Cardinality(S) + 1 <= Cardinality(T)
    <2>1. Cardinality(S \cup {k}) = Cardinality(S) + 1 /\ IsFiniteSet(S \cup {k})
      BY <1>1, <1>3, FS_AddElement
    <2>2. S \cup {k} \in SUBSET T
      BY <1>3
    <2>3. Cardinality(S \cup {k}) <= Cardinality(T)
      BY <1>1, <2>2, FS_Subset
    <2> QED
      BY <2>1, <2>3
  <1>4. ASSUME NEW m \in Nat, NEW n \in Nat
        PROVE  /\ d * m \in Nat /\ d * (m + 1) = d * m + d
               /\ m <= n => d * m <= d * n
    <2>1. d * m \in Nat /\ d * (m + 1) = d * m + d
      OBVIOUS
    <2>2. ASSUME m <= n PROVE d * m <= d * n
      <3>1. n - m \in Nat /\ n = m + (n - m)
        BY <2>2
      <3>2. d * n = d * m + d * (n - m) /\ d * (n - m) \in Nat
        BY <3>1
      <3> QED
        BY <2>1, <3>2
    <2> QED
      BY <2>1, <2>2
  <1>5. ASSUME NEW k \in T, k \notin S
        PROVE  d * Cardinality(S) + d <= d * Cardinality(T)
    <2>1. Cardinality(S) + 1 \in Nat /\ Cardinality(S) + 1 <= Cardinality(T)
      BY <1>2, <1>3, <1>5
    <2>2. d * (Cardinality(S) + 1) <= d * Cardinality(T)
      BY <1>2, <1>4, <2>1
    <2> QED
      BY <1>2, <1>4, <2>2
  <1> QED
    BY <1>2, <1>4, <1>5

(* What the seconds spent and the longest service are. *)
Bounded ==
  /\ Service \in Nat /\ Elapsed \in Nat /\ Elapsed <= Service
  /\ ~Busy => Elapsed = 0

(* The time spent on a target is bounded: a failing origin takes its delay   *)
(* twice and the back-off, any other its delay once.                         *)
LEMMA ServiceBound == LoopOK => Bounded
  <1> SUFFICES ASSUME LoopOK PROVE Bounded
    OBVIOUS
  <1> USE DEF Bounded
  <1>1. Service \in Nat /\ delay <= Service /\ (faulty => Service = 2 * delay + 1)
    BY DEF LoopOK, Service
  <1>2. CASE pc \in {"poll", "sleep"}
    BY <1>1, <1>2 DEF Elapsed
  <1>3. CASE pc = "refresh"
    BY <1>1, <1>3 DEF Elapsed, LoopOK, Busy
  <1>4. CASE pc = "backoff"
    BY <1>1, <1>4 DEF Elapsed, LoopOK, Busy
  <1>5. CASE pc = "retry"
    BY <1>1, <1>5 DEF Elapsed, LoopOK, Busy
  <1> QED
    BY <1>2, <1>3, <1>4, <1>5 DEF LoopOK

(* The round is one service for every key. *)
LEMMA RoundIsServices ==
  ASSUME SteadySite, LoopOK
  PROVE  Round = Service * Cardinality(Keys) /\ Round \in Nat
  <1>1. Cardinality(Keys) \in Nat
    BY FiniteKeys, FS_CardinalityType
  <1>2. Service \in Nat
    BY ServiceBound DEF Bounded
  <1>3. Round = Cardinality(Keys) * Service
    BY DEF Round, Service
  <1> QED
    BY <1>1, <1>2, <1>3

(* A row that has a second left is not late. *)
LEMMA InTime ==
  ASSUME SteadySite, LoopOK', NEW left \in Int, left >= 1
  PROVE  InTurn(left)'
  <1>1. PICK T : T = Passed(left)'
    OBVIOUS
  <1>2. T \in SUBSET Keys
    <2>1. \A k \in Passed(left)' : k \in Keys
      BY DEF Passed
    <2> QED
      BY <1>1, <2>1
  <1>3. PICK d : d = Service'
    OBVIOUS
  <1>4. d \in Nat /\ Elapsed' \in Nat
    <2>1. LoopOK' => Bounded'
      BY ServiceBound, PTL
    <2> QED
      BY <1>3, <2>1 DEF Bounded
  <1>5. d * Cardinality(T) \in Nat
    BY <1>2, <1>4, MorePassed
  <1>6. InTurn(left)' <=> left >= 1 - d * Cardinality(T) - Elapsed'
    BY <1>1, <1>3 DEF InTurn
  <1> QED
    BY <1>4, <1>5, <1>6

(* What keeps a row from being late: the time that has passed for it is time *)
(* spent on the target, or the target has been served and has been passed.   *)
LEMMA StillWaits ==
  ASSUME SteadySite, LoopOK, LoopOK', UNCHANGED origin,
         NEW left \in Int, InTurn(left), NEW now \in Int,
         Passed(left) \subseteq Passed(now)',
         \/ left - now <= Elapsed' - Elapsed
         \/ now = left /\ \E k \in Passed(now)' : k \notin Passed(left)
  PROVE  InTurn(now)'
  <1> DEFINE S == Passed(left)
             d == Service
  <1>1. PICK T : T = Passed(now)'
    OBVIOUS
  <1>2. S \in SUBSET Keys /\ T \in SUBSET Keys /\ S \subseteq T
    <2>1. \A k \in Passed(now)' : k \in Keys
      BY DEF Passed
    <2> QED
      BY <1>1, <2>1 DEF Passed
  <1>3. d \in Nat /\ Elapsed \in Nat /\ Elapsed <= d
    BY ServiceBound DEF Bounded
  <1>4. Service' = d /\ Elapsed' \in Nat
    <2>1. LoopOK' => Bounded'
      BY ServiceBound, PTL
    <2> QED
      BY <2>1 DEF Bounded, Service, origin
  <1>5. /\ d * Cardinality(S) \in Nat /\ d * Cardinality(T) \in Nat
        /\ d * Cardinality(S) <= d * Cardinality(T)
        /\ (\E k \in T : k \notin S) => d * Cardinality(S) + d <= d * Cardinality(T)
    <2> HIDE DEF d, S
    <2> QED
      BY <1>2, <1>3, MorePassed
  <1>6. left >= 1 - d * Cardinality(S) - Elapsed
    BY DEF InTurn
  <1>7. InTurn(now)' <=> now >= 1 - d * Cardinality(T) - Elapsed'
    BY <1>1, <1>4 DEF InTurn
  <1>8. PICK a, b, e, f : /\ a = d * Cardinality(S) /\ b = d * Cardinality(T)
                          /\ e = Elapsed /\ f = Elapsed'
    OBVIOUS
  <1> HIDE DEF d, S
  <1>9. /\ a \in Nat /\ b \in Nat /\ e \in Nat /\ f \in Nat
        /\ a <= b /\ e <= d /\ left >= 1 - a - e
        /\ (\E k \in T : k \notin S) => a + d <= b
    BY <1>3, <1>4, <1>5, <1>6, <1>8
  <1>10. left - now <= f - e \/ (now = left /\ a + d <= b)
    <2>1. \/ left - now <= f - e
          \/ now = left /\ \E k \in T : k \notin S
      BY <1>1, <1>8, Zenon DEF S
    <2> QED
      BY <1>9, <2>1
  <1>11. now >= 1 - b - f
    BY <1>3, <1>9, <1>10
  <1> QED
    BY <1>7, <1>8, <1>11
(******************************** The steps ********************************)

(* Responses that have just arrived expire in two seconds at the earliest. *)
New(r) == IsRow(r) /\ r.left \in {ZeroTime} \cup (Nat \ {0, 1})

(* The loop is done with its target: the row is new or gone, all others are  *)
(* as they were, and whoever waited for it has passed one more key.          *)
LEMMA Served ==
  ASSUME SteadySite, LInv, LoopOK', UNCHANGED origin, Busy, pc' = "poll",
         \A r \in rows' : \/ r \in rows /\ r.key # target
                          \/ New(r) /\ r.key = target
  PROVE  RowsOK' /\ Queued'
  <1>1. LoopOK /\ RowsOK /\ Queued /\ target \in Keys /\ ~Busy'
    BY DEF LInv, LoopOK, Busy
  <1>2. Round' = Round
    BY DEF Round, origin
  <1>3. ASSUME NEW r \in rows', Expires(r)
        PROVE  /\ r.key \in Keys /\ r.left \in Int /\ r.left >= -Horizon
               /\ r.left < 1 => r \in rows /\ r.key # target
    BY <1>1, <1>3, LoopAssumption DEF RowsOK, New, IsRow, Expires
  <1>4. RowsOK'
    <2>1. \A r \in rows' : IsRow(r)
      BY <1>1 DEF RowsOK, New
    <2> QED
      BY <1>3, <2>1 DEF RowsOK, Expires
  <1>5. ASSUME Horizon >= Round, NEW r \in rows', Expires(r) PROVE InTurn(r.left)'
    <2> DEFINE left == r.left
    <2>1. left \in Int
      BY <1>3, <1>5
    <2>2. CASE left >= 1
      <3> HIDE DEF left
      <3>1. InTurn(left)'
        BY <2>1, <2>2, InTime
      <3> QED
        BY <3>1 DEF left
    <2>3. CASE left < 1
      <3>1. r \in rows /\ r.key # target
        BY <1>3, <1>5, <2>3
      <3>2. InTurn(left)
        BY <1>1, <1>5, <3>1 DEF Queued
      <3>3. ASSUME NEW s \in rows', Expires(s), s \notin rows \/ s.key = target
            PROVE  s.left > left
        <4>1. New(s)
          BY <3>3
        <4>2. s.left \in Nat /\ s.left > 1
          BY <3>3, <4>1 DEF New, Expires
        <4> QED
          BY <2>1, <2>3, <4>2
      <3>4. Passed(left) \subseteq Passed(left)'
        <4> HIDE DEF left
        <4> QED
          BY <1>1, <3>3 DEF Passed, Expires
      <3>5. target \in Passed(left)' /\ target \notin Passed(left)
        <4> HIDE DEF left
        <4> QED
          BY <1>1, <3>3 DEF Passed, Expires
      <3> HIDE DEF left
      <3>6. InTurn(left)'
        BY <1>1, <2>1, <3>2, <3>4, <3>5, StillWaits
      <3> QED
        BY <3>6 DEF left
    <2> QED
      BY <2>1, <2>2, <2>3
  <1> QED
    BY <1>2, <1>4, <1>5 DEF Queued, Expires

(* A response is stored for a client: it is new, and whoever waited for the  *)
(* key has passed it.                                                        *)
LEMMA StoredForClient ==
  ASSUME SteadySite, LInv, UNCHANGED <<pc, target, timer, waited, origin>>,
         \A r \in rows' : \/ r \in rows
                          \/ New(r) /\ (Expires(r) => r.key \in Keys)
  PROVE  LInv'
  <1>1. LoopOK /\ RowsOK /\ Queued /\ LoopOK' /\ Elapsed' = Elapsed /\ (Busy' <=> Busy)
    BY DEF LInv, LoopOK, Busy, Elapsed, origin
  <1>2. Round' = Round
    BY DEF Round, origin
  <1>3. ASSUME NEW r \in rows', Expires(r)
        PROVE  /\ r.key \in Keys /\ r.left \in Int /\ r.left >= -Horizon
               /\ r.left < 1 => r \in rows
               /\ pc = "sleep" => r.left > timer
    BY <1>1, <1>3, LoopAssumption DEF RowsOK, LoopOK, New, IsRow, Expires
  <1>4. RowsOK'
    <2>1. \A r \in rows' : IsRow(r)
      BY <1>1 DEF RowsOK, New
    <2> QED
      BY <1>3, <2>1 DEF RowsOK, Expires
  <1>5. ASSUME Horizon >= Round, NEW r \in rows', Expires(r) PROVE InTurn(r.left)'
    <2> DEFINE left == r.left
    <2>1. left \in Int
      BY <1>3, <1>5
    <2>2. CASE left >= 1
      <3> HIDE DEF left
      <3>1. InTurn(left)'
        BY <1>1, <2>1, <2>2, InTime
      <3> QED
        BY <3>1 DEF left
    <2>3. CASE left < 1
      <3>1. r \in rows
        BY <1>3, <1>5, <2>3
      <3>2. InTurn(left)
        BY <1>1, <1>5, <3>1 DEF Queued
      <3>3. ASSUME NEW s \in rows', Expires(s), s \notin rows
            PROVE  s.left > left
        <4>1. New(s)
          BY <3>3
        <4>2. s.left \in Nat /\ s.left > 1
          BY <3>3, <4>1 DEF New, Expires
        <4> QED
          BY <2>1, <2>3, <4>2
      <3>4. Passed(left) \subseteq Passed(left)'
        <4> HIDE DEF left
        <4> QED
          BY <1>1, <3>3 DEF Passed, Expires
      <3> HIDE DEF left
      <3>5. left - left <= Elapsed' - Elapsed
        BY <1>1, <2>1, ServiceBound DEF Bounded
      <3>6. InTurn(left)'
        BY <1>1, <2>1, <3>2, <3>4, <3>5, StillWaits
      <3> QED
        BY <3>6 DEF left
    <2> QED
      BY <2>1, <2>2, <2>3
  <1> QED
    BY <1>1, <1>2, <1>4, <1>5 DEF LInv, Queued, Expires

(* What a poll finds: if a row expires at all, one is the first to expire. *)
LEMMA FirstToExpire ==
  ASSUME SteadySite, RowsOK, NEW r \in rows, Expires(r)
  PROVE  \E o \in Oldest : o.left <= r.left
  <1> DEFINE expiring == {x \in rows : x.key.method = "GET" /\ Expires(x)}
             T == {x.left + Horizon : x \in expiring}
  <1>1. Horizon \in Nat
    BY LoopAssumption
  <1>2. \A x \in expiring : x.left \in Int /\ x.left + Horizon \in Nat
    BY <1>1 DEF RowsOK, IsRow
  <1>3. r \in expiring
    BY RefreshOfKey DEF RowsOK
  <1>4. T \subseteq Nat /\ T # {}
    BY <1>2, <1>3
  <1>5. PICK t \in T : \A y \in T : ~(<<y, t>> \in OpToRel(<, Nat))
    <2> HIDE DEF T
    <2> QED
      BY <1>4, WFMin, NatLessThanWellFounded, Zenon
  <1>6. \A y \in T : t <= y
    <2>1. \A y \in Nat : y < t => <<y, t>> \in OpToRel(<, Nat)
      BY <1>4 DEF OpToRel
    <2>2. \A y \in T : y \in Nat /\ t \in Nat /\ ~(y < t)
      BY <1>4, <1>5, <2>1, Zenon
    <2> HIDE DEF T
    <2> QED
      BY <2>2
  <1>7. PICK o \in expiring : t = o.left + Horizon
    BY <1>5
  <1>8. \A x \in expiring : o.left <= x.left
    <2> SUFFICES ASSUME NEW x \in expiring PROVE o.left <= x.left
      OBVIOUS
    <2>1. x.left + Horizon \in T
      OBVIOUS
    <2>2. t <= x.left + Horizon
      BY <1>6, <2>1
    <2> QED
      BY <1>1, <1>2, <1>7, <2>2
  <1>9. o \in Oldest
    BY <1>7, <1>8 DEF Oldest
  <1> QED
    BY <1>3, <1>8, <1>9

(* A second passes: the loop sleeps, and no row had less than two left, or   *)
(* the second was spent on the target.                                       *)
LEMMA TickStep ==
  ASSUME SteadySite, LInv, Tick
  PROVE  LInv'
  <1>1. LoopOK /\ RowsOK /\ Queued /\ Horizon \in Nat
    BY LoopAssumption DEF LInv
  <1>2. pc' = pc /\ target' = target /\ UNCHANGED origin
    BY DEF Tick
  <1>3. timer' \in {0, 1} /\ (timer = 1 => timer' = 0)
    <2>1. timer - 1 \in Int /\ 0 \in Int
      BY <1>1 DEF LoopOK
    <2>2. PICK m : m = Max({timer - 1, 0})
      OBVIOUS
    <2>3. m \in {timer - 1, 0} /\ m >= timer - 1 /\ m >= 0
      BY <2>1, <2>2, MaxOfTwo
    <2>4. timer' = m
      BY <2>2 DEF Tick
    <2> QED
      BY <1>1, <2>3, <2>4 DEF LoopOK
  <1>4. LoopOK' /\ (pc # "sleep" => Busy /\ Elapsed' = Elapsed + 1)
    BY <1>1, <1>2, <1>3 DEF Tick, Waiting, LoopOK, Busy, Elapsed, origin
  <1>5. ASSUME NEW s \in rows'
        PROVE  \E r \in rows :
                 /\ IsRow(s) /\ s.key = r.key
                 /\ Expires(s) => /\ Expires(r)
                                  /\ s.left \in {r.left - 1, -Horizon}
                                  /\ s.left >= r.left - 1 /\ s.left >= -Horizon
    <2>1. PICK r \in rows :
            s = IF Expires(r) THEN [r EXCEPT !.left = Max({@ - 1, -Horizon})] ELSE r
      BY <1>5 DEF Tick
    <2>2. IsRow(r)
      BY <1>1 DEF RowsOK
    <2>3. r.left - 1 \in Int /\ -Horizon \in Int
      BY <1>1, <2>2 DEF IsRow
    <2>4. PICK m : m = Max({r.left - 1, -Horizon})
      OBVIOUS
    <2>5. m \in {r.left - 1, -Horizon} /\ m >= r.left - 1 /\ m >= -Horizon
      BY <2>3, <2>4, MaxOfTwo
    <2>6. s = IF Expires(r) THEN [r EXCEPT !.left = m] ELSE r
      BY <2>1, <2>4
    <2>7. CASE Expires(r)
      <3>1. s = [key |-> r.key, left |-> m]
        BY <2>2, <2>6, <2>7 DEF IsRow
      <3> QED
        BY <2>3, <2>5, <2>7, <3>1 DEF IsRow
    <2>8. CASE ~Expires(r)
      BY <2>2, <2>6, <2>8
    <2> QED
      BY <2>7, <2>8
  <1>6. RowsOK'
    <2>1. ASSUME NEW s \in rows', Expires(s), pc = "sleep" PROVE s.left > timer'
      <3>1. PICK r \in rows : Expires(r) /\ s.left >= r.left - 1 /\ s.left \in Int
        BY <1>5, <2>1 DEF IsRow
      <3>2. r.left > timer /\ timer = 1 /\ timer' = 0 /\ r.left \in Int
        BY <1>1, <1>3, <2>1, <3>1 DEF RowsOK, IsRow, Tick, Waiting, LoopOK
      <3> QED
        BY <3>1, <3>2
    <2>2. ASSUME NEW s \in rows'
          PROVE  /\ IsRow(s)
                 /\ Expires(s) => s.key \in Keys /\ s.left >= -Horizon
      BY <1>1, <1>5 DEF RowsOK
    <2> QED
      BY <1>2, <2>1, <2>2 DEF RowsOK, Expires
  <1>7. Round' = Round
    BY <1>2 DEF Round, origin
  <1>8. ASSUME Horizon >= Round, NEW s \in rows', Expires(s) PROVE InTurn(s.left)'
    <2>1. PICK r \in rows :
            /\ IsRow(s) /\ s.key = r.key /\ Expires(r)
            /\ s.left \in {r.left - 1, -Horizon}
            /\ s.left >= r.left - 1 /\ s.left >= -Horizon
      BY <1>5, <1>8
    <2> DEFINE now == s.left
               left == r.left
    <2>2. now \in Int /\ left \in Int
      BY <1>1, <2>1 DEF RowsOK, IsRow
    <2>3. CASE pc = "sleep"
      <3>1. now >= 1
        BY <1>2, <1>3, <1>6, <1>8, <2>2, <2>3 DEF RowsOK, Expires
      <3> HIDE DEF now
      <3>2. InTurn(now)'
        BY <1>4, <2>2, <3>1, InTime
      <3> QED
        BY <3>2 DEF now
    <2>4. CASE pc # "sleep"
      <3>1. InTurn(left)
        BY <1>1, <1>8, <2>1 DEF Queued
      <3>2. /\ Service \in Nat /\ Elapsed \in Nat
            /\ Elapsed' = Elapsed + 1 /\ Elapsed + 1 <= Service
        <4>1. LoopOK' => Bounded'
          BY ServiceBound, PTL
        <4>2. Service' = Service
          BY <1>2 DEF Service, origin
        <4> QED
          BY <1>1, <1>4, <2>4, <4>1, <4>2, ServiceBound DEF Bounded
      <3>3. now = left - 1
        <4>1. Passed(left) \in SUBSET Keys /\ target \in Keys /\ target \notin Passed(left)
          BY <1>1, <1>4, <2>4 DEF Passed, LoopOK
        <4> HIDE DEF left
        <4>2. PICK a, b : a = Service * Cardinality(Passed(left)) /\ b = Service * Cardinality(Keys)
          OBVIOUS
        <4>3. a \in Nat /\ b \in Nat /\ a + Service <= b
          BY <3>2, <4>1, <4>2, MorePassed
        <4>4. b = Round
          BY <1>1, <4>2, RoundIsServices
        <4>5. left >= 1 - a - Elapsed
          BY <3>1, <4>2 DEF InTurn
        <4>6. left - 1 >= -Horizon
          BY <1>1, <1>8, <2>2, <3>2, <4>3, <4>4, <4>5
        <4> QED
          BY <1>1, <2>1, <2>2, <4>6 DEF left
      <3>4. ASSUME NEW k \in Passed(left), NEW x \in rows', x.key = k, Expires(x)
            PROVE  x.left > now
        <4>1. PICK y \in rows : /\ IsRow(x) /\ x.key = y.key /\ Expires(y)
                                /\ x.left >= y.left - 1
          BY <1>5, <3>4
        <4>2. y.left > left /\ y.left \in Int /\ x.left \in Int
          BY <1>1, <3>4, <4>1 DEF Passed, RowsOK, IsRow
        <4> QED
          BY <2>2, <3>3, <4>1, <4>2
      <3> HIDE DEF now, left
      <3>5. Passed(left) \subseteq Passed(now)'
        <4>1. ASSUME NEW k \in Passed(left) PROVE k \in Passed(now)'
          BY <1>2, <3>4 DEF Passed, Busy, Expires
        <4> QED
          BY <4>1
      <3>6. left - now <= Elapsed' - Elapsed
        BY <2>2, <3>2, <3>3
      <3>7. InTurn(now)'
        BY <1>1, <1>2, <1>4, <2>2, <3>1, <3>5, <3>6, StillWaits
      <3> QED
        BY <3>7 DEF now
    <2> QED
      BY <2>3, <2>4
  <1> QED
    BY <1>4, <1>6, <1>7, <1>8 DEF LInv, Queued, Expires

(* The loop takes up the first row to expire: no row that is late had it     *)
(* among the keys it has passed.  With nothing to do it sleeps, and every    *)
(* row has two seconds left.                                                 *)
LEMMA PollStep ==
  ASSUME SteadySite, LInv, updateEntry \/ NothingExpires
  PROVE  LInv'
  <1>1. LoopOK /\ RowsOK /\ Queued /\ pc = "poll" /\ ~Busy
    BY DEF LInv, updateEntry, NothingExpires, Busy
  <1>2. rows' = rows /\ UNCHANGED origin /\ Round' = Round
    BY DEF updateEntry, NothingExpires, Round, origin
  <1>3. CASE updateEntry
    <2>1. PICK o \in Oldest : target' = o.key
      BY <1>3 DEF updateEntry
    <2>2. /\ o \in rows /\ Expires(o) /\ o.key \in Keys
          /\ \A r \in rows : Expires(r) => o.left <= r.left
      <3>1. \A r \in rows : Expires(r) => r.key.method = "GET"
        BY <1>1, RefreshOfKey DEF RowsOK
      <3> QED
        BY <1>1, <2>1, <3>1 DEF Oldest, RowsOK
    <2>3. LoopOK' /\ RowsOK' /\ Elapsed' = 0 /\ Elapsed = 0
      BY <1>1, <1>2, <1>3, <2>1, <2>2
         DEF LoopOK, RowsOK, Expires, updateEntry, Send, Busy, Elapsed, origin
    <2>4. ASSUME Horizon >= Round, NEW r \in rows, Expires(r) PROVE InTurn(r.left)'
      <3> DEFINE left == r.left
      <3>1. InTurn(left) /\ left \in Int /\ o.left <= left /\ o.left \in Int
        BY <1>1, <2>2, <2>4 DEF Queued, RowsOK, IsRow
      <3> HIDE DEF left
      <3>2. o.key \notin Passed(left)
        BY <2>2, <3>1 DEF Passed
      <3>3. Passed(left) \subseteq Passed(left)'
        BY <1>2, <2>1, <3>2 DEF Passed, Expires
      <3>4. left - left <= Elapsed' - Elapsed
        BY <2>3, <3>1
      <3>5. InTurn(left)'
        BY <1>1, <1>2, <2>3, <3>1, <3>3, <3>4, StillWaits
      <3> QED
        BY <3>5 DEF left
    <2> QED
      BY <1>2, <2>3, <2>4 DEF LInv, Queued, Expires
  <1>4. CASE NothingExpires
    <2>1. ASSUME NEW r \in rows, Expires(r) PROVE r.left \in Int /\ r.left > 1
      <3>1. PICK o \in Oldest : o.left <= r.left
        BY <1>1, <2>1, FirstToExpire
      <3>2. o.left > 1
        BY <1>4 DEF NothingExpires
      <3>3. o.left \in Int /\ r.left \in Int
        BY <1>1 DEF Oldest, RowsOK, IsRow
      <3> QED
        BY <3>1, <3>2, <3>3
    <2>2. LoopOK' /\ RowsOK'
      BY <1>1, <1>2, <1>4, <2>1
         DEF LoopOK, RowsOK, Expires, NothingExpires, Sleep, Busy, origin
    <2>3. ASSUME NEW r \in rows, Expires(r) PROVE InTurn(r.left)'
      <3> DEFINE left == r.left
      <3>1. left \in Int /\ left >= 1
        BY <2>1, <2>3
      <3> HIDE DEF left
      <3>2. InTurn(left)'
        BY <2>2, <3>1, InTime
      <3> QED
        BY <3>2 DEF left
    <2> QED
      BY <1>2, <2>2, <2>3 DEF LInv, Queued, Expires
  <1> QED
    BY <1>3, <1>4

(* The steps of the loop that leave the rows alone. *)
LEMMA PauseStep ==
  ASSUME SteadySite, LInv, LoopOK', rows' = rows, UNCHANGED <<target, origin>>,
         \/ pc = "sleep" /\ pc' = "poll"
         \/ Busy /\ Busy' /\ Elapsed <= Elapsed'
  PROVE  LInv'
  <1>1. LoopOK /\ RowsOK /\ Queued /\ Round' = Round
    BY DEF LInv, Round, origin
  <1>2. RowsOK'
    BY <1>1 DEF RowsOK, Expires, Busy
  <1>3. ASSUME Horizon >= Round, NEW r \in rows, Expires(r) PROVE InTurn(r.left)'
    <2> DEFINE left == r.left
    <2>1. InTurn(left) /\ left \in Int
      BY <1>1, <1>3 DEF Queued, RowsOK, IsRow
    <2>2. CASE pc = "sleep"
      <3>1. left >= 1
        BY <1>1, <1>3, <2>1, <2>2 DEF RowsOK, LoopOK
      <3> HIDE DEF left
      <3>2. InTurn(left)'
        BY <2>1, <3>1, InTime
      <3> QED
        BY <3>2 DEF left
    <2>3. CASE Busy /\ Busy' /\ Elapsed <= Elapsed'
      <3> HIDE DEF left
      <3>1. Passed(left) \subseteq Passed(left)'
        BY <2>3 DEF Passed, Expires
      <3>2. left - left <= Elapsed' - Elapsed
        <4>1. LoopOK' => Bounded'
          BY ServiceBound, PTL
        <4> QED
          BY <1>1, <2>1, <2>3, <4>1, ServiceBound DEF Bounded
      <3>3. InTurn(left)'
        BY <1>1, <2>1, <3>1, <3>2, StillWaits
      <3> QED
        BY <3>3 DEF left
    <2> QED
      BY <2>2, <2>3
  <1> QED
    BY <1>1, <1>2, <1>3 DEF LInv, Queued, Expires

(* A fetch for the target comes back: it is stored, is tried again after a   *)
(* second, or the target is purged.                                          *)
LEMMA FetchStep ==
  ASSUME SteadySite, LInv, Refreshed \/ Retried
  PROVE  LInv'
  <1> DEFINE q == GetRequestFromKey(target)
  <1>1. LoopOK /\ RowsOK /\ Queued /\ Busy /\ target \in Keys /\ UNCHANGED <<target, origin>>
    BY DEF LInv, LoopOK, Refreshed, Retried, Busy
  <1>2. ASSUME NEW res \in Responses(q), Stored(q, res)
        PROVE  \A r \in Put(Row(q, res)) : \/ r \in rows /\ r.key # target
                                           \/ New(r) /\ r.key = target
    <2>1. Row(q, res).key = target
      BY <1>1, <1>2, RefreshStored
    <2>2. New(Row(q, res))
      BY <1>2, StoredAnswer DEF New
    <2> HIDE DEF q
    <2> QED
      BY <2>1, <2>2 DEF Put
  <1>3. CASE Refreshed
    <2>1. PICK res \in Responses(q) :
            IF Stored(q, res)
            THEN rows' = Put(Row(q, res)) /\ pc' = "poll" /\ UNCHANGED timer
            ELSE Sleep("backoff") /\ UNCHANGED rows
      BY <1>3 DEF Refreshed
    <2>2. pc = "refresh" /\ waited' = 0
      BY <1>3 DEF Refreshed
    <2>3. CASE Stored(q, res)
      <3>1. rows' = Put(Row(q, res)) /\ pc' = "poll" /\ UNCHANGED timer
        BY <2>1, <2>3
      <3>2. LoopOK'
        BY <1>1, <2>2, <3>1 DEF LoopOK, Busy, origin
      <3>3. \A r \in rows' : \/ r \in rows /\ r.key # target
                             \/ New(r) /\ r.key = target
        BY <1>2, <2>3, <3>1
      <3>4. RowsOK' /\ Queued'
        BY <1>1, <3>1, <3>2, <3>3, Served
      <3> QED
        BY <3>2, <3>4 DEF LInv
    <2>4. CASE ~Stored(q, res)
      <3>1. pc' = "backoff" /\ timer' = 1 /\ rows' = rows
        BY <2>1, <2>4 DEF Sleep
      <3>2. faulty = TRUE
        BY <1>1, <2>4, RefreshOfKey, LoopAssumption DEF LoopOK
      <3>3. LoopOK'
        <4>1. /\ faulty' \in BOOLEAN /\ faulty' \in Faults /\ faulty' = TRUE
              /\ delay' = delay /\ target' = target
          BY <1>1, <3>2, Zenon DEF LoopOK, origin
        <4>2. delay' \in Nat /\ 0 \in 0..delay'
          BY <1>1, <4>1 DEF LoopOK
        <4> QED
          BY <1>1, <2>2, <3>1, <4>1, <4>2, Zenon DEF LoopOK
      <3>4. Busy' /\ Elapsed <= Elapsed'
        BY <1>1, <2>2, <3>1 DEF Busy, Elapsed, LoopOK, origin
      <3> QED
        BY <1>1, <3>1, <3>3, <3>4, PauseStep
    <2> QED
      BY <2>3, <2>4
  <1>4. CASE Retried
    <2>1. PICK res \in Responses(q) :
            rows' = IF Stored(q, res) THEN Put(Row(q, res))
                    ELSE {r \in rows : r.key # target}
      BY <1>4 DEF Retried
    <2>2. pc' = "poll" /\ waited' = 0 /\ UNCHANGED timer
      BY <1>4 DEF Retried
    <2>3. LoopOK'
      BY <1>1, <2>2 DEF LoopOK, Busy, origin
    <2>4. \A r \in rows' : \/ r \in rows /\ r.key # target
                           \/ New(r) /\ r.key = target
      BY <1>2, <2>1
    <2>5. RowsOK' /\ Queued'
      BY <1>1, <2>2, <2>3, <2>4, Served
    <2> QED
      BY <2>3, <2>5 DEF LInv
  <1> QED
    BY <1>3, <1>4

(* Every step keeps the invariant. *)
LEMMA NextLInv ==
  ASSUME SteadySite, LInv, [Next]_loopVars
  PROVE  LInv'
  <1>1. LoopOK /\ RowsOK /\ Queued
    BY DEF LInv
  <1>2. CASE updateEntry \/ NothingExpires
    BY <1>2, PollStep
  <1>3. CASE Wake
    <2>1. LoopOK' /\ rows' = rows /\ UNCHANGED <<target, origin>>
      BY <1>1, <1>3 DEF Wake, LoopOK, Busy, origin
    <2> QED
      BY <1>3, <2>1, PauseStep DEF Wake
  <1>4. CASE Retry
    <2>1. LoopOK' /\ rows' = rows /\ UNCHANGED <<target, origin>>
      <3>1. /\ pc = "backoff" /\ pc' = "retry" /\ waited' = 0
            /\ UNCHANGED <<rows, target, timer, origin>>
        BY <1>4 DEF Retry, Send
      <3>2. /\ faulty' \in BOOLEAN /\ faulty' \in Faults /\ faulty' = TRUE
            /\ delay' = delay /\ target' = target
        BY <1>1, <3>1, Zenon DEF LoopOK, origin
      <3>3. delay' \in Nat /\ 0 \in 0..delay' /\ target' \in Keys /\ timer' \in {0, 1}
        BY <1>1, <3>1, <3>2 DEF LoopOK, Busy
      <3> QED
        BY <3>1, <3>2, <3>3, Zenon DEF LoopOK
    <2>2. Busy /\ Busy' /\ Elapsed <= Elapsed'
      BY <1>1, <1>4 DEF Retry, Send, Busy, Elapsed, LoopOK, origin
    <2> QED
      BY <2>1, <2>2, PauseStep
  <1>5. CASE Refreshed \/ Retried
    BY <1>5, FetchStep
  <1>6. ASSUME NEW q \in Pages, Store(q) PROVE LInv'
    <2>1. PICK res \in Responses(q) : Stored(q, res) /\ rows' = Put(Row(q, res))
      BY <1>6 DEF Store
    <2>2. New(Row(q, res)) /\ (Expires(Row(q, res)) => Row(q, res).key \in Keys)
      BY <2>1, StoredAnswer, PageStored DEF New
    <2>3. \A r \in rows' : \/ r \in rows
                           \/ New(r) /\ (Expires(r) => r.key \in Keys)
      BY <2>1, <2>2 DEF Put
    <2>4. UNCHANGED <<pc, target, timer, waited, origin>>
      BY <1>6 DEF Store
    <2> QED
      BY <2>3, <2>4, StoredForClient
  <1>7. CASE Tick
    BY <1>7, TickStep
  <1>8. CASE UNCHANGED loopVars
    BY <1>8, StoredForClient DEF loopVars
  <1> QED
    BY <1>2, <1>3, <1>4, <1>5, <1>6, <1>7, <1>8 DEF Next, UpdaterStep

(* The bound of RefreshedInTime: the keys a row has passed and the target    *)
(* are different keys of the site.                                           *)
LEMMA WithinOneRound ==
  ASSUME SteadySite, LInv
  PROVE  RefreshedInTime
  <1>1. LoopOK /\ RowsOK /\ Queued
    BY DEF LInv
  <1>2. Round = Service * Cardinality(Keys) /\ Round \in Nat /\ Horizon \in Nat
    BY <1>1, RoundIsServices, LoopAssumption
  <1>3. SUFFICES ASSUME NEW r \in rows, Expires(r) PROVE r.left >= 1 - Round
    BY DEF RefreshedInTime
  <1> DEFINE left == r.left
  <1>4. left \in Int /\ left >= -Horizon
    BY <1>1, <1>3 DEF RowsOK, IsRow
  <1>5. CASE Horizon < Round
    BY <1>2, <1>4, <1>5
  <1>6. CASE Horizon >= Round
    <2>1. InTurn(left)
      BY <1>1, <1>3, <1>6 DEF Queued
    <2> HIDE DEF left
    <2>2. PICK a : a = Service * Cardinality(Passed(left))
      OBVIOUS
    <2>3. Passed(left) \in SUBSET Keys /\ Keys \in SUBSET Keys
      BY DEF Passed
    <2>4. /\ Service \in Nat /\ Elapsed \in Nat /\ Elapsed <= Service
          /\ ~Busy => Elapsed = 0
      BY <1>1, ServiceBound DEF Bounded
    <2>5. /\ a \in Nat /\ a <= Round
          /\ (\E k \in Keys : k \notin Passed(left)) => a + Service <= Round
      BY <1>2, <2>2, <2>3, <2>4, MorePassed
    <2>6. Busy => target \in Keys /\ target \notin Passed(left)
      BY <1>1 DEF LoopOK, Passed
    <2>7. a + Elapsed <= Round
      BY <1>2, <2>4, <2>5, <2>6
    <2>8. left >= 1 - a - Elapsed
      BY <2>1, <2>2 DEF InTurn
    <2>9. left >= 1 - Round
      BY <1>2, <1>4, <2>4, <2>5, <2>7, <2>8
    <2> QED
      BY <2>9 DEF left
  <1> QED
    BY <1>2, <1>5, <1>6

(******************************** The theorem ******************************)

(* On a steady site one loop is enough: for any number of pages and variants,*)
(* any delay of the origin, with or without failures, no row outlives its    *)
(* expiry by more than one round through the keys, and with an origin that   *)
(* answers at once and does not fail none reaches its expiry (updateCache,   *)
(* updateEntry, Oldest).                                                     *)
THEOREM OneLoopSuffices == SteadySite => (Spec => []RefreshedInTime)
  <1> SUFFICES ASSUME SteadySite PROVE Spec => []RefreshedInTime
    OBVIOUS
  <1>1. Init => LInv
    <2> SUFFICES ASSUME Init PROVE LInv
      OBVIOUS
    <2> QED
      BY LoopAssumption DEF Init, LInv, LoopOK, RowsOK, Queued, Busy
  <1>2. LInv /\ [Next]_loopVars => LInv'
    BY NextLInv
  <1>3. LInv => RefreshedInTime
    BY WithinOneRound
  <1> QED
    BY <1>1, <1>2, <1>3, PTL DEF Spec

(* "Before a cached response becomes stale, the cache is updated with a new  *)
(* response": what the repository's README says is true of a steady site     *)
(* whose origin answers at once and does not fail.                           *)
THEOREM UpdatedBeforeStale ==
  ASSUME SteadySite, Delays = {0}, Faults = {FALSE}
  PROVE  Spec => [](\A r \in rows : Expires(r) => r.left >= 1)
  <1> DEFINE AtOnce == delay = 0 /\ faulty = FALSE
             InTimeAll == \A r \in rows : Expires(r) => r.left >= 1
  <1>1. Init => AtOnce
    BY DEF Init
  <1>2. AtOnce /\ [Next]_loopVars => AtOnce'
    <2> SUFFICES ASSUME AtOnce, [Next]_loopVars PROVE AtOnce'
      OBVIOUS
    <2>1. UNCHANGED origin
      BY DEF Next, UpdaterStep, updateEntry, NothingExpires, Wake, Refreshed, Retry,
             Retried, Store, Tick, loopVars
    <2> QED
      BY <2>1, Zenon DEF origin
  <1>3. AtOnce /\ RefreshedInTime => InTimeAll
    <2> SUFFICES ASSUME AtOnce, RefreshedInTime PROVE InTimeAll
      OBVIOUS
    <2>1. Cardinality(Keys) \in Nat
      BY FiniteKeys, FS_CardinalityType
    <2>2. Round = Cardinality(Keys) * 0
      BY DEF Round
    <2>3. Round = 0
      BY <2>1, <2>2
    <2> QED
      BY <2>3 DEF RefreshedInTime
  <1>4. Spec => []RefreshedInTime
    BY OneLoopSuffices
  <1> QED
    BY <1>1, <1>2, <1>3, <1>4, PTL DEF Spec

=============================================================================
