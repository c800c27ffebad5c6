---------------------------- MODULE RuleProofs ----------------------------
(***************************************************************************)
(* What the pure operators guarantee: the arithmetic of section 4.2,       *)
(* whatever the length of a second and the range of a duration, and the    *)
(* way of a request into its key and back, on which every field that the   *)
(* response varies on survives as far as http.Header.Get can tell, for any *)
(* list in Vary, with names that repeat or that the request lacks.         *)
(***************************************************************************)
EXTENDS Freshness, CacheKey, FiniteSetTheorems, TLAPS

(**************************** Freshness and age ****************************)

(* A duration that is in range is not changed by wrapping. *)
LEMMA WrapInRange ==
  ASSUME NEW x \in Int, -(MaxDuration + 1) <= x, x <= MaxDuration
  PROVE  Wrap(x) = x
  BY TimeAssumption DEF Wrap

(* Wrapping around never makes a natural number larger: an argument that is  *)
(* too large for a duration can only shorten a lifetime.                     *)
LEMMA WrapOnlyLowers ==
  ASSUME NEW x \in Nat
  PROVE  Wrap(x) \in Int /\ Wrap(x) <= x
  BY TimeAssumption DEF Wrap

(* Truncation to whole seconds never moves a time forward, nor past zero. *)
LEMMA UnixFloor ==
  ASSUME NEW t \in Int
  PROVE  /\ Unix(t) \in Int /\ Unix(t) <= t /\ t < Unix(t) + Second
         /\ t >= 0 => Unix(t) >= 0
  <1>1. t % Second \in 0..(Second - 1)
    BY TimeAssumption
  <1>2. /\ Unix(t) \in Int /\ Unix(t) <= t /\ t < Unix(t) + Second
    BY <1>1, TimeAssumption DEF Unix
  <1>3. ASSUME t >= 0 PROVE t % Second <= t
    BY <1>3, TimeAssumption
  <1> QED
    BY <1>1, <1>2, <1>3, TimeAssumption DEF Unix

(* The lifetime the code computes for a dated response exceeds the one the   *)
(* origin stated only when neither is positive.                              *)
LEMMA LifetimeAtMostStated ==
  ASSUME NEW res, NEW t \in Int,
         res.hdr \in Header, res.clock \in Int, res.hdr.dated
  PROVE  /\ freshness_lifetime(res, t) \in Int
         /\ StatedLifetime(res) \in Int
         /\ \/ freshness_lifetime(res, t) <= StatedLifetime(res)
            \/ freshness_lifetime(res, t) <= 0
  <1> DEFINE cc == res.hdr.cc
  <1>1. /\ cc["s-maxage"] \in Int /\ cc["max-age"] \in Int
        /\ res.hdr.after \in Int
    BY DEF Header, CacheControl, Directives, Absent, NoArg
  <1>2. \A n \in Int : n >= 0 => /\ Second * n \in Nat
                                 /\ deltaSeconds(n) \in Int
                                 /\ deltaSeconds(n) <= Second * n
    <2>1. SUFFICES ASSUME NEW n \in Int, n >= 0
                   PROVE  /\ Second * n \in Nat
                          /\ deltaSeconds(n) \in Int /\ deltaSeconds(n) <= Second * n
      OBVIOUS
    <2>2. Second * n \in Nat
      BY <2>1, TimeAssumption
    <2> QED
      BY <2>2, WrapOnlyLowers DEF deltaSeconds
  <1>3. CASE HasSeconds(cc, "s-maxage")
    BY <1>1, <1>2, <1>3 DEF HasSeconds, freshness_lifetime, StatedLifetime
  <1>4. CASE ~HasSeconds(cc, "s-maxage") /\ HasSeconds(cc, "max-age")
    BY <1>1, <1>2, <1>4 DEF HasSeconds, freshness_lifetime, StatedLifetime
  <1>5. CASE /\ ~HasSeconds(cc, "s-maxage") /\ ~HasSeconds(cc, "max-age")
             /\ res.hdr.expires = "date"
    <2>1. Second * res.hdr.after \in Int
      BY <1>1, TimeAssumption
    <2>2. freshness_lifetime(res, t)
            = Sub(res.clock + Second * res.hdr.after, res.clock)
      BY <1>5 DEF freshness_lifetime, getExpires
    <2>3. StatedLifetime(res) = Second * res.hdr.after
      BY <1>5 DEF StatedLifetime
    <2> QED
      BY <2>1, <2>2, <2>3, TimeAssumption DEF Sub
  <1>6. CASE /\ ~HasSeconds(cc, "s-maxage") /\ ~HasSeconds(cc, "max-age")
             /\ res.hdr.expires # "date"
    BY <1>6, TimeAssumption DEF freshness_lifetime, StatedLifetime
  <1> QED
    BY <1>3, <1>4, <1>5, <1>6

(* Within the range of a duration, the age the code computes from the three  *)
(* timestamps of a row is never negative and never less than the true age of *)
(* the response, provided the request was sent before the response was       *)
(* generated.                                                                *)
LEMMA AgeNotUnderestimated ==
  ASSUME NEW res, NEW requestTime \in Nat, NEW responseTime \in Nat,
         NEW t \in Nat, NEW max \in Nat,
         res.clock \in Int, res.at \in Int, res.age \in {Absent} \cup Nat,
         res.hdr.dated,
         requestTime <= res.at, requestTime <= max,
         responseTime <= t, t <= max,
         max - res.clock <= MaxDuration,
         max <= MaxDuration,
         Second * res.age + max <= MaxDuration
  PROVE  /\ TrueAge(res, t) \in Int
         /\ current_age(res, responseTime, requestTime, t) \in Int
         /\ current_age(res, responseTime, requestTime, t) >= 0
         /\ current_age(res, responseTime, requestTime, t) >= TrueAge(res, t)
  <1> DEFINE age == IF res.age = Absent THEN 0 ELSE Second * res.age
             delay == responseTime - requestTime
             corrected == corrected_initial_age(res, responseTime, requestTime)
  <1>1. age \in Nat /\ age + max <= MaxDuration
    <2>1. CASE res.age = Absent
      BY <2>1
    <2>2. CASE res.age # Absent
      <3>1. res.age \in Nat
        BY <2>2
      <3>2. Second * res.age \in Nat
        BY <3>1, TimeAssumption
      <3> QED
        BY <2>2, <3>2
    <2> QED
      BY <2>1, <2>2
  <1>2. age_value(res) = age
    <2>1. age \in Int /\ -(MaxDuration + 1) <= age /\ age <= MaxDuration
      BY <1>1, TimeAssumption
    <2>2. Wrap(age) = age
      BY <2>1, WrapInRange
    <2> QED
      BY <2>2 DEF age_value, getAge, deltaSeconds
  <1>3. response_delay(responseTime, requestTime) = delay
    BY TimeAssumption DEF response_delay, Sub
  <1>4. corrected_age_value(res, responseTime, requestTime) = age + delay
    <2>1. age + delay \in Int /\ -(MaxDuration + 1) <= age + delay
          /\ age + delay <= MaxDuration
      BY <1>1, TimeAssumption
    <2> HIDE DEF age, delay
    <2> QED
      BY <1>2, <1>3, <2>1, WrapInRange DEF corrected_age_value
  <1>5. /\ apparent_age(res, responseTime) \in Nat
        /\ apparent_age(res, responseTime) + (t - responseTime) <= MaxDuration
    BY TimeAssumption DEF apparent_age, date_value, durationMax, Sub
  <1>6. /\ corrected \in Nat /\ corrected >= age + delay
        /\ corrected + (t - responseTime) <= MaxDuration
    <2> HIDE DEF age
    <2> QED
      BY <1>1, <1>4, <1>5, TimeAssumption DEF corrected_initial_age, durationMax
  <1>7. resident_time(responseTime, t) = t - responseTime
    BY TimeAssumption DEF resident_time, Sub
  <1>8. current_age(res, responseTime, requestTime, t) = corrected + (t - responseTime)
    <2>1. /\ corrected + (t - responseTime) \in Int
          /\ -(MaxDuration + 1) <= corrected + (t - responseTime)
          /\ corrected + (t - responseTime) <= MaxDuration
      BY <1>6, TimeAssumption
    <2> QED
      BY <1>7, <2>1, WrapInRange DEF current_age
  <1>9. TrueAge(res, t) = (t - res.at) + age
    BY TimeAssumption DEF TrueAge
  <1> HIDE DEF corrected, age
  <1> QED
    BY <1>1, <1>6, <1>8, <1>9

(* Rounding to the nearest second takes off half a second at most. *)
LEMMA RoundedToSeconds ==
  ASSUME NEW d \in Nat
  PROVE  2 * d <= Second * (2 * toDeltaSeconds(d) + 1)
  <1> DEFINE whole == d \div Second
             rest == d % Second
  <1>1. whole \in Nat /\ rest \in 0..(Second - 1) /\ d = Second * whole + rest
    BY TimeAssumption
  <1>2. toDeltaSeconds(d) \in {whole, whole + 1} /\ (2 * rest > Second => toDeltaSeconds(d) = whole + 1)
    BY DEF toDeltaSeconds
  <1> HIDE DEF whole, rest
  <1>3. /\ Second * (2 * whole + 1) = 2 * (Second * whole) + Second
        /\ Second * (2 * (whole + 1) + 1) = 2 * (Second * whole) + 3 * Second
    BY <1>1, TimeAssumption
  <1>4. Second * whole \in Nat
    BY <1>1, TimeAssumption
  <1>5. CASE toDeltaSeconds(d) = whole
    BY <1>1, <1>2, <1>3, <1>4, <1>5, TimeAssumption
  <1>6. CASE toDeltaSeconds(d) = whole + 1
    BY <1>1, <1>3, <1>4, <1>6, TimeAssumption
  <1> QED
    BY <1>2, <1>5, <1>6

(* A dated response that the code takes for fresh is younger than the        *)
(* lifetime the origin stated (isFresh).                                     *)
THEOREM FreshIsYoung ==
  ASSUME NEW res, NEW requestTime \in Nat, NEW responseTime \in Nat,
         NEW t \in Nat, NEW max \in Nat,
         res.hdr \in Header, res.hdr.dated,
         res.clock \in Int, res.at \in Int, res.age \in {Absent} \cup Nat,
         requestTime <= res.at, requestTime <= max,
         responseTime <= t, t <= max,
         max - res.clock <= MaxDuration,
         max <= MaxDuration,
         Second * res.age + max <= MaxDuration,
         isFresh(res, responseTime, requestTime, t)
  PROVE  TrueAge(res, t) < StatedLifetime(res)
  <1>1. /\ TrueAge(res, t) \in Int
        /\ current_age(res, responseTime, requestTime, t) \in Int
        /\ current_age(res, responseTime, requestTime, t) >= 0
        /\ current_age(res, responseTime, requestTime, t) >= TrueAge(res, t)
    BY AgeNotUnderestimated
  <1>2. /\ freshness_lifetime(res, t) \in Int
        /\ StatedLifetime(res) \in Int
        /\ \/ freshness_lifetime(res, t) <= StatedLifetime(res)
           \/ freshness_lifetime(res, t) <= 0
    BY LifetimeAtMostStated
  <1> QED
    BY <1>1, <1>2 DEF isFresh

(********************************** Keys **********************************)

(* No positions, no elements. *)
LEMMA AtNothing == \A s : At(s, {}) = <<>>
  BY FS_EmptySet DEF At

(* Counting from the smallest numbers the elements of a set of positions: *)
(* each gets a number of its own, and no number is left over.             *)
LEMMA Ranks ==
  ASSUME NEW n \in Nat, NEW I \in SUBSET (1..n)
  PROVE  /\ Cardinality(I) \in Nat
         /\ \A k \in 1..Cardinality(I) : Nth(I, k) \in I
         /\ \A i \in I : \E k \in 1..Cardinality(I) : Nth(I, k) = i
  <1> DEFINE upTo(i) == {j \in I : j <= i}
             rank == [i \in I |-> Cardinality(upTo(i))]
             C == Cardinality(I)
  <1>1. IsFiniteSet(I) /\ C \in Nat
    <2>1. IsFiniteSet(1..n)
      BY FS_Interval
    <2>2. IsFiniteSet(I)
      BY <2>1, FS_Subset
    <2> QED
      BY <2>2, FS_CardinalityType
  <1>2. ASSUME NEW i \in I PROVE IsFiniteSet(upTo(i)) /\ Cardinality(upTo(i)) \in 1..C
    <2>1. upTo(i) \in SUBSET I /\ i \in upTo(i)
      OBVIOUS
    <2>2. IsFiniteSet(upTo(i)) /\ Cardinality(upTo(i)) <= C
      BY <1>1, <2>1, FS_Subset
    <2>3. Cardinality(upTo(i)) \in Nat /\ Cardinality(upTo(i)) # 0
      BY <2>1, <2>2, FS_CardinalityType, FS_EmptySet
    <2> QED
      BY <1>1, <2>2, <2>3
  <1>3. ASSUME NEW i \in I, NEW j \in I, i < j
        PROVE  Cardinality(upTo(i)) # Cardinality(upTo(j))
    <2>1. I \subseteq Int
      OBVIOUS
    <2>2. upTo(i) \in SUBSET upTo(j)
      <3>1. \A k \in I : k <= i => k <= j
        BY <1>3, <2>1
      <3> QED
        BY <3>1
    <2>3. j \in upTo(j) /\ j \notin upTo(i)
      BY <1>3, <2>1
    <2> QED
      BY <1>2, <2>2, <2>3, FS_Subset
  <1>4. rank \in Injection(I, 1..C)
    <2>1. rank \in [I -> 1..C]
      BY <1>2
    <2>2. \A i, j \in I : rank[i] = rank[j] => i = j
      <3>1. SUFFICES ASSUME NEW i \in I, NEW j \in I, i # j PROVE rank[i] # rank[j]
        OBVIOUS
      <3>2. i < j \/ j < i
        BY <3>1
      <3> QED
        BY <1>3, <3>2
    <2> HIDE DEF rank
    <2> QED
      BY <2>1, <2>2 DEF Injection, IsInjective
  <1>5. rank \in Surjection(I, 1..C)
    <2>1. IsFiniteSet(1..C) /\ Cardinality(1..C) = C
      BY <1>1, FS_Interval
    <2> HIDE DEF rank, C
    <2>2. /\ Cardinality(I) <= Cardinality(1..C)
          /\ Cardinality(I) = Cardinality(1..C) <=> rank \in Surjection(I, 1..C)
      BY <1>4, <2>1, FS_Injection
    <2> QED
      BY <2>1, <2>2 DEF C
  <1>6. ASSUME NEW k \in 1..C PROVE Nth(I, k) \in I /\ rank[Nth(I, k)] = k
    <2>1. \E i \in I : rank[i] = k
      BY <1>5 DEF Surjection
    <2> QED
      BY <2>1 DEF Nth
  <1>7. ASSUME NEW i \in I PROVE rank[i] \in 1..C /\ Nth(I, rank[i]) = i
    <2>1. rank[i] \in 1..C
      BY <1>2
    <2>2. Nth(I, rank[i]) \in I /\ rank[Nth(I, rank[i])] = rank[i]
      BY <1>6, <2>1
    <2> HIDE DEF rank
    <2> QED
      BY <1>4, <2>1, <2>2 DEF Injection, IsInjective
  <1> HIDE DEF rank
  <1> QED
    BY <1>1, <1>6, <1>7

(* The request that GetRequestFromKey rebuilds agrees with the original one   *)
(* on every field named in Vary: on whether it is there and on what           *)
(* http.Header.Get returns for it (AddVaryKeys, GetVaryHeaders).              *)
THEOREM VaryRoundTrip ==
  ASSUME NEW q, NEW hdr, hdr.vary \in Seq(Field \cup {"*"}),
         NEW i \in DOMAIN hdr.vary
  PROVE  LET name == hdr.vary[i]
             rebuilt == GetRequestFromKey(AddVaryKeys(GetKeyPrefix(q), q, hdr))
         IN /\ FieldAbsent(rebuilt.header, name) <=> FieldAbsent(q.header, name)
            /\ Get(rebuilt.header, name) = Get(q.header, name)
  <1> DEFINE name == hdr.vary[i]
             present == Present(q, hdr.vary)
             names == At(hdr.vary, present)
             vary == [k \in DOMAIN names |-> <<names[k], Get(q.header, names[k])>>]
             key == AddVaryKeys(GetKeyPrefix(q), q, hdr)
             same == {k \in DOMAIN vary : vary[k][1] = name}
             fields == GetVaryHeaders(key)
             C == Cardinality(present)
  <1>1. key.vary = vary
    BY DEF AddVaryKeys, GetKeyPrefix
  <1>2. /\ C \in Nat /\ DOMAIN vary = 1..C
        /\ \A k \in 1..C : /\ vary[k][1] = hdr.vary[Nth(present, k)]
                           /\ vary[k][2] = Get(q.header, vary[k][1])
                           /\ Nth(present, k) \in present
        /\ \A j \in present : \E k \in 1..C : vary[k][1] = hdr.vary[j]
    <2>1. Len(hdr.vary) \in Nat /\ present \in SUBSET (1..Len(hdr.vary))
      BY DEF Present
    <2>2. /\ C \in Nat
          /\ \A k \in 1..C : Nth(present, k) \in present
          /\ \A j \in present : \E k \in 1..C : Nth(present, k) = j
      BY <2>1, Ranks
    <2>3. DOMAIN names = 1..C /\ \A k \in 1..C : names[k] = hdr.vary[Nth(present, k)]
      BY DEF At
    <2> HIDE DEF names, present
    <2> QED
      BY <2>2, <2>3
  <1> HIDE DEF vary, key
  <1>3. /\ DOMAIN fields = {vary[k][1] : k \in 1..C}
        /\ name \in DOMAIN fields
             => fields[name] = [k \in DOMAIN At(vary, same) |-> At(vary, same)[k][2]]
    BY <1>1, <1>2 DEF GetVaryHeaders
  <1>4. ASSUME FieldAbsent(q.header, name) PROVE name \notin DOMAIN fields
    <2>1. \A k \in 1..C : ~FieldAbsent(q.header, vary[k][1])
      BY <1>2 DEF Present
    <2> QED
      BY <1>3, <1>4, <2>1
  <1>5. ASSUME ~FieldAbsent(q.header, name)
        PROVE  /\ name \in DOMAIN fields /\ fields[name] # <<>>
               /\ fields[name][1] = Get(q.header, name)
    <2>1. i \in present
      BY <1>5 DEF Present
    <2>2. PICK k \in 1..C : vary[k][1] = name
      BY <1>2, <2>1
    <2>3. same \in SUBSET (1..C) /\ same # {}
      BY <1>2, <2>2
    <2>4. /\ Cardinality(same) \in Nat
          /\ \A l \in 1..Cardinality(same) : Nth(same, l) \in same
          /\ \A l \in same : \E m \in 1..Cardinality(same) : Nth(same, m) = l
      BY <1>2, <2>3, Ranks
    <2>5. 1 \in 1..Cardinality(same)
      BY <2>3, <2>4
    <2>6. /\ DOMAIN At(vary, same) = 1..Cardinality(same)
          /\ At(vary, same)[1] = vary[Nth(same, 1)]
      BY <2>5 DEF At
    <2>7. At(vary, same)[1][2] = Get(q.header, name)
      BY <1>2, <2>4, <2>5, <2>6
    <2>8. name \in DOMAIN fields
      BY <1>3, <2>2
    <2> HIDE DEF same, fields
    <2>9. fields[name][1] = Get(q.header, name) /\ DOMAIN fields[name] = 1..Cardinality(same)
      BY <1>3, <2>5, <2>6, <2>7, <2>8
    <2>10. fields[name] # <<>>
      <3>1. 1 \in DOMAIN fields[name]
        BY <2>5, <2>9
      <3>2. 1 \notin DOMAIN << >>
        OBVIOUS
      <3> QED
        BY <3>1, <3>2
    <2> QED
      BY <2>8, <2>9, <2>10
  <1>6. GetRequestFromKey(key).header = fields
    BY DEF GetRequestFromKey
  <1> HIDE DEF fields
  <1>7. /\ FieldAbsent(fields, name) <=> FieldAbsent(q.header, name)
        /\ Get(fields, name) = Get(q.header, name)
    BY <1>4, <1>5 DEF FieldAbsent, Get
  <1> QED
    BY <1>6, <1>7 DEF key

(* The answer to a rebuilt request goes under the key it was rebuilt from, if *)
(* it varies on the same fields and the original request had no Cache-Key,    *)
(* which GetRequestFromKey does not restore.                                  *)
LEMMA KeyRoundTrip ==
  ASSUME NEW q, NEW hdr, NEW other, hdr.vary \in Seq(Field \cup {"*"}),
         other.vary = hdr.vary, q.ckey = <<>>
  PROVE  LET key == AddVaryKeys(GetKeyPrefix(q), q, hdr)
             rebuilt == GetRequestFromKey(key)
         IN AddVaryKeys(GetKeyPrefix(rebuilt), rebuilt, other) = key
  <1> DEFINE key == AddVaryKeys(GetKeyPrefix(q), q, hdr)
             rebuilt == GetRequestFromKey(key)
             names == At(hdr.vary, Present(q, hdr.vary))
  <1>1. \A i \in DOMAIN hdr.vary :
          /\ FieldAbsent(rebuilt.header, hdr.vary[i]) <=> FieldAbsent(q.header, hdr.vary[i])
          /\ Get(rebuilt.header, hdr.vary[i]) = Get(q.header, hdr.vary[i])
    BY VaryRoundTrip
  <1>2. rebuilt.method = q.method /\ rebuilt.uri = q.uri /\ rebuilt.ckey = <<>>
    BY DEF GetRequestFromKey, AddVaryKeys, GetKeyPrefix
  <1>3. GetKeyPrefix(rebuilt) = GetKeyPrefix(q)
    BY <1>2 DEF GetKeyPrefix
  <1> HIDE DEF rebuilt
  <1>4. Present(rebuilt, other.vary) = Present(q, hdr.vary)
    BY <1>1 DEF Present
  <1>5. \A k \in DOMAIN names : Get(rebuilt.header, names[k]) = Get(q.header, names[k])
    <2>1. Len(hdr.vary) \in Nat /\ Present(q, hdr.vary) \in SUBSET (1..Len(hdr.vary))
      BY DEF Present
    <2>2. \A k \in 1..Cardinality(Present(q, hdr.vary)) :
            Nth(Present(q, hdr.vary), k) \in Present(q, hdr.vary)
      BY <2>1, Ranks
    <2>3. \A k \in DOMAIN names : \E i \in DOMAIN hdr.vary : names[k] = hdr.vary[i]
      BY <2>1, <2>2 DEF At
    <2> QED
      BY <1>1, <2>3
  <1>6. At(other.vary, Present(rebuilt, other.vary)) = names
    BY <1>4
  <1> HIDE DEF names
  <1>7. [i \in DOMAIN names |-> <<names[i], Get(rebuilt.header, names[i])>>]
          = [i \in DOMAIN names |-> <<names[i], Get(q.header, names[i])>>]
    BY <1>5
  <1>8. AddVaryKeys(GetKeyPrefix(rebuilt), rebuilt, other)
          = [GetKeyPrefix(q) EXCEPT !.vary =
               [i \in DOMAIN names |-> <<names[i], Get(rebuilt.header, names[i])>>]]
    BY <1>3, <1>6 DEF AddVaryKeys
  <1>9. key = [GetKeyPrefix(q) EXCEPT !.vary =
                 [i \in DOMAIN names |-> <<names[i], Get(q.header, names[i])>>]]
    BY DEF AddVaryKeys, names
  <1> QED
    BY <1>7, <1>8, <1>9 DEF rebuilt
=============================================================================
