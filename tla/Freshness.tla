----------------------------- MODULE Freshness -----------------------------
(***************************************************************************)
(* RFC 9111 section 4.2 as rfc9111/4.2.*.go implements it: the freshness   *)
(* lifetime and the current age of a stored response, computed on Go's     *)
(* time.Time and on 64-bit time.Duration values.                           *)
(*                                                                         *)
(* Time is counted in ticks; a second has Second ticks.  MaxDuration is    *)
(* the largest duration (2^63 - 1 ns in Go) and ZeroTime is time.Time{},   *)
(* so long ago that the difference to it does not fit a duration.          *)
(*                                                                         *)
(* A response carries, besides its header: its Date (clock), its Age field *)
(* (age, Absent or delta-seconds) and, for the properties only, the time   *)
(* it was generated at (at).                                               *)
(***************************************************************************)
EXTENDS HttpMessages

CONSTANTS Second, MaxDuration, ZeroTime

ASSUME TimeAssumption ==
  /\ Second \in Nat \ {0}
  /\ MaxDuration \in Nat
  /\ ZeroTime \in Int /\ ZeroTime < -MaxDuration

(* Arithmetic on time.Duration wraps around; time.Time.Sub saturates. *)
Wrap(x) ==
  ((x + MaxDuration + 1) % (2 * (MaxDuration + 1))) - (MaxDuration + 1)

Sub(t, u) ==
  IF t - u > MaxDuration THEN MaxDuration
  ELSE IF t - u < -(MaxDuration + 1) THEN -(MaxDuration + 1)
  ELSE t - u

durationMax(d1, d2) == IF d1 > d2 THEN d1 ELSE d2

(* Timestamps are kept in the database, and sent in Date, in whole seconds. *)
Unix(t) == t - (t % Second)

deltaSeconds(n) == Wrap(Second * n)

(*************************** Freshness lifetime ***************************)

getExpires(res) == res.clock + Second * res.hdr.after

(* s-maxage, else max-age, else Expires - Date (or Expires - now without a   *)
(* Date), else no lifetime at all.  An Expires that does not parse counts as *)
(* none.                                                                     *)
freshness_lifetime(res, t) ==
  LET cc == res.hdr.cc
      expires == getExpires(res)
  IN IF HasSeconds(cc, "s-maxage") THEN deltaSeconds(cc["s-maxage"])
     ELSE IF HasSeconds(cc, "max-age") THEN deltaSeconds(cc["max-age"])
     ELSE IF res.hdr.expires = "date"
       THEN IF res.hdr.dated THEN Sub(expires, res.clock) ELSE Sub(expires, t)
     ELSE 0

(* When the updater has to look at a response: never if it has no lifetime. *)
GetExpiration(res, t) ==
  LET ttl == freshness_lifetime(res, t)
  IN IF ttl # 0 THEN t + ttl ELSE ZeroTime

(********************************** Age ***********************************)

getAge(res) == deltaSeconds(res.age)

age_value(res) == IF res.age = Absent THEN 0 ELSE getAge(res)

date_value(res) == IF res.hdr.dated THEN res.clock ELSE ZeroTime

apparent_age(res, responseTime) ==
  durationMax(0, Sub(responseTime, date_value(res)))

(* Mutant: the time the exchange took does not count. *)
NoResponseDelay(responseTime, requestTime) == 0

response_delay(responseTime, requestTime) == Sub(responseTime, requestTime)

corrected_age_value(res, responseTime, requestTime) ==
  Wrap(age_value(res) + response_delay(responseTime, requestTime))

corrected_initial_age(res, responseTime, requestTime) ==
  durationMax(apparent_age(res, responseTime),
              corrected_age_value(res, responseTime, requestTime))

resident_time(responseTime, t) == Sub(t, responseTime)

current_age(res, responseTime, requestTime, t) ==
  Wrap(corrected_initial_age(res, responseTime, requestTime)
       + resident_time(responseTime, t))

(* Mutant: a response is fresh up to and including its last moment. *)
FreshAtExpiry(res, responseTime, requestTime, t) ==
  freshness_lifetime(res, t) >= current_age(res, responseTime, requestTime, t)

isFresh(res, responseTime, requestTime, t) ==
  freshness_lifetime(res, t) > current_age(res, responseTime, requestTime, t)

(* fmt's %.f of a duration in seconds: to the nearest, a half to the even one. *)
toDeltaSeconds(d) ==
  LET whole == d \div Second
      rest == 2 * (d % Second)
  IN IF rest > Second \/ (rest = Second /\ whole % 2 = 1) THEN whole + 1 ELSE whole

(**************************** What is promised ****************************)

(* How long the origin said the response may be used, and how old the       *)
(* response really is: since it was generated, plus the age upstream caches *)
(* declared.  No clock of the cache or of the origin enters either.         *)
StatedLifetime(res) ==
  LET cc == res.hdr.cc
  IN Second * (IF HasSeconds(cc, "s-maxage") THEN cc["s-maxage"]
               ELSE IF HasSeconds(cc, "max-age") THEN cc["max-age"]
               ELSE IF res.hdr.expires = "date" THEN res.hdr.after
               ELSE 0)

TrueAge(res, t) ==
  (t - res.at) + Second * (IF res.age = Absent THEN 0 ELSE res.age)
=============================================================================
