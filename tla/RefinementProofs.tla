------------------------- MODULE RefinementProofs -------------------------
(***************************************************************************)
(* The cache implements HttpCache: with an origin whose 304 answers mean   *)
(* something, every step of AlwaysCache is a step of the abstract cache,   *)
(* seen through the mapping of AlwaysCache!Abstract, or changes nothing    *)
(* that clients see.                                                       *)
(***************************************************************************)
EXTENDS ClientProofs

(* The mapping, client by client. *)
Stage(p) ==
  IF pc[p] = "idle" THEN "idle" ELSE IF Replied(p) THEN "answered" ELSE "waiting"
Asked(p) ==
  IF pc[p] = "idle" THEN None
  ELSE [method |-> req[p].method, uri |-> req[p].uri, since |-> since[p]]
Given(p) ==
  IF Replied(p) THEN [orig |-> reply[p].orig, res |-> reply[p].res, age |-> reply[p].age]
  ELSE None

stage == [p \in Handlers |-> Stage(p)]
asked == [p \in Handlers |-> Asked(p)]
answer == [p \in Handlers |-> Given(p)]

(* Nothing that the client of p sees has changed. *)
Unseen(p) == Stage(p)' = Stage(p) /\ Asked(p)' = Asked(p) /\ Given(p)' = Given(p)

(* A handler that does nothing is not noticed by its client. *)
LEMMA StillIsUnseen ==
  ASSUME NEW p, Still(p)
  PROVE  Unseen(p)
  BY DEF Still, Unseen, Stage, Asked, Given, Replied

(* Only the client of p notices. *)
Alone(p) == UNCHANGED <<now, version>> /\ \A x \in Handlers \ {p} : Unseen(x)

(* What no client notices is a stuttering step of the abstract cache. *)
LEMMA StutterMaps ==
  ASSUME \A p \in Handlers : Unseen(p), UNCHANGED <<now, version>>
  PROVE  UNCHANGED Abstract!abstractVars
  <1>1. UNCHANGED <<stage, asked, answer>>
    BY DEF Unseen, stage, asked, answer
  <1> QED
    BY <1>1 DEF Abstract!abstractVars, stage, asked, answer, Stage, Asked, Given

(* A client asks. *)
LEMMA AskMaps ==
  ASSUME NEW p \in Handlers, Alone(p), Stage(p) = "idle", Stage(p)' = "waiting",
         Asked(p)'.since = version, Given(p)' = Given(p)
  PROVE  Abstract!Ask(p)
  <1>1. /\ stage[p] = "idle" /\ stage' = [stage EXCEPT ![p] = "waiting"]
        /\ asked'[p].since = version
        /\ asked' = [asked EXCEPT ![p] = asked'[p]]
        /\ UNCHANGED <<now, version, answer>>
    BY DEF Alone, Unseen, stage, asked, answer
  <1> QED
    BY <1>1 DEF Abstract!Ask, Abstract!Goes, stage, asked, answer, Stage, Asked, Given

(* A client is answered. *)
LEMMA AnswerMaps ==
  ASSUME NEW p \in Handlers, Alone(p), Stage(p) = "waiting", Stage(p)' = "answered",
         Asked(p)' = Asked(p),
         Given(p)'.orig.method = Asked(p).method, Given(p)'.orig.uri = Asked(p).uri,
         Abstract!Current(Asked(p), Given(p)') \/ Abstract!WithinLifetime(Given(p)')
  PROVE  Abstract!Answer(p)
  <1>1. /\ stage[p] = "waiting" /\ stage' = [stage EXCEPT ![p] = "answered"]
        /\ answer' = [answer EXCEPT ![p] = answer'[p]]
        /\ UNCHANGED <<now, version, asked>>
    BY DEF Alone, Unseen, stage, asked, answer
  <1>2. answer'[p] = Given(p)' /\ asked[p] = Asked(p)
    BY DEF asked, answer
  <1>3. /\ answer'[p].orig.method = asked[p].method /\ answer'[p].orig.uri = asked[p].uri
        /\ Abstract!Current(asked[p], answer'[p]) \/ Abstract!WithinLifetime(answer'[p])
    BY <1>2
  <1> QED
    BY <1>1, <1>3 DEF Abstract!Answer, Abstract!Goes, stage, asked, answer, Stage, Asked, Given

(* A client leaves with its answer. *)
LEMMA LeaveMaps ==
  ASSUME NEW p \in Handlers, Alone(p), Stage(p) = "answered", Stage(p)' = "idle",
         Asked(p)' = None, Given(p)' = None
  PROVE  Abstract!Leave(p)
  <1>1. /\ stage[p] = "answered" /\ stage' = [stage EXCEPT ![p] = "idle"]
        /\ asked' = [asked EXCEPT ![p] = None]
        /\ answer' = [answer EXCEPT ![p] = None]
        /\ UNCHANGED <<now, version>>
    BY DEF Alone, Unseen, stage, asked, answer
  <1> QED
    BY <1>1 DEF Abstract!Leave, Abstract!Goes, stage, asked, answer, Stage, Asked, Given

(* What a request's own goroutines do is seen by its client only. *)
LEMMA OwnStep ==
  ASSUME TypeOK, NEW p \in Handlers, (\E q \in Requests : ServeHTTP(p, q)) \/ HandlerStep(p)
  PROVE  Alone(p)
  <1>1. \A x \in Handlers \ {p} : Unseen(x)
    BY OthersStill, StillIsUnseen
  <1>2. UNCHANGED <<now, version>>
    BY DEF HandlerStep, ServeHTTP, SendStoredResponse, SendValidationRequest, Proxy,
       ValidationSucceeded, ValidationFailed, ProxyDone, ProxyAborted,
       updateResponseAndLocations, invalidateUri, revalidateUri, saveUpdateNow,
       saveUpdateLater, Saved, UpdatesDone, Finish
  <1> QED
    BY <1>1, <1>2 DEF Alone

(* A client gets an answer that it may have: one to a request like its own,  *)
(* which is current or young enough.                                         *)
LEMMA AnswersClient ==
  ASSUME NEW p \in Handlers, Alone(p), TypeOK, pc[p] # "idle", ~Replied(p), Replied(p)',
         UNCHANGED <<req, since>>,
         reply'[p].orig.method = req[p].method, reply'[p].orig.uri = req[p].uri,
         \/ /\ since[p][req[p].uri] <= reply'[p].res.seen[req[p].uri]
            /\ reply'[p].res.seen[req[p].uri] <= version[req[p].uri]
         \/ reply'[p].res.hdr.dated
              => TrueAge(reply'[p].res, now) < StatedLifetime(reply'[p].res)
  PROVE  Abstract!Answer(p)
  <1> DEFINE a == Given(p)'
  <1>1. pc'[p] # "idle"
    BY DEF Replied
  <1>2. Stage(p) = "waiting" /\ Stage(p)' = "answered" /\ Asked(p)' = Asked(p)
    BY <1>1 DEF Stage, Asked
  <1>3. a.orig = reply'[p].orig /\ a.res = reply'[p].res
    BY DEF Given
  <1>4. Asked(p).method = req[p].method /\ Asked(p).uri = req[p].uri /\ Asked(p).since = since[p]
    BY DEF Asked
  <1> HIDE DEF a
  <1>5. Abstract!Current(Asked(p), a) \/ Abstract!WithinLifetime(a)
    <2>1. ASSUME since[p][req[p].uri] <= reply'[p].res.seen[req[p].uri],
                 reply'[p].res.seen[req[p].uri] <= version[req[p].uri]
          PROVE  Abstract!Current(Asked(p), a)
      BY <1>3, <1>4, <2>1 DEF Abstract!Current
    <2>2. ASSUME reply'[p].res.hdr.dated
                   => TrueAge(reply'[p].res, now) < StatedLifetime(reply'[p].res)
          PROVE  Abstract!WithinLifetime(a)
      BY <1>3, <2>2 DEF Abstract!WithinLifetime, Abstract!TrueAge, Abstract!StatedLifetime,
         Abstract!HasSeconds, Abstract!Absent, TrueAge, StatedLifetime, HasSeconds, Absent
    <2> QED
      BY <2>1, <2>2
  <1> QED
    BY <1>2, <1>3, <1>4, <1>5, AnswerMaps DEF a

(* A hit is young enough; what a validation or the proxy brings is current.  *)
LEMMA AnsweringStep ==
  ASSUME HInv, SoundOrigin, NEW p \in Handlers,
         \/ SendStoredResponse(p) \/ ValidationSucceeded(p)
         \/ ValidationFailed(p) \/ ProxyDone(p) \/ ProxyAborted(p)
  PROVE  Abstract!Answer(p) \/ (Alone(p) /\ Unseen(p))
  <1>1. /\ TypeOK /\ Stamps /\ Course(p) /\ Origins /\ Past /\ Timely(p)
        /\ p \in Procs /\ DOMAIN reply = Handlers /\ DOMAIN pc = Procs
    BY DEF HInv, CInv, IInv, Courses, TypeOK, Procs
  <1>2. Alone(p)
    BY <1>1, OwnStep DEF HandlerStep
  <1>3. /\ pc[p] \in {"lookup", "validate", "proxy"} /\ ~Replied(p)
        /\ UNCHANGED <<req, since>> /\ req[p] \in Requests /\ req[p].uri \in URI
        /\ pc'[p] \in {"write", "done"}
    BY <1>1, SiteAssumption DEF SendStoredResponse, ValidationSucceeded, ValidationFailed,
       ProxyDone, ProxyAborted, Replied, ghosts, Course
  <1>4. ASSUME NEW e \in found[p], reply'[p].res = e.res, reply'[p].orig = e.orig,
               reply'[p].sent, Like(GetKeyPrefix(req[p]), e.key), Selected(req[p], e)
        PROVE  /\ reply'[p].orig.method = req[p].method /\ reply'[p].orig.uri = req[p].uri
               /\ Replied(p)'
    <2>1. Genuine(e)
      BY <1>1 DEF Origins
    <2>2. e.orig.method = req[p].method /\ e.orig.uri = req[p].uri
      BY <1>4, <2>1 DEF Genuine, AddVaryKeys, GetKeyPrefix, Like, Selected, OriginalRequest,
         GetRequestFromKey
    <2> QED
      BY <1>3, <1>4, <2>2 DEF Replied
  <1>5. CASE SendStoredResponse(p)
    <2>1. PICK e \in found[p] : /\ MustNotReuse(req[p], e, now) = "reuse"
                                /\ reply' = [reply EXCEPT ![p] = StoredReply("hit", e, e.res)]
      BY <1>5 DEF SendStoredResponse
    <2>2. reply'[p].res = e.res /\ reply'[p].orig = e.orig /\ reply'[p].sent
      BY <1>1, <2>1 DEF StoredReply
    <2>3. Like(GetKeyPrefix(req[p]), e.key) /\ Selected(req[p], e)
      BY <1>1, <1>5, <2>1 DEF Course, SendStoredResponse, MustNotReuse
    <2>4. e.res.hdr.dated => TrueAge(e.res, now) < StatedLifetime(e.res)
      BY <1>1, <2>1, ReusedIsYoung DEF TypeOK, Stamps
    <2> QED
      BY <1>1, <1>2, <1>3, <1>4, <2>2, <2>3, <2>4, AnswersClient
  <1>6. CASE ValidationSucceeded(p)
    <2>1. PICK e \in found[p] :
            reply' = [reply EXCEPT ![p] = StoredReply("validated", e, fetch[p].res)]
      BY <1>6 DEF ValidationSucceeded
    <2>2. reply'[p].res = e.res /\ reply'[p].orig = e.orig /\ reply'[p].sent
      BY <1>1, <2>1 DEF StoredReply
    <2>3. Validates(p, e) /\ pc[p] = "validate" /\ Arrived(p) /\ fetch[p].res.status = 304
      BY <1>1, <1>6 DEF ValidationSucceeded, Course, Validates
    <2>4. e.res.seen[req[p].uri] = fetch[p].res.seen[req[p].uri]
      BY <2>3, ValidatedEntry
    <2>5. /\ since[p][req[p].uri] <= fetch[p].res.seen[req[p].uri]
          /\ fetch[p].res.seen[req[p].uri] <= version[req[p].uri]
      BY <1>1, <1>3, <2>3 DEF Timely, Past, NotBefore, NotAfter
    <2> QED
      BY <1>1, <1>2, <1>3, <1>4, <2>2, <2>3, <2>4, <2>5, AnswersClient DEF Validates
  <1>7. CASE ValidationFailed(p) \/ ProxyDone(p) \/ ProxyAborted(p)
    <2>1. /\ reply'[p].res = fetch[p].res /\ reply'[p].orig = req[p]
          /\ pc[p] \in {"validate", "proxy"} /\ Arrived(p)
      BY <1>1, <1>7 DEF ValidationFailed, ProxyDone, ProxyAborted, Reply
    <2>2. /\ since[p][req[p].uri] <= reply'[p].res.seen[req[p].uri]
          /\ reply'[p].res.seen[req[p].uri] <= version[req[p].uri]
      BY <1>1, <1>3, <2>1 DEF Timely, Past, NotBefore, NotAfter
    <2>3. CASE reply'[p].sent
      BY <1>1, <1>2, <1>3, <2>1, <2>2, <2>3, AnswersClient DEF Replied
    <2>4. CASE ~reply'[p].sent
      BY <1>2, <1>3, <2>4 DEF Unseen, Stage, Asked, Given, Replied
    <2> QED
      BY <2>1, <2>3, <2>4
  <1> QED
    BY <1>5, <1>6, <1>7

(* What follows the answer is not seen, but a redirect reaches its client    *)
(* only when the updates are done; it is still not older than the request.   *)
LEMMA UpdatingStep ==
  ASSUME HInv, NEW p \in Handlers,
         \/ updateResponseAndLocations(p) \/ invalidateUri(p) \/ revalidateUri(p)
         \/ saveUpdateNow(p) \/ (\E d \in Delayed : saveUpdateLater(p, d)) \/ Saved(p)
         \/ UpdatesDone(p)
  PROVE  Abstract!Answer(p) \/ (Alone(p) /\ Unseen(p))
  <1>1. /\ TypeOK /\ Course(p) /\ Past /\ Timely(p)
        /\ p \in Procs /\ p \notin Delayed /\ DOMAIN reply = Handlers /\ DOMAIN pc = Procs
    BY SiteAssumption DEF HInv, CInv, IInv, Courses, TypeOK, Procs
  <1>2. Alone(p)
    BY <1>1, OwnStep DEF HandlerStep
  <1>3. CASE \/ updateResponseAndLocations(p) \/ invalidateUri(p) \/ revalidateUri(p)
             \/ saveUpdateNow(p) \/ (\E d \in Delayed : saveUpdateLater(p, d)) \/ Saved(p)
    <2>1. pc[p] \in {"write", "update", "save"} /\ UNCHANGED <<req, reply, since>>
      BY <1>3 DEF updateResponseAndLocations, invalidateUri, revalidateUri, saveUpdateNow,
         saveUpdateLater, Saved, Pending, ghosts
    <2>2. pc'[p] \in {"update", "save"}
      BY <1>1, <1>3 DEF updateResponseAndLocations, invalidateUri, revalidateUri, saveUpdateNow,
         saveUpdateLater, Saved, Pending
    <2> QED
      BY <1>2, <2>1, <2>2 DEF Unseen, Stage, Asked, Given, Replied
  <1>4. CASE UpdatesDone(p)
    <2>1. /\ IsReply(reply[p]) /\ reply[p].orig = req[p] /\ pc[p] = "update"
          /\ UNCHANGED <<req, since>> /\ pc'[p] = "done"
          /\ req[p] \in Requests /\ req[p].uri \in URI
      BY <1>1, <1>4, SiteAssumption DEF UpdatesDone, TypeOK, Course, ghosts
    <2>2. /\ reply'[p].res = reply[p].res /\ reply'[p].orig = reply[p].orig
          /\ reply'[p].age = reply[p].age /\ reply'[p].sent
      BY <1>1, <1>4, <2>1 DEF UpdatesDone, IsReply
    <2>3. CASE reply[p].sent
      BY <1>2, <2>1, <2>2, <2>3 DEF Unseen, Stage, Asked, Given, Replied
    <2>4. CASE ~reply[p].sent
      <3>1. /\ since[p][req[p].uri] <= reply'[p].res.seen[req[p].uri]
            /\ reply'[p].res.seen[req[p].uri] <= version[req[p].uri]
        BY <1>1, <2>1, <2>2 DEF Timely, Past, NotBefore, NotAfter
      <3>2. ~Replied(p) /\ Replied(p)'
        BY <2>1, <2>2, <2>4 DEF Replied
      <3> QED
        BY <1>1, <1>2, <2>1, <2>2, <3>1, <3>2, AnswersClient
    <2> QED
      BY <2>3, <2>4
  <1> QED
    BY <1>3, <1>4

(* What the rest of the program does is not seen by any client: it changes   *)
(* the origin's state, the time, or nothing; a crash ends all requests.      *)
LEMMA OtherStep ==
  ASSUME TypeOK,
         \/ \E d \in Delayed : DelayedStep(d)
         \/ UpdaterStep \/ (\E p \in Procs : OriginStep(p)) \/ Tick \/ Crash \/ UNCHANGED vars
  PROVE  \/ Abstract!Write \/ Abstract!Pass \/ Abstract!Restart
         \/ UNCHANGED Abstract!abstractVars
  <1> USE DEF Stage, Asked, Given, Replied
  <1>1. CASE (\E d \in Delayed : DelayedStep(d)) \/ UpdaterStep
    <2>1. \A p \in Handlers : Unseen(p) /\ UNCHANGED <<now, version>>
      BY <1>1, BackgroundStill, StillIsUnseen
    <2>2. UNCHANGED <<now, version>>
      BY <1>1 DEF DelayedStep, StartSleep, DelayOver, Saved, UpdaterStep, updateEntry,
         NothingExpires, Wake, Refreshed, Retry, Retried
    <2> QED
      BY <2>1, <2>2, StutterMaps
  <1>2. ASSUME NEW p \in Procs, OriginStep(p) PROVE Abstract!Write
    <2>1. UNCHANGED <<now, pc, req, reply, since>>
      BY <1>2 DEF OriginStep, OriginResponds, OriginFails
    <2>2. \A u \in URI : version'[u] >= version[u]
      <3>1. version \in [URI -> 0..MaxVersion] /\ MaxVersion \in Nat
        BY BoundAssumption DEF TypeOK
      <3> QED
        BY <1>2, <3>1, VersionsMoveOn
    <2>3. UNCHANGED <<stage, asked, answer>>
      BY <2>1 DEF stage, asked, answer
    <2> QED
      BY <2>1, <2>2, <2>3 DEF Abstract!Write, stage, asked, answer
  <1>3. CASE Tick
    <2>1. now' > now /\ UNCHANGED <<version, pc, req, reply, since>>
      BY <1>3, BoundAssumption DEF Tick, local, ghosts, TypeOK, Time
    <2>2. UNCHANGED <<stage, asked, answer>>
      BY <2>1 DEF stage, asked, answer
    <2> QED
      BY <2>1, <2>2 DEF Abstract!Pass, stage, asked, answer
  <1>4. CASE Crash
    <2>1. \A p \in Handlers : pc'[p] = "idle"
      BY <1>4, SiteAssumption DEF Crash, Start, Procs
    <2>2. /\ stage' = [p \in Handlers |-> "idle"] /\ asked' = [p \in Handlers |-> None]
          /\ answer' = [p \in Handlers |-> None]
      BY <2>1 DEF stage, asked, answer
    <2> QED
      BY <1>4, <2>2 DEF Crash, Abstract!Restart, Abstract!Idle, Abstract!Nothing, stage, asked,
         answer
  <1>5. CASE UNCHANGED vars
    <2>1. \A p \in Handlers : Unseen(p)
      BY <1>5 DEF vars, local, ghosts, Unseen
    <2> QED
      BY <1>5, <2>1, StutterMaps DEF vars
  <1> QED
    BY <1>1, <1>2, <1>3, <1>4, <1>5

(* Clients cannot tell the cache from the abstract one, however many they    *)
(* are, however their requests and the background work interleave, and       *)
(* whatever fails or crashes, the origin, the database or the process; the   *)
(* origin has to mean its 304 answers.                                       *)
THEOREM CacheImplementsHttpCache == SoundOrigin => (Spec => ImplementsHttpCache)
  <1> SUFFICES ASSUME SoundOrigin PROVE Spec => ImplementsHttpCache
    OBVIOUS
  <1>1. Init => Abstract!AbstractInit
    <2> SUFFICES ASSUME Init PROVE Abstract!AbstractInit
      OBVIOUS
    <2>1. \A p \in Handlers : pc[p] = "idle"
      BY SiteAssumption DEF Init, Start, Procs
    <2> QED
      BY <2>1 DEF Init, Abstract!AbstractInit, Abstract!Idle, Abstract!Nothing, Replied
  <1>2. HInv /\ [Next]_vars => [Abstract!AbstractNext]_(Abstract!abstractVars)
    <2> SUFFICES ASSUME HInv, [Next]_vars
                 PROVE  Abstract!AbstractNext \/ UNCHANGED Abstract!abstractVars
      OBVIOUS
    <2>1. TypeOK /\ DOMAIN pc = Procs /\ Handlers \subseteq Procs /\ \A p \in Handlers : Course(p)
      BY DEF HInv, CInv, IInv, TypeOK, Procs, Courses
    <2>2. ASSUME NEW p \in Handlers, Alone(p), Unseen(p)
          PROVE  UNCHANGED Abstract!abstractVars
      BY <2>2, StutterMaps DEF Alone
    <2>3. ASSUME NEW p \in Handlers, NEW q \in Requests, ServeHTTP(p, q)
          PROVE  Abstract!Ask(p)
      <3>1. Alone(p)
        BY <2>1, <2>3, OwnStep
      <3>2. pc[p] = "idle" /\ pc'[p] = "lookup" /\ since'[p] = version
        BY <2>1, <2>3 DEF ServeHTTP, TypeOK
      <3>3. /\ Stage(p) = "idle" /\ Stage(p)' = "waiting"
            /\ Asked(p)'.since = version /\ Given(p)' = Given(p)
        BY <3>2 DEF Stage, Asked, Given, Replied
      <3> QED
        BY <3>1, <3>3, AskMaps
    <2>4. ASSUME NEW p \in Handlers, HandlerStep(p)
          PROVE  Abstract!Answer(p) \/ Abstract!Leave(p) \/ UNCHANGED Abstract!abstractVars
      <3>1. Alone(p)
        BY <2>1, <2>4, OwnStep
      <3>2. CASE SendValidationRequest(p) \/ Proxy(p)
        <4>1. pc[p] = "lookup" /\ pc'[p] \in {"validate", "proxy"} /\ UNCHANGED <<req, since>>
          BY <2>1, <3>2 DEF SendValidationRequest, Proxy, ghosts
        <4>2. Unseen(p)
          BY <4>1 DEF Unseen, Stage, Asked, Given, Replied
        <4> QED
          BY <2>2, <3>1, <4>2
      <3>3. CASE Finish(p)
        <4>1. pc[p] = "done" /\ pc'[p] = "idle" /\ reply[p].sent
          BY <2>1, <3>3 DEF Finish, Course
        <4>2. /\ Stage(p) = "answered" /\ Stage(p)' = "idle"
              /\ Asked(p)' = None /\ Given(p)' = None
          BY <4>1 DEF Stage, Asked, Given, Replied
        <4> QED
          BY <3>1, <4>2, LeaveMaps
      <3> QED
        BY <2>2, <2>4, <3>2, <3>3, AnsweringStep, UpdatingStep DEF HandlerStep
    <2> QED
      BY <2>1, <2>3, <2>4, OtherStep DEF Next, Abstract!AbstractNext
  <1> QED
    BY <1>1, <1>2, InitHInv, NextHInv, PTL
    DEF Spec, ImplementsHttpCache, Abstract!AbstractSpec
=============================================================================
