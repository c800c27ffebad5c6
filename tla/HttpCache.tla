----------------------------- MODULE HttpCache -----------------------------
(***************************************************************************)
(* What a client may rely on, whatever goes on inside the cache: every     *)
(* request gets at most one answer, which does not change once it is given *)
(* and was made for a request with the same method and URI.  The answer is *)
(* either current, the state the origin had at some time after the request *)
(* was sent, or still within the lifetime that the origin gave it.         *)
(*                                                                         *)
(* There is no store, no key and no updater here; AlwaysCache implements   *)
(* this specification (AlwaysCache!Abstract).                              *)
(***************************************************************************)
EXTENDS Freshness

CONSTANT Clients

VARIABLES
  now,      \* the time
  version,  \* the state of every resource at the origin
  stage,    \* whether a client is idle, waiting or answered
  asked,    \* the request of a client: method, URI and the state it was sent in
  answer    \* what the client has got

abstractVars == <<now, version, stage, asked, answer>>

Nothing == [c \in Clients |-> None]
Idle == [c \in Clients |-> "idle"]
Goes(c, to) == stage' = [stage EXCEPT ![c] = to]

AbstractInit ==
  /\ now = 0 /\ version = [u \in URI |-> 0]
  /\ stage = Idle /\ asked = Nothing /\ answer = Nothing

Ask(c) ==
  /\ stage[c] = "idle" /\ Goes(c, "waiting")
  /\ asked'[c].since = version
  /\ asked' = [asked EXCEPT ![c] = asked'[c]]
  /\ UNCHANGED <<now, version, answer>>

(* Nothing that happened at the origin before the request was sent is       *)
(* missing from the answer.                                                 *)
Current(q, a) ==
  a.res.seen[q.uri] >= q.since[q.uri] /\ a.res.seen[q.uri] <= version[q.uri]

(* A response without a Date has no age to go by; the cache promises nothing *)
(* about it.                                                                 *)
WithinLifetime(a) == a.res.hdr.dated => TrueAge(a.res, now) < StatedLifetime(a.res)

Answer(c) ==
  /\ stage[c] = "waiting" /\ Goes(c, "answered")
  /\ LET a == answer'[c]
     IN /\ a.orig.method = asked[c].method /\ a.orig.uri = asked[c].uri
        /\ Current(asked[c], a) \/ WithinLifetime(a)
  /\ answer' = [answer EXCEPT ![c] = answer'[c]]
  /\ UNCHANGED <<now, version, asked>>

Leave(c) ==
  /\ stage[c] = "answered" /\ Goes(c, "idle")
  /\ asked' = [asked EXCEPT ![c] = None]
  /\ answer' = [answer EXCEPT ![c] = None]
  /\ UNCHANGED <<now, version>>

(* The resources of the origin only move on. *)
Write ==
  /\ \A u \in URI : version'[u] >= version[u]
  /\ UNCHANGED <<now, stage, asked, answer>>

Pass == now' > now /\ UNCHANGED <<version, stage, asked, answer>>

(* All connections are lost. *)
Restart ==
  stage' = Idle /\ asked' = Nothing /\ answer' = Nothing /\ UNCHANGED <<now, version>>

AbstractNext ==
  \/ \E c \in Clients : Ask(c) \/ Answer(c) \/ Leave(c)
  \/ Write \/ Pass \/ Restart

AbstractSpec == AbstractInit /\ [][AbstractNext]_abstractVars
=============================================================================
