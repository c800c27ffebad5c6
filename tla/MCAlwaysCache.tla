--------------------------- MODULE MCAlwaysCache ---------------------------
(***************************************************************************)
(* Sites and clients for TLC: the headers, origin answers and requests     *)
(* that the configurations choose from.                                    *)
(***************************************************************************)
EXTENDS AlwaysCache, TLC

(* Header with the given directives (a function from some of them). *)
Hdr(cc) == [EmptyHeader EXCEPT !.cc = cc @@ NoDirectives, !.dated = TRUE, !.other = TRUE]

Answer(method, uri, status, hdr, changes) ==
  [method |-> method, uri |-> uri, status |-> status, hdr |-> hdr, changes |-> changes]

Ask(method, uri) ==
  [method |-> method, uri |-> uri, ckey |-> <<>>, header |-> <<>>,
   auth |-> FALSE, inm |-> None, ims |-> None]

(* Handlers are interchangeable in runs without liveness properties. *)
HandlerSymmetry == Permutations(Handlers)

Exactly == [u \in URI |-> {u}]

MaxAge(n) == Hdr("max-age" :> n)

(* freshness: s-maxage, max-age, Expires and no lifetime. *)
FreshnessReplies ==
  {Answer("GET", "/a", 200, h, {}) :
     h \in {MaxAge(1),
            Hdr("max-age" :> 4 @@ "s-maxage" :> 3),
            [Hdr(NoDirectives) EXCEPT !.expires = "date", !.after = 2]}}

(* The zero time and clock offsets; TLC reads no negative number in a cfg. *)
LongAgo == -1000
OffClocks == {-3, 0, 3}

UpstreamAges == {Absent, 1}
NoAges == {Absent}
GetA == {Ask("GET", "/a")}

(* coherence: a write to /a answered by a redirect to /b and one that only   *)
(* names the other resource in Cache-Update; both are read and cached.       *)
Cacheable == {Answer("GET", u, 200, MaxAge(9), {}) : u \in URI}
RedirectingWrite ==
  Answer("POST", "/a", 303, [Hdr(NoDirectives) EXCEPT !.location = <<"/b">>], {"/a", "/b"})
UpdatingWrite(delay) ==
  Answer("POST", "/a", 200,
         [Hdr("no-store" :> NoArg) EXCEPT !.updates = <<[path |-> "/b", delay |-> delay]>>],
         {"/a", "/b"})
WriteReplies == Cacheable \cup {RedirectingWrite, UpdatingWrite(0)}
RedirectReplies == Cacheable \cup {RedirectingWrite}
DelayedReplies == Cacheable \cup {UpdatingWrite(1)}
ReadsAndWrites == {Ask("GET", "/a"), Ask("GET", "/b"), Ask("POST", "/a")}

(* reuse: a page with variants, and a page without, always validated, whose  *)
(* URI the database's LIKE confuses with it; writes go to the latter.        *)
Confused == [u \in URI |-> URI]
Varying(h) == [h EXCEPT !.vary = <<"accept">>]
Tagged(h) == [h EXCEPT !.validators = {"etag"}]
ReuseReplies ==
  {Answer("GET", "/a", 200, Varying(Tagged(MaxAge(1))), {}),
   Answer("GET", "/A", 200, Tagged(Hdr("no-cache" :> NoArg)), {}),
   Answer("HEAD", "/a", 200, Hdr("public" :> NoArg @@ "max-age" :> 1), {}),
   Answer("POST", "/A", 200, Hdr("public" :> NoArg @@ "max-age" :> 1), {"/a", "/A"})}
With(q, lines) == [q EXCEPT !.header = "accept" :> lines]
ReuseRequests ==
  {Ask("GET", "/a"), With(Ask("GET", "/a"), <<"x">>), With(Ask("GET", "/a"), <<"">>),
   [With(Ask("GET", "/a"), <<"x">>) EXCEPT !.inm = 0],
   [With(Ask("GET", "/a"), <<"x">>) EXCEPT !.inm = 1],
   Ask("GET", "/A"), [Ask("GET", "/A") EXCEPT !.inm = 1], Ask("HEAD", "/a"),
   Ask("POST", "/A")}

(* updater: a variant of a page that expires while it is being refreshed, *)
(* and that may change whenever it is rendered.                              *)
ExpiringReplies ==
  {Answer("GET", "/a", 200, Varying(MaxAge(2)), changes) : changes \in {{}, {"/a"}}}
Variant == {With(Ask("GET", "/a"), <<"x">>)}

(* undated: an answer without a Date field. *)
UndatedReplies == {Answer("GET", "/a", 200, [MaxAge(1) EXCEPT !.dated = FALSE], {})}

(* liveness and faults: a read and a write. *)
ReadAndWrite == {Ask("GET", "/a"), Ask("POST", "/a")}
ReadBAndWrite == {Ask("GET", "/b"), Ask("POST", "/a")}

(* loop_variable: a write with two delayed updates. *)
TwoDelayed ==
  Cacheable \cup
  {Answer("POST", "/a", 200,
     [Hdr("no-store" :> NoArg) EXCEPT
        !.updates = <<[path |-> "/a", delay |-> 1], [path |-> "/b", delay |-> 1]>>], {})}
WriteA == {Ask("POST", "/a")}
=============================================================================
