--------------------------- MODULE MCRefreshLoop ---------------------------
(***************************************************************************)
(* Pages for TLC whose responses expire at different times.                *)
(***************************************************************************)
EXTENDS RefreshLoop, TLC

Exactly == [u \in URI |-> {u}]
LongAgo == -1000

Hdr(cc) == [EmptyHeader EXCEPT !.cc = cc @@ NoDirectives, !.dated = TRUE, !.other = TRUE]
Varying(h) == [h EXCEPT !.vary = <<"accept">>]
Page(uri, fields) == [method |-> "GET", uri |-> uri, ckey |-> <<>>, header |-> fields,
                      auth |-> FALSE, inm |-> None, ims |-> None]

(* refresh: a short-lived page, one in two variants whose lifetime varies,   *)
(* and one without a lifetime.                                               *)
Variants == {Page("/a", <<>>), Page("/b", <<>>), Page("/b", "accept" :> <<"x">>),
             Page("/c", <<>>)}
ShortLived ==
  {[uri |-> "/a", hdr |-> Hdr("max-age" :> 2)],
   [uri |-> "/b", hdr |-> Varying(Hdr("max-age" :> 2))],
   [uri |-> "/b", hdr |-> Varying(Hdr("s-maxage" :> 3))],
   [uri |-> "/c", hdr |-> Hdr("no-cache" :> NoArg)]}

ASSUME ShortLivedIsSteady == Replies = ShortLived => SteadySite

(* starved: a page that is sometimes answered without its Vary field. *)
ForgetsVary ==
  {[uri |-> "/a", hdr |-> Hdr("max-age" :> 2)],
   [uri |-> "/b", hdr |-> Varying(Hdr("max-age" :> 2))],
   [uri |-> "/b", hdr |-> Hdr("max-age" :> 2)]}
=============================================================================
