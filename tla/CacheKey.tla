------------------------------ MODULE CacheKey ------------------------------
(***************************************************************************)
(* pkg/cache-key/key.go and the prefix match of SQLiteCache.All.  A key is *)
(* the string                                                              *)
(*     origin:METHOD:uri TAB cache-key ( NEWLINE field: value )*           *)
(* and is kept as the record of its parts; one origin is modelled.  The    *)
(* Cache-Key part is a sequence, because a prefix of it matches too.       *)
(***************************************************************************)
EXTENDS HttpMessages, FiniteSets

CONSTANT LikeURI  \* LikeURI[u]: the URIs that SQL's LIKE takes for u

ASSUME LikeAssumption ==
  LikeURI \in [URI -> SUBSET URI] /\ \A u \in URI : u \in LikeURI[u]

GetKeyPrefix(req) ==
  [method |-> req.method, uri |-> req.uri, ckey |-> req.ckey, vary |-> <<>>]

(* The elements of s at some of its positions, in their order. *)
Nth(positions, k) == CHOOSE i \in positions : Cardinality({j \in positions : j <= i}) = k
At(s, positions) == [k \in 1..Cardinality(positions) |-> s[Nth(positions, k)]]

(* Only the fields present in the request, and only their first line. *)
Present(req, names) == {i \in DOMAIN names : ~FieldAbsent(req.header, names[i])}

AddVaryKeys(prefix, req, hdr) ==
  LET names == At(hdr.vary, Present(req, hdr.vary))
  IN [prefix EXCEPT !.vary =
        [i \in DOMAIN names |-> <<names[i], Get(req.header, names[i])>>]]

(* Mutant: the selecting fields are not taken out of the key. *)
NoVaryHeaders(key) == [f \in {} |-> <<>>]

GetVaryHeaders(key) ==
  [f \in {key.vary[i][1] : i \in DOMAIN key.vary} |->
     LET lines == At(key.vary, {i \in DOMAIN key.vary : key.vary[i][1] = f})
     IN [i \in DOMAIN lines |-> lines[i][2]]]

(* The request that "resulted in" a key: it has lost the Cache-Key, the body *)
(* and every field that is not in the key.                                   *)
GetRequestFromKey(key) ==
  [method |-> key.method, uri |-> key.uri, ckey |-> <<>>,
   header |-> GetVaryHeaders(key), auth |-> FALSE,
   inm |-> None, ims |-> None]

(* http.NewRequest("GET", uri, nil) *)
NewRequest(uri) ==
  GetRequestFromKey([method |-> "GET", uri |-> uri, ckey |-> <<>>, vary |-> <<>>])

(* WHERE key LIKE prefix%: case-insensitive, with the % and _ of an escaped  *)
(* or underscored URI as wildcards (LikeURI); any Cache-Key that starts with *)
(* the given one.                                                            *)
Like(prefix, key) ==
  /\ key.method = prefix.method
  /\ key.uri \in LikeURI[prefix.uri]
  /\ Len(prefix.ckey) <= Len(key.ckey)
  /\ SubSeq(key.ckey, 1, Len(prefix.ckey)) = prefix.ckey
=============================================================================
