---------------------------- MODULE HttpMessages ----------------------------
(***************************************************************************)
(* The HTTP messages that always-cache handles, reduced to the fields its  *)
(* decisions read.  Bodies are abstracted to the state of the origin they  *)
(* were rendered from; wording, casing and layout of fields are left out.  *)
(***************************************************************************)
EXTENDS Integers, Sequences

CONSTANTS
  URI,    \* the request URIs of the site
  Field,  \* names of request header fields a response may vary on
  None    \* the absence of a response, a validator, ...

(* Response directives that the code looks up (5.2._cache-control.go). *)
Directives == {"no-store", "private", "public", "no-cache", "must-understand",
               "max-age", "s-maxage", "safe"}

(* CacheControl.directives: the argument of every directive.  Absent is a     *)
(* directive that was not sent, NoArg one whose argument is missing or is not *)
(* a number, and a natural number is an argument in delta-seconds.            *)
Absent == -2
NoArg == -1
CacheControl == [Directives -> {Absent, NoArg} \cup Nat]

(* CacheControl.HasDirective *)
HasDirective(cc, d) == cc[d] # Absent

(* CacheControl.getDeltaSeconds: succeeds only with a numeric argument. *)
HasSeconds(cc, d) == cc[d] >= 0

(* What parsing a date field comes to: HttpDate accepts the preferred format *)
(* and the two obsolete ones, in any case, and fails on an empty field too.  *)
HttpDate == {"absent", "invalid", "date"}

(* A Cache-Update entry, and the header of a response: the parts that do not *)
(* change from one response of the same handler to the next.                 *)
Updates == [path : URI, delay : Nat]
Header == [cc         : CacheControl,
           vary       : Seq(Field \cup {"*"}),
           validators : SUBSET {"etag", "lm"},
           dated      : BOOLEAN,                 \* has a Date that parses
           expires    : HttpDate,
           after      : Int,                     \* Expires - Date, seconds
           location   : Seq(URI),  \* Location and Content-Location
           updates    : Seq(Updates),
           other      : BOOLEAN]   \* any field the cache does not look at

NoDirectives == [d \in Directives |-> Absent]

(* The header of the 502 that httputil.ReverseProxy writes when the origin *)
(* cannot be reached: no field at all.                                     *)
EmptyHeader == [cc |-> NoDirectives, vary |-> <<>>, validators |-> {},
                dated |-> FALSE, expires |-> "absent", after |-> 0,
                location |-> <<>>, updates |-> <<>>, other |-> FALSE]

(* Request header fields are a partial function from names to the sequence of *)
(* their lines, as http.Header is.  http.Header.Get returns the first line or *)
(* the empty string, FieldAbsent tells the two apart.                         *)
FieldAbsent(fields, name) ==
  \/ name \notin DOMAIN fields
  \/ fields[name] = <<>>

Get(fields, name) == IF FieldAbsent(fields, name) THEN "" ELSE fields[name][1]

UnsafeRequest(req) == req.method \notin {"GET", "HEAD"}
=============================================================================
