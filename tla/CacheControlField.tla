------------------------- MODULE CacheControlField -------------------------
(***************************************************************************)
(* ParseCacheControl of rfc9111/5.2._cache-control.go.  A field is the     *)
(* sequence of its lines, a line the sequence of its pieces between ", ",  *)
(* and a piece the sequence of the directives in it: one, or several with  *)
(* a bare comma between them.  A directive is its name and its argument,   *)
(* NoArg when it has none.  Case and quotes make no difference.            *)
(***************************************************************************)
EXTENDS HttpMessages, FiniteSetsExt

Directive == [name : STRING, arg : {NoArg} \cup Nat]
CacheControlLines == Seq(Seq(Seq(Directive)))

Unknown == "unknown"

(* strings.SplitN(directive, "=", 2): what stands before the first = is the   *)
(* name and everything after it the argument, which is not a number if more   *)
(* directives follow in it.                                                   *)
SplitN(piece) ==
  IF Len(piece) = 1 THEN piece[1]
  ELSE [name |-> IF piece[1].arg = NoArg THEN Unknown ELSE piece[1].name,
        arg |-> NoArg]

(* "last defined directive wins": the last one on the last line that has it. *)
LastDefined(lists) ==
  [d \in Directives |->
     LET at == {i \in DOMAIN lists : \E j \in DOMAIN lists[i] : lists[i][j].name = d}
         list == lists[Max(at)]
     IN IF at = {} THEN Absent ELSE list[Max({j \in DOMAIN list : list[j].name = d})].arg]

(* Mutant: only the first line of the field is read, as http.Header.Get does. *)
ParseFirstLine(lines) ==
  LastDefined([i \in DOMAIN lines \cap {1} |-> [j \in DOMAIN lines[i] |-> SplitN(lines[i][j])]])

ParseCacheControl(lines) ==
  LastDefined([i \in DOMAIN lines |-> [j \in DOMAIN lines[i] |-> SplitN(lines[i][j])]])

(* What the origin has listed, wherever it has put its commas: the last      *)
(* directive in the last piece on the last line that has it.                 *)
Meant(lines) ==
  [d \in Directives |->
     LET In(piece) == {k \in DOMAIN piece : piece[k].name = d}
         at == {i \in DOMAIN lines : \E j \in DOMAIN lines[i] : In(lines[i][j]) # {}}
         line == lines[Max(at)]
         piece == line[Max({j \in DOMAIN line : In(line[j]) # {}})]
     IN IF at = {} THEN Absent ELSE piece[Max(In(piece))].arg]

(* Every directive is a piece of its own. *)
WellSeparated(lines) ==
  \A i \in DOMAIN lines : \A j \in DOMAIN lines[i] : Len(lines[i][j]) = 1
=============================================================================
