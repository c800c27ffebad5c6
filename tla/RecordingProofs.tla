-------------------------- MODULE RecordingProofs --------------------------
(***************************************************************************)
(* What the ResponseSaver records and passes on, for any number of parts,  *)
(* any fields and trailers: the log that is stored reads back as the       *)
(* origin's answer, and writeCache refuses nothing that may be stored.     *)
(***************************************************************************)
EXTENDS Recording, SequenceTheorems, WellFoundedInduction, TLAPS

(******************************** Sequences *******************************)

(* A set of positions has a last one. *)
LEMMA MaxIsMember ==
  ASSUME NEW n \in Nat, NEW I \in SUBSET (1..n), I # {}
  PROVE  Max(I) \in I /\ \A i \in I : i <= Max(I)
  <1> DEFINE T == {n - i : i \in I}
  <1>1. T \subseteq Nat /\ T # {}
    OBVIOUS
  <1>2. PICK x \in T : \A y \in T : ~(<<y, x>> \in OpToRel(<, Nat))
    <2> HIDE DEF T
    <2> QED
      BY <1>1, WFMin, NatLessThanWellFounded, Zenon
  <1>3. \A y \in T : x <= y
    <2>1. \A y \in Nat : y < x => <<y, x>> \in OpToRel(<, Nat)
      BY <1>1 DEF OpToRel
    <2>2. \A y \in T : y \in Nat /\ x \in Nat /\ ~(y < x)
      BY <1>1, <1>2, <2>1, Zenon
    <2> HIDE DEF T
    <2> QED
      BY <2>2
  <1>4. PICK m \in I : x = n - m
    BY <1>2
  <1>5. \A i \in I : i <= m
    <2>1. \A i \in I : n - m <= n - i
      BY <1>3, <1>4
    <2>2. m \in 1..n /\ \A i \in I : i \in 1..n
      OBVIOUS
    <2>3. \A i \in Int : n - m <= n - i => i <= m
      BY <2>2
    <2> QED
      BY <2>1, <2>2, <2>3
  <1>6. \E y \in I : \A i \in I : y >= i
    BY <1>5
  <1> QED
    BY <1>6 DEF Max

(* A message of n parts under a head. *)
Log(head, n) == [i \in 1..(n + 1) |-> IF i = 1 THEN head ELSE Part(i - 1)]
Parts(n) == [i \in 1..n |-> Part(i)]

(* A log of n parts is a sequence of n + 1 items. *)
LEMMA LogIsSeq ==
  ASSUME NEW head, NEW n \in Nat
  PROVE  /\ Log(head, n) \in Seq({head} \cup {Part(i) : i \in Nat})
         /\ Len(Log(head, n)) = n + 1
         /\ Parts(n) \in Seq({head} \cup {Part(i) : i \in Nat}) /\ Len(Parts(n)) = n
  <1> DEFINE S == {head} \cup {Part(i) : i \in Nat}
  <1>1. Log(head, n) \in [1..(n + 1) -> S]
    BY DEF Log
  <1>2. Parts(n) \in [1..n -> S]
    BY DEF Parts
  <1> HIDE DEF S
  <1>3. Log(head, n) \in Seq(S) /\ Parts(n) \in Seq(S)
    BY <1>1, <1>2, SeqDef
  <1>4. DOMAIN Log(head, n) = 1..(n + 1) /\ DOMAIN Parts(n) = 1..n
    BY <1>1, <1>2
  <1>5. Len(Log(head, n)) = n + 1 /\ Len(Parts(n)) = n
    BY <1>3, <1>4, LenProperties
  <1> QED
    BY <1>3, <1>5 DEF S

(* A log begins with its head, grows by parts, and its tail is the body. *)
LEMMA LogGrows ==
  ASSUME NEW head, NEW n \in Nat
  PROVE  /\ Log(head, 0) = <<head>> /\ Append(<<>>, head) = <<head>>
         /\ Append(Log(head, n), Part(n + 1)) = Log(head, n + 1)
         /\ Tail(Log(head, n)) = Parts(n)
  <1> DEFINE S == {head} \cup {Part(i) : i \in Nat}
  <1>1. /\ Log(head, n) \in Seq(S) /\ Len(Log(head, n)) = n + 1
        /\ Log(head, n + 1) \in Seq(S) /\ Len(Log(head, n + 1)) = n + 2
        /\ Parts(n) \in Seq(S) /\ Len(Parts(n)) = n
    <2>1. n + 1 \in Nat /\ (n + 1) + 1 = n + 2
      OBVIOUS
    <2> QED
      BY <2>1, LogIsSeq
  <1>2. Part(n + 1) \in S
    OBVIOUS
  <1>3. /\ \A i \in 1..(n + 1) : Log(head, n)[i] = IF i = 1 THEN head ELSE Part(i - 1)
        /\ \A i \in 1..(n + 2) : Log(head, n + 1)[i] = IF i = 1 THEN head ELSE Part(i - 1)
        /\ \A i \in 1..n : Parts(n)[i] = Part(i)
    BY DEF Log, Parts
  <1>4. Log(head, 0) = <<head>> /\ Append(<<>>, head) = <<head>>
    BY DEF Log
  <1> HIDE DEF S
  <1>5. Append(Log(head, n), Part(n + 1)) = Log(head, n + 1)
    <2>1. /\ Append(Log(head, n), Part(n + 1)) \in Seq(S)
          /\ Len(Append(Log(head, n), Part(n + 1))) = n + 2
          /\ \A i \in 1..(n + 2) : Append(Log(head, n), Part(n + 1))[i]
               = IF i <= n + 1 THEN Log(head, n)[i] ELSE Part(n + 1)
      BY <1>1, <1>2, AppendProperties
    <2> QED
      BY <1>1, <1>3, <2>1, SeqEqual
  <1>6. Tail(Log(head, n)) = Parts(n)
    <2>1. Log(head, n) # <<>>
      BY <1>1
    <2>2. /\ Tail(Log(head, n)) \in Seq(S) /\ Len(Tail(Log(head, n))) = n
          /\ \A i \in 1..n : Tail(Log(head, n))[i] = Log(head, n)[i + 1]
      BY <1>1, <2>1, HeadTailProperties
    <2> QED
      BY <1>1, <1>3, <2>2, SeqEqual
  <1> QED
    BY <1>4, <1>5, <1>6

(*************************** Cache-Control ********************************)

(* A field with every directive in a piece of its own, on however many lines *)
(* and with directives that repeat, is parsed as it was meant.               *)
LEMMA ParsedAsMeant ==
  ASSUME NEW lines \in CacheControlLines, WellSeparated(lines)
  PROVE  ParseCacheControl(lines) = Meant(lines)
  <1> DEFINE lists == [i \in DOMAIN lines |-> [j \in DOMAIN lines[i] |-> SplitN(lines[i][j])]]
  <1>1. /\ Len(lines) \in Nat /\ DOMAIN lines = 1..Len(lines)
        /\ \A i \in DOMAIN lines : lines[i] \in Seq(Seq(Directive))
    BY DEF CacheControlLines
  <1>2. ASSUME NEW i \in DOMAIN lines
        PROVE  /\ Len(lines[i]) \in Nat /\ DOMAIN lines[i] = 1..Len(lines[i])
               /\ \A j \in DOMAIN lines[i] : lines[i][j] \in Seq(Directive)
    BY <1>1
  <1>3. ASSUME NEW i \in DOMAIN lines, NEW j \in DOMAIN lines[i]
        PROVE  lists[i][j] = lines[i][j][1] /\ DOMAIN lines[i][j] = {1}
    <2>1. lines[i][j] \in Seq(Directive) /\ Len(lines[i][j]) = 1
      BY <1>2 DEF WellSeparated
    <2>2. DOMAIN lines[i][j] = 1..1
      BY <2>1
    <2> QED
      BY <2>1, <2>2 DEF SplitN
  <1>4. DOMAIN lists = DOMAIN lines /\ \A i \in DOMAIN lines : DOMAIN lists[i] = DOMAIN lines[i]
    OBVIOUS
  <1> HIDE DEF lists
  <1>5. ASSUME NEW d \in Directives
        PROVE  LastDefined(lists)[d] = Meant(lines)[d]
    <2> DEFINE In(piece) == {k \in DOMAIN piece : piece[k].name = d}
               at == {i \in DOMAIN lists : \E j \in DOMAIN lists[i] : lists[i][j].name = d}
               meantAt == {i \in DOMAIN lines : \E j \in DOMAIN lines[i] : In(lines[i][j]) # {}}
               m == Max(at)
               on == {j \in DOMAIN lists[m] : lists[m][j].name = d}
               meantOn == {j \in DOMAIN lines[m] : In(lines[m][j]) # {}}
               piece == lines[m][Max(on)]
    <2>1. ASSUME NEW i \in DOMAIN lines, NEW j \in DOMAIN lines[i]
          PROVE  /\ In(lines[i][j]) # {} <=> lists[i][j].name = d
                 /\ lists[i][j].name = d => In(lines[i][j]) = {1}
      BY <1>3
    <2> HIDE DEF In
    <2>2. at = meantAt
      BY <1>4, <2>1
    <2>3. CASE at = {}
      BY <2>2, <2>3 DEF LastDefined, Meant, In
    <2>4. CASE at # {}
      <3>1. at \in SUBSET (1..Len(lines))
        BY <1>1, <1>4
      <3>2. m \in at
        BY <1>1, <2>4, <3>1, MaxIsMember
      <3>3. m \in DOMAIN lines /\ on # {}
        BY <1>4, <3>2
      <3> HIDE DEF m, at, meantAt
      <3>4. on = meantOn
        BY <1>4, <2>1, <3>3
      <3>5. on \in SUBSET (1..Len(lines[m])) /\ Len(lines[m]) \in Nat
        BY <1>2, <1>4, <3>3
      <3>6. Max(on) \in on
        BY <3>3, <3>5, MaxIsMember
      <3>7. Max(on) \in DOMAIN lines[m] /\ lists[m][Max(on)].name = d
        BY <1>4, <3>3, <3>6
      <3> HIDE DEF on, meantOn
      <3>8. In(piece) = {1} /\ lists[m][Max(on)] = piece[1]
        BY <1>3, <2>1, <3>3, <3>7
      <3>9. Max({1}) = 1
        <4>1. {1} \in SUBSET (1..1) /\ {1} # {} /\ 1 \in Nat
          OBVIOUS
        <4> QED
          BY <4>1, MaxIsMember
      <3>10. LastDefined(lists)[d] = lists[m][Max(on)].arg
        BY <2>4 DEF LastDefined, m, at, on
      <3>11. Meant(lines)[d] = piece[Max(In(piece))].arg
        <4>1. meantAt # {} /\ Max(meantAt) = m
          BY <2>2, <2>4 DEF m
        <4>2. Max(meantOn) = Max(on)
          BY <3>4
        <4>3. LET line == lines[Max(meantAt)]
                  last == line[Max({j \in DOMAIN line : In(line[j]) # {}})]
              IN meantAt # {} => Meant(lines)[d] = last[Max(In(last))].arg
          BY DEF Meant, meantAt, In
        <4> QED
          BY <4>1, <4>2, <4>3 DEF meantOn
      <3> QED
        BY <3>8, <3>9, <3>10, <3>11
    <2> QED
      BY <2>3, <2>4
  <1>6. LastDefined(lists) = Meant(lines)
    BY <1>5 DEF LastDefined, Meant
  <1> QED
    BY <1>6 DEF ParseCacheControl, lists

(******************************** Fields **********************************)

(* What is a sequence of anything is one of its own elements. *)
LEMMA Sequence ==
  ASSUME NEW S, NEW s \in Seq(S)
  PROVE  IsSequence(s)
  <1>1. Len(s) \in Nat /\ DOMAIN s = 1..Len(s) /\ s = [i \in 1..Len(s) |-> s[i]]
    BY LenProperties
  <1>2. s \in [1..Len(s) -> {s[i] : i \in DOMAIN s}]
    BY <1>1
  <1> QED
    BY <1>1, <1>2, SeqDef DEF IsSequence

(* Two sequences joined, position by position. *)
LEMMA Joined ==
  ASSUME NEW s, NEW t, IsSequence(s), IsSequence(t)
  PROVE  /\ IsSequence(s \o t) /\ Len(s) \in Nat /\ Len(t) \in Nat
         /\ DOMAIN s = 1..Len(s) /\ DOMAIN t = 1..Len(t)
         /\ Len(s \o t) = Len(s) + Len(t)
         /\ \A i \in 1..Len(s) : (s \o t)[i] = s[i]
         /\ \A i \in 1..Len(t) : (s \o t)[Len(s) + i] = t[i]
         /\ <<>> \o s = s /\ s \o <<>> = s
  <1> DEFINE S == {s[i] : i \in DOMAIN s} \cup {t[i] : i \in DOMAIN t}
  <1>1. s \in Seq({s[i] : i \in DOMAIN s}) /\ t \in Seq({t[i] : i \in DOMAIN t})
    BY DEF IsSequence
  <1>2. s \in Seq(S) /\ t \in Seq(S)
    BY <1>1, SeqMonotonic
  <1> HIDE DEF S
  <1>3. /\ s \o t \in Seq(S) /\ Len(s \o t) = Len(s) + Len(t)
        /\ \A i \in 1..(Len(s) + Len(t)) :
             (s \o t)[i] = IF i <= Len(s) THEN s[i] ELSE t[i - Len(s)]
    BY <1>2, ConcatProperties
  <1>4. /\ Len(s) \in Nat /\ DOMAIN s = 1..Len(s)
        /\ Len(t) \in Nat /\ DOMAIN t = 1..Len(t)
    BY <1>2, LenProperties
  <1>5. <<>> \o s = s /\ s \o <<>> = s
    BY <1>2, ConcatEmptySeq
  <1>6. IsSequence(s \o t)
    BY <1>3, Sequence
  <1>7. /\ \A i \in 1..Len(s) : (s \o t)[i] = s[i]
        /\ \A i \in 1..Len(t) : (s \o t)[Len(s) + i] = t[i]
    BY <1>3, <1>4
  <1> QED
    BY <1>3, <1>4, <1>5, <1>6, <1>7

(* No lines at all are a sequence. *)
LEMMA NothingIsSequence == IsSequence(<<>>)
  BY EmptySeq, Sequence

(* Copying fields adds the new lines of each after the old ones. *)
LEMMA Copied ==
  ASSUME NEW a, NEW b, IsFields(a), IsFields(b)
  PROVE  /\ IsFields(copyHeader(a, b))
         /\ \A n : /\ IsSequence(Values(a, n)) /\ IsSequence(Values(b, n))
                   /\ Values(copyHeader(a, b), n) = Values(a, n) \o Values(b, n)
         /\ copyHeader(NoFields, a) = a
  <1> DEFINE c == copyHeader(a, b)
  <1>1. \A n : IsSequence(Values(a, n)) /\ IsSequence(Values(b, n))
    BY NothingIsSequence DEF IsFields, Values
  <1>2. <<>> \o <<>> = <<>>
    BY NothingIsSequence, Joined
  <1>3. DOMAIN c = DOMAIN a \cup DOMAIN b
    BY DEF copyHeader
  <1>4. \A n : Values(c, n) = Values(a, n) \o Values(b, n)
    BY <1>2, <1>3 DEF copyHeader, Values
  <1>5. c = [n \in DOMAIN c |-> c[n]]
    BY DEF copyHeader
  <1>6. \A n \in DOMAIN c : IsSequence(c[n])
    BY <1>1, <1>3, Joined DEF copyHeader
  <1>7. Values(c, "Cache-Control") \in CacheControlLines
    <2>1. /\ Values(a, "Cache-Control") \in CacheControlLines
          /\ Values(b, "Cache-Control") \in CacheControlLines
      BY DEF IsFields
    <2> QED
      BY <1>4, <2>1, ConcatProperties DEF CacheControlLines
  <1>8. copyHeader(NoFields, a) = a
    <2>1. \A n \in DOMAIN a : <<>> \o a[n] = a[n]
      BY Joined DEF IsFields
    <2>2. copyHeader(NoFields, a) = [n \in DOMAIN a |-> <<>> \o a[n]]
      BY DEF copyHeader, NoFields, Values
    <2> QED
      BY <2>1, <2>2 DEF IsFields
  <1> QED
    BY <1>1, <1>4, <1>5, <1>6, <1>7, <1>8 DEF IsFields

(* A field that is not copied stays as it is. *)
LEMMA CopiedBeside ==
  ASSUME NEW a, NEW b, IsFields(a), IsFields(b), NEW n
  PROVE  Values(b, n) = <<>> => Values(copyHeader(a, b), n) = Values(a, n)
  <1>1. /\ Values(copyHeader(a, b), n) = Values(a, n) \o Values(b, n)
        /\ IsSequence(Values(a, n))
    BY Copied
  <1>2. Values(a, n) \o <<>> = Values(a, n)
    BY <1>1, NothingIsSequence, Joined
  <1> QED
    BY <1>1, <1>2

(* A header may be empty. *)
LEMMA NoFieldsAreFields == IsFields(NoFields)
  BY EmptySeq DEF IsFields, NoFields, Values, CacheControlLines

(* The Trailer field is a field. *)
LEMMA AnnouncedFields ==
  ASSUME NEW trailer
  PROVE  IsFields(Announce(trailer))
  <1>1. CASE trailer = NoFields
    BY <1>1, NoFieldsAreFields DEF Announce
  <1>2. CASE trailer # NoFields
    <2> DEFINE h == Announce(trailer)
    <2>1. DOMAIN h = {"Trailer"} /\ h["Trailer"] = <<DOMAIN trailer>>
          /\ h = [n \in DOMAIN h |-> h[n]]
      BY <1>2 DEF Announce
    <2>2. IsSequence(<<DOMAIN trailer>>)
      <3>1. <<DOMAIN trailer>> \in Seq({DOMAIN trailer})
        OBVIOUS
      <3> QED
        BY <3>1, Sequence
    <2>3. Values(h, "Cache-Control") \in CacheControlLines
      BY <2>1, EmptySeq DEF Values, CacheControlLines
    <2> HIDE DEF h
    <2> QED
      BY <2>1, <2>2, <2>3 DEF IsFields, h
  <1> QED
    BY <1>1, <1>2

(* The mark of this cache is a field. *)
LEMMA MarkedFields ==
  ASSUME NEW status
  PROVE  /\ IsFields(CacheStatus(status)) /\ DOMAIN CacheStatus(status) = {"Cache-Status"}
         /\ Values(CacheStatus(status), "Cache-Status") = <<status>>
  <1> DEFINE h == CacheStatus(status)
  <1>1. /\ DOMAIN h = {"Cache-Status"} /\ h["Cache-Status"] = <<status>>
        /\ h = [n \in DOMAIN h |-> h[n]]
    BY DEF CacheStatus
  <1>2. IsSequence(<<status>>)
    <2>1. <<status>> \in Seq({status})
      OBVIOUS
    <2> QED
      BY <2>1, Sequence
  <1>3. Values(h, "Cache-Control") \in CacheControlLines
    BY <1>1, EmptySeq DEF Values, CacheControlLines
  <1>4. Values(h, "Cache-Status") = <<status>>
    BY <1>1 DEF Values
  <1> HIDE DEF h
  <1> QED
    BY <1>1, <1>2, <1>3, <1>4 DEF IsFields, h

(****************************** The saver *********************************)

IsWriter(w) == DOMAIN w = {"header", "out"}
IsSaver(s) ==
  /\ DOMAIN s = {"rw", "w", "b", "header", "status", "wroteHeaders", "statusFilter"}
  /\ IsWriter(s.w)

(* A writer that has sent no final status sends the first one. *)
LEMMA HeadSent ==
  ASSUME NEW w, IsWriter(w), NEW code
  PROVE  /\ IsWriter(SendHead(w, code))
         /\ SendHead(w, code).header = w.header
         /\ SendHead(w, code).out
              = IF IsFinal(w.out) THEN w.out ELSE Append(w.out, MessageHead(code, w.header))
  BY DEF IsWriter, SendHead

(* After it the writer only appends parts. *)
LEMMA PartSent ==
  ASSUME NEW w, IsWriter(w), NEW data
  PROVE  /\ IsWriter(SendPart(w, data))
         /\ SendPart(w, data).header = w.header
         /\ IsFinal(w.out) => SendPart(w, data).out = Append(w.out, Part(data))
  <1> DEFINE begun == IF IsFinal(w.out) THEN w ELSE SendHead(w, 200)
  <1>1. IsWriter(begun) /\ begun.header = w.header
    BY HeadSent
  <1>2. IsFinal(w.out) => begun = w
    OBVIOUS
  <1> HIDE DEF begun
  <1> QED
    BY <1>1, <1>2 DEF IsWriter, SendPart, begun

(* WriteHeader records the fields as they are and passes them on unless it *)
(* holds the status back.                                                  *)
HeadWritten(s, code, t) ==
  /\ IsSaver(t)
  /\ t.rw <=> s.rw /\ code # s.statusFilter
  /\ t.wroteHeaders = TRUE /\ t.status = code
  /\ t.header = s.header /\ t.statusFilter = s.statusFilter
  /\ t.b = Append(s.b, MessageHead(code, s.header))
  /\ t.w = IF t.rw THEN SendHead(AddFields(s.w, s.header), code) ELSE s.w

(* What is added to the header of a writer changes nothing that was sent. *)
LEMMA FieldsAdded ==
  ASSUME NEW w, IsWriter(w), NEW fields
  PROVE  /\ IsWriter(AddFields(w, fields)) /\ AddFields(w, fields).out = w.out
         /\ AddFields(w, fields).header = copyHeader(w.header, fields)
  BY DEF IsWriter, AddFields

(* WriteHeader does this to any saver. *)
LEMMA HeaderWritten ==
  ASSUME NEW s, IsSaver(s), NEW code
  PROVE  HeadWritten(s, code, WriteHeader(s, code))
  <1> DEFINE rw == s.rw /\ code # s.statusFilter
             head == Append(s.b, MessageHead(code, s.header))
             w == IF rw THEN SendHead(AddFields(s.w, s.header), code) ELSE s.w
             t == WriteHeader(s, code)
  <1>1. IsWriter(AddFields(s.w, s.header))
    BY FieldsAdded DEF IsSaver
  <1>2. IsWriter(w)
    BY <1>1, HeadSent DEF IsSaver
  <1>3. t = [s EXCEPT !.rw = rw, !.wroteHeaders = TRUE, !.status = code, !.b = head, !.w = w]
    BY DEF WriteHeader, IsSaver
  <1> HIDE DEF head, w, t, rw
  <1>4. /\ DOMAIN t = DOMAIN s /\ t.rw = rw /\ t.wroteHeaders = TRUE /\ t.status = code
        /\ t.header = s.header /\ t.statusFilter = s.statusFilter /\ t.b = head /\ t.w = w
    BY <1>3 DEF IsSaver
  <1> QED
    BY <1>2, <1>4 DEF HeadWritten, IsSaver, t, w, head, rw

(* Write after a head records the part and passes it on. *)
PartWritten(s, data, t) ==
  /\ IsSaver(t)
  /\ t.rw = s.rw /\ t.wroteHeaders = s.wroteHeaders /\ t.status = s.status
  /\ t.header = s.header /\ t.statusFilter = s.statusFilter
  /\ t.b = Append(s.b, Part(data))
  /\ t.w = IF s.rw THEN SendPart(s.w, data) ELSE s.w

(* Write does this to any saver that has a head. *)
LEMMA DataWritten ==
  ASSUME NEW s, IsSaver(s), s.wroteHeaders, NEW data
  PROVE  PartWritten(s, data, Write(s, data))
  <1> DEFINE w == IF s.rw THEN SendPart(s.w, data) ELSE s.w
             t == Write(s, data)
  <1>1. t = [s EXCEPT !.b = Append(s.b, Part(data)), !.w = w]
    BY DEF Write
  <1>2. IsWriter(w)
    BY PartSent DEF IsSaver
  <1> HIDE DEF w, t
  <1>3. /\ DOMAIN t = DOMAIN s /\ t.b = Append(s.b, Part(data)) /\ t.w = w
        /\ t.rw = s.rw /\ t.wroteHeaders = s.wroteHeaders /\ t.status = s.status
        /\ t.header = s.header /\ t.statusFilter = s.statusFilter
    BY <1>1 DEF IsSaver
  <1> QED
    BY <1>2, <1>3 DEF PartWritten, IsSaver, t, w

(**************************** What is recorded ****************************)

Labels == {"sent", "body", "recorded", "aborted", "refused", "stored", "validated"}

(* The fields that decide about storing are those of the origin's header,    *)
(* unless the trailer has them too.                                          *)
DecidedByHeader ==
  \A n \in {"Cache-Control", "Expires"} :
    Values(response.trailer, n) = <<>> => Values(saver.header, n) = Values(response.header, n)

(* The saver has the origin's answer as far as it has arrived; a body that   *)
(* broke off ends a client's exchange; and what writeCache has decided was   *)
(* decided about this answer.                                                *)
Recorded ==
  /\ exchange \in Exchanges /\ pc \in Labels /\ parts \in Nat
  /\ IsSaver(saver)
  /\ IsFields(saver.header)
  /\ pc = "sent" => /\ parts = 0 /\ saver.header = NoFields
                    /\ ~hinted => saver.b = <<>>
  /\ pc # "sent" => /\ saver.wroteHeaders /\ saver.status = response.status
                    /\ response.status \in 200..599 /\ IsFields(response.header)
                    /\ ~hinted => saver.b = Log(MessageHead(response.status, response.header), parts)
                    /\ DecidedByHeader
  /\ pc = "body" => IsFields(response.trailer)
  /\ parts > 0 => HasBody
  /\ pc = "stored" => row = saver.b
  /\ pc = "refused" => Refused
  /\ Mode = "proxy" /\ ~whole => pc = "aborted"

(* A fresh saver has recorded nothing. *)
LEMMA InitRecorded == Init => Recorded
  <1> SUFFICES ASSUME Init PROVE Recorded
    OBVIOUS
  <1>1. exchange.mode \in {"proxy", "validate", "background"}
    BY RecordingAssumption DEF Init
  <1>2. /\ IsSaver(saver) /\ saver.header = NoFields /\ saver.b = <<>>
    BY <1>1 DEF Init, SaverFor, NewResponseSaver, NewWriter, IsSaver, IsWriter
  <1> QED
    BY <1>2, NoFieldsAreFields DEF Init, Recorded, Labels, Mode

(* The fields of a response with its trailers announced. *)
LEMMA ResponseFields ==
  ASSUME NEW r \in Responses
  PROVE  /\ r.status \in 200..599 /\ IsFields(r.trailer)
         /\ IsFields(copyHeader(r.header, Announce(r.trailer)))
         /\ copyHeader(NoFields, copyHeader(r.header, Announce(r.trailer)))
              = copyHeader(r.header, Announce(r.trailer))
         /\ {"status", "header", "trailer"} \subseteq DOMAIN r
  <1>1. /\ IsFields(r.header) /\ IsFields(r.trailer) /\ r.status \in 200..599
        /\ {"status", "header", "trailer"} \subseteq DOMAIN r
    BY RecordingAssumption
  <1>2. IsFields(Announce(r.trailer))
    BY AnnouncedFields
  <1>3. IsFields(copyHeader(r.header, Announce(r.trailer)))
    BY <1>1, <1>2, Copied
  <1> QED
    BY <1>1, <1>3, Copied

(* Every step of the exchange keeps the record. *)
LEMMA NextRecorded ==
  ASSUME Recorded, [Next]_recordingVars
  PROVE  Recorded'
  <1>0. /\ IsSaver(saver) /\ exchange.mode \in {"proxy", "validate", "background"}
        /\ pc \in Labels /\ parts \in Nat
    BY RecordingAssumption DEF Recorded
  <1>1. CASE EarlyHints
    <2>1. PICK h \in Hints :
            saver' = [WriteHeader([saver EXCEPT !.header = copyHeader(saver.header, h)], 103)
                        EXCEPT !.header = NoFields]
      BY <1>1 DEF EarlyHints
    <2> DEFINE s == [saver EXCEPT !.header = copyHeader(saver.header, h)]
               t == WriteHeader(s, 103)
    <2>2. IsSaver(s)
      BY <1>0 DEF IsSaver
    <2>3. IsSaver(t)
      <3>1. HeadWritten(s, 103, t)
        BY <2>2, HeaderWritten
      <3> QED
        BY <3>1 DEF HeadWritten
    <2>4. saver' = [t EXCEPT !.header = NoFields]
      BY <2>1
    <2> HIDE DEF t
    <2>5. IsSaver(saver') /\ saver'.header = NoFields
      BY <2>3, <2>4 DEF IsSaver
    <2> QED
      BY <1>1, <2>5, NoFieldsAreFields DEF EarlyHints, Recorded, Labels, Mode, Method, HasBody
  <1>2. CASE HeadArrives
    <2>1. PICK r \in Responses :
            LET header == copyHeader(r.header, Announce(r.trailer))
            IN /\ response' = [r EXCEPT !.header = header]
               /\ saver' = WriteHeader([saver EXCEPT !.header = copyHeader(saver.header, header)],
                                       r.status)
      BY <1>2 DEF HeadArrives
    <2> DEFINE header == copyHeader(r.header, Announce(r.trailer))
               s == [saver EXCEPT !.header = header]
    <2>2. /\ r.status \in 200..599 /\ IsFields(r.trailer) /\ IsFields(header)
          /\ copyHeader(NoFields, header) = header
          /\ {"status", "header", "trailer"} \subseteq DOMAIN r
      BY ResponseFields
    <2>3. saver.header = NoFields /\ (~hinted => saver.b = <<>>) /\ parts = 0
      BY <1>2 DEF HeadArrives, Recorded
    <2>4. /\ response' = [r EXCEPT !.header = header]
          /\ saver' = WriteHeader(s, r.status)
      BY <2>1, <2>2, <2>3
    <2> HIDE DEF header
    <2>5. /\ response'.status = r.status /\ response'.trailer = r.trailer
          /\ response'.header = header
      BY <2>2, <2>4
    <2>6. IsSaver(s) /\ s.header = header /\ s.b = saver.b
      BY <1>0 DEF IsSaver
    <2> HIDE DEF s
    <2>7. /\ IsSaver(saver') /\ saver'.wroteHeaders = TRUE /\ saver'.status = r.status
          /\ saver'.header = header
          /\ saver'.b = Append(saver.b, MessageHead(r.status, header))
      <3>1. HeadWritten(s, r.status, saver')
        BY <2>4, <2>6, HeaderWritten
      <3> QED
        BY <2>6, <3>1 DEF HeadWritten
    <2>8. ~hinted => saver'.b = Log(MessageHead(r.status, header), 0)
      BY <2>3, <2>7, LogGrows
    <2>9. parts' = 0 /\ hinted' = hinted /\ pc = "sent" /\ pc' = "body"
          /\ exchange' = exchange /\ whole' = whole
      BY <1>2, <2>3 DEF HeadArrives
    <2>10. DecidedByHeader'
      BY <2>5, <2>7 DEF DecidedByHeader
    <2> QED
      BY <1>0, <2>2, <2>5, <2>7, <2>8, <2>9, <2>10 DEF Recorded, Labels, Mode
  <1>3. CASE Unreachable
    <2>1. /\ response' = [status |-> 502, header |-> NoFields, trailer |-> NoFields]
          /\ saver' = WriteHeader(saver, 502)
          /\ saver.header = NoFields /\ (~hinted => saver.b = <<>>)
      BY <1>3 DEF Unreachable, Recorded
    <2>2. /\ IsSaver(saver') /\ saver'.wroteHeaders = TRUE /\ saver'.status = 502
          /\ saver'.header = NoFields
          /\ saver'.b = Append(saver.b, MessageHead(502, NoFields))
      <3>1. HeadWritten(saver, 502, saver')
        BY <1>0, <2>1, HeaderWritten
      <3> QED
        BY <2>1, <3>1 DEF HeadWritten
    <2>3. ~hinted => saver'.b = Log(MessageHead(502, NoFields), 0)
      <3>1. Log(MessageHead(502, NoFields), 0) = Append(<<>>, MessageHead(502, NoFields))
        BY LogGrows
      <3> QED
        BY <2>1, <2>2, <3>1
    <2>4. parts' = 0 /\ hinted' = hinted /\ pc = "sent" /\ pc' = "recorded"
          /\ exchange' = exchange /\ whole' = whole
      BY <1>3 DEF Unreachable, Recorded
    <2>5. response'.status = 502 /\ response'.header = NoFields
      BY <2>1
    <2>6. DecidedByHeader'
      BY <2>2, <2>5 DEF DecidedByHeader
    <2> QED
      BY <1>0, <2>2, <2>3, <2>4, <2>5, <2>6, NoFieldsAreFields DEF Recorded, Labels, Mode
  <1>4. CASE BodyPart
    <2>1. /\ pc = "body" /\ pc' = "body" /\ HasBody /\ parts' = parts + 1
          /\ saver' = Write(saver, parts + 1) /\ saver.wroteHeaders
          /\ UNCHANGED <<exchange, response, hinted, whole>>
      BY <1>4 DEF BodyPart, Recorded
    <2>2. /\ IsSaver(saver') /\ saver'.wroteHeaders /\ saver'.status = saver.status
          /\ saver'.header = saver.header
          /\ saver'.b = Append(saver.b, Part(parts + 1))
      BY <1>0, <2>1, DataWritten DEF PartWritten
    <2>3. ~hinted => saver'.b = Log(MessageHead(response.status, response.header), parts + 1)
      BY <1>0, <2>1, <2>2, LogGrows DEF Recorded
    <2>4. HasBody'
      BY <2>1 DEF HasBody, Method
    <2>5. DecidedByHeader'
      BY <2>1, <2>2 DEF DecidedByHeader, Recorded
    <2> QED
      BY <1>0, <2>1, <2>2, <2>3, <2>4, <2>5 DEF Recorded, Labels, Mode
  <1>5. CASE BodyEnds
    <2>1. /\ pc = "body" /\ pc' = "recorded"
          /\ saver' = [saver EXCEPT !.header = copyHeader(saver.header, response.trailer)]
          /\ UNCHANGED <<exchange, response, parts, hinted, whole>>
      BY <1>5 DEF BodyEnds
    <2>2. IsFields(copyHeader(saver.header, response.trailer))
      BY <2>1, Copied DEF Recorded
    <2>3. /\ IsSaver(saver') /\ saver'.wroteHeaders = saver.wroteHeaders
          /\ saver'.status = saver.status /\ saver'.b = saver.b
          /\ saver'.header = copyHeader(saver.header, response.trailer)
      BY <1>0, <2>1 DEF IsSaver
    <2>4. DecidedByHeader'
      <3> SUFFICES ASSUME NEW n \in {"Cache-Control", "Expires"},
                          Values(response.trailer, n) = <<>>
                   PROVE  Values(saver'.header, n) = Values(response.header, n)
        BY <2>1 DEF DecidedByHeader
      <3>1. IsFields(saver.header) /\ IsFields(response.trailer)
        BY <2>1 DEF Recorded
      <3>2. Values(saver.header, n) = Values(response.header, n)
        BY <2>1 DEF Recorded, DecidedByHeader
      <3> QED
        BY <2>3, <3>1, <3>2, CopiedBeside
    <2> QED
      BY <1>0, <2>1, <2>2, <2>3, <2>4 DEF Recorded, Labels, Mode, HasBody, Method
  <1>6. CASE BreaksOff
    BY <1>6 DEF BreaksOff, Recorded, Labels, Mode, HasBody, Method, DecidedByHeader
  <1>7. CASE writeCache
    BY <1>7 DEF writeCache, Recorded, Labels, Mode, HasBody, Method, Refused, DecidedByHeader
  <1>8. CASE sendStoredResponse
    <2>1. PICK w : saver' = [saver EXCEPT !.w = w] /\ IsWriter(w)
      <3> DEFINE header == copyHeader(copyHeader(saver.w.header, StoredPage.header), CacheStatus("hit"))
                 v == [saver.w EXCEPT !.header = header]
                 begun == SendHead(v, StoredPage.status)
      <3>1. IsWriter(v)
        BY <1>0 DEF IsSaver, IsWriter
      <3>2. IsWriter(begun)
        BY <3>1, HeadSent
      <3>3. IsWriter(SendPart(begun, StoredPage.body))
        BY <3>2, PartSent
      <3> QED
        BY <1>8, <3>3 DEF sendStoredResponse
    <2>2. /\ IsSaver(saver') /\ saver'.header = saver.header /\ saver'.b = saver.b
          /\ saver'.status = saver.status /\ saver'.wroteHeaders = saver.wroteHeaders
      BY <1>0, <2>1 DEF IsSaver
    <2> QED
      BY <1>8, <2>2 DEF sendStoredResponse, Recorded, Labels, Mode, HasBody, Method, DecidedByHeader
  <1>9. CASE UNCHANGED recordingVars
    BY <1>9 DEF recordingVars, Recorded, Mode, HasBody, Method, Refused, DecidedByHeader
  <1> QED
    BY <1>1, <1>2, <1>3, <1>4, <1>5, <1>6, <1>7, <1>8, <1>9 DEF Next, Over

(* Every exchange keeps its record. *)
LEMMA RecordKept == Spec => []Recorded
  BY InitRecorded, NextRecorded, PTL DEF Spec

(* What writeCache has put into the database reads back as the origin's      *)
(* status, fields and body, for any fields, trailers and number of parts,    *)
(* and a client's body that broke off is never stored.                       *)
THEOREM StoredReadsBack == Spec => []StoredIsWhatWasSent
  <1>1. Recorded => StoredIsWhatWasSent
    <2> SUFFICES ASSUME Recorded, pc = "stored", ~hinted
                 PROVE  /\ ReadResponse(row, Method) =
                             [status |-> response.status, header |-> response.header,
                              body |-> Received]
                        /\ Mode = "proxy" => whole
      BY DEF StoredIsWhatWasSent
    <2> DEFINE head == MessageHead(response.status, response.header)
    <2>1. row = Log(head, parts) /\ parts \in Nat
      BY DEF Recorded
    <2>2. row[1] = head /\ Tail(row) = Parts(parts)
      <3>1. Tail(Log(head, parts)) = Parts(parts)
        BY <2>1, LogGrows
      <3>2. Log(head, parts)[1] = head
        BY <2>1 DEF Log
      <3> QED
        BY <2>1, <3>1, <3>2
    <2>3. head.status = response.status /\ head.header = response.header
      BY DEF MessageHead
    <2>4. ~HasBody => Parts(parts) = <<>>
      <3> SUFFICES ASSUME ~HasBody PROVE Parts(parts) = <<>>
        OBVIOUS
      <3>1. parts = 0
        BY <2>1 DEF Recorded
      <3> QED
        BY <3>1 DEF Parts
    <2>5. ReadResponse(row, Method) =
            [status |-> response.status, header |-> response.header,
             body |-> IF HasBody THEN Parts(parts) ELSE <<>>]
      BY <2>2, <2>3 DEF ReadResponse, HasBody
    <2> QED
      BY <2>4, <2>5 DEF Recorded, Received, Parts
  <1> QED
    BY <1>1, RecordKept, PTL

(* A response without any field means nothing by its Cache-Control. *)
LEMMA NothingMeant == Meant(Values(NoFields, "Cache-Control")) = NoDirectives
  <1>1. Values(NoFields, "Cache-Control") = <<>>
    BY DEF Values, NoFields
  <1>2. DOMAIN <<>> = {}
    OBVIOUS
  <1>3. \A d \in Directives : Meant(<<>>)[d] = Absent
    BY <1>2 DEF Meant
  <1>4. Meant(<<>>) = [d \in Directives |-> Meant(<<>>)[d]]
    BY DEF Meant
  <1> QED
    BY <1>1, <1>3, <1>4 DEF NoDirectives

(* Whatever well-separated Cache-Control lines and requests there are,       *)
(* writeCache refuses no response that the rule of section 3 allows to store *)
(* by the header the origin sent, unless a trailer repeats a deciding field. *)
THEOREM RefusalsAreDue == Spec => []RefusedOnlyWhenForbidden
  <1>1. Recorded => RefusedOnlyWhenForbidden
    <2> DEFINE lines == Values(response.header, "Cache-Control")
               expires == Values(response.header, "Expires")
               meant == [HeaderOf(response.header) EXCEPT !.cc = Meant(lines)]
    <2> SUFFICES ASSUME Recorded, pc = "refused", WellSeparated(lines), ~Overruled
                 PROVE  ~RuleAllowsStoring(exchange.request, response.status, meant)
      BY DEF RefusedOnlyWhenForbidden, AllowedAsMeant
    <2>1. /\ Refused /\ lines \in CacheControlLines /\ saver.status = response.status
          /\ Values(saver.header, "Cache-Control") = lines
          /\ Values(saver.header, "Expires") = expires
      BY DEF Recorded, IsFields, DecidedByHeader, Overruled
    <2>2. /\ meant.cc = Meant(lines)
          /\ meant.expires = IF expires = <<>> THEN "absent" ELSE expires[1]
      <3>1. Values(NoFields, "Expires") = <<>>
        BY DEF Values, NoFields
      <3> QED
        BY <3>1 DEF HeaderOf, EmptyHeader
    <2>3. CASE saver.header = NoFields
      <3>1. lines = <<>> /\ expires = <<>> /\ Meant(lines) = NoDirectives
        BY <2>1, <2>3, NothingMeant DEF Values, NoFields
      <3>2. meant.cc = NoDirectives /\ meant.expires = "absent"
        BY <2>2, <3>1
      <3> QED
        BY <3>2 DEF RuleAllowsStoring, HasDirective, NoDirectives, Directives
    <2>4. CASE saver.header # NoFields
      <3>1. /\ HeaderOf(saver.header).cc = Meant(lines)
            /\ HeaderOf(saver.header).other = TRUE
            /\ HeaderOf(saver.header).expires = IF expires = <<>> THEN "absent" ELSE expires[1]
        BY <2>1, <2>4, ParsedAsMeant DEF HeaderOf, EmptyHeader
      <3>2. mustNotStore(exchange.request, saver.status, HeaderOf(saver.header))
        BY <2>1, <3>1 DEF Refused, MustNotStore, EmptyHeader
      <3> HIDE DEF meant, lines, expires
      <3> QED
        BY <2>1, <2>2, <3>1, <3>2 DEF mustNotStore, RuleAllowsStoring
    <2> QED
      BY <2>3, <2>4
  <1> QED
    BY <1>1, RecordKept, PTL

(************************* What the client is sent ************************)

(* No final status has been sent yet: the client's writer has only interim   *)
(* heads, and in its header only what is added to an answer.                 *)
IsInterim(head) == head.kind = "head" /\ head.status \in 100..199
Interim(out) == IsSequence(out) /\ \A i \in DOMAIN out : IsInterim(out[i])

Waiting ==
  /\ Interim(saver.w.out)
  /\ IsFields(saver.w.header) /\ DOMAIN saver.w.header \subseteq Added

(* The head k of an answer is the client's head of the origin's response. *)
HeadAt(out, k) ==
  /\ k \in DOMAIN out /\ \A i \in 1..(k - 1) : IsInterim(out[i])
  /\ out[k].kind = "head" /\ out[k].status = response.status
  /\ \A n \in DOMAIN response.header \ Added :
       Values(out[k].header, n) = response.header[n]
  /\ Preserves(Values(out[k].header, "Cache-Status"), Values(response.header, "Cache-Status"))

(* The origin's head has been passed on, and so has every part. *)
Passing ==
  /\ IsSequence(saver.w.out)
  /\ \E k \in DOMAIN saver.w.out :
       /\ HeadAt(saver.w.out, k)
       /\ Len(saver.w.out) = k + parts
       /\ \A i \in 1..parts : saver.w.out[k + i] = Part(i)

(* Nothing goes to the client of a background fetch, nor of an answer that   *)
(* is held back; otherwise the client has what the saver has.                *)
Passed ==
  /\ saver.statusFilter = IF Mode = "validate" THEN 304 ELSE 0
  /\ Mode = "background" => ~saver.rw /\ saver.w.out = <<>>
  /\ Mode # "background" /\ pc # "validated" =>
       /\ saver.rw <=> pc = "sent" \/ Mode = "proxy" \/ response.status # 304
       /\ IF pc = "sent" \/ ~saver.rw THEN Waiting ELSE Passing
  /\ pc \in {"refused", "stored"} => ~Validated
  /\ pc = "validated" => Validated /\ OneAnswer

(* Appending to a sequence, position by position. *)
LEMMA Appended ==
  ASSUME NEW s, IsSequence(s), NEW x
  PROVE  /\ IsSequence(Append(s, x))
         /\ Len(s) \in Nat /\ DOMAIN s = 1..Len(s)
         /\ Len(Append(s, x)) = Len(s) + 1 /\ DOMAIN Append(s, x) = 1..(Len(s) + 1)
         /\ \A i \in 1..Len(s) : Append(s, x)[i] = s[i]
         /\ Append(s, x)[Len(s) + 1] = x
  <1> DEFINE S == {s[i] : i \in DOMAIN s} \cup {x}
  <1>1. s \in Seq({s[i] : i \in DOMAIN s})
    BY DEF IsSequence
  <1>2. s \in Seq(S) /\ x \in S
    BY <1>1, SeqMonotonic
  <1> HIDE DEF S
  <1>3. /\ Append(s, x) \in Seq(S) /\ Len(Append(s, x)) = Len(s) + 1
        /\ \A i \in 1..(Len(s) + 1) : Append(s, x)[i] = IF i <= Len(s) THEN s[i] ELSE x
    BY <1>2, AppendProperties
  <1>4. /\ Len(s) \in Nat /\ DOMAIN s = 1..Len(s)
        /\ DOMAIN Append(s, x) = 1..(Len(s) + 1)
    BY <1>2, <1>3, LenProperties
  <1>5. IsSequence(Append(s, x))
    BY <1>3, Sequence
  <1>6. /\ \A i \in 1..Len(s) : Append(s, x)[i] = s[i]
        /\ Append(s, x)[Len(s) + 1] = x
    BY <1>3, <1>4
  <1> QED
    BY <1>3, <1>4, <1>5, <1>6

(* What follows the last but one. *)
LEMMA LastOnly ==
  ASSUME NEW s, IsSequence(s), NEW k \in Nat, Len(s) = k + 1
  PROVE  SubSeq(s, k + 1, Len(s)) = <<s[k + 1]>>
  <1> DEFINE last == SubSeq(s, k + 1, k + 1)
             S == {s[k + 1]}
  <1>1. \A i \in (k + 1)..(k + 1) : s[i] \in S
    OBVIOUS
  <1>2. k + 1 \in Int /\ s[k + 1] \in S
    OBVIOUS
  <1> HIDE DEF S
  <1>3. last \in Seq(S) /\ Len(last) = 1 /\ last[1] = s[k + 1]
    <2>1. /\ last \in Seq(S)
          /\ Len(last) = IF k + 1 <= k + 1 THEN (k + 1) - (k + 1) + 1 ELSE 0
          /\ \A i \in 1..((k + 1) - (k + 1) + 1) : last[i] = s[(k + 1) + i - 1]
      BY <1>1, <1>2, SubSeqProperties
    <2>2. /\ (k + 1) - (k + 1) + 1 = 1 /\ (k + 1) + 1 - 1 = k + 1 /\ 1 \in 1..1
          /\ k + 1 <= k + 1
      OBVIOUS
    <2> HIDE DEF last
    <2>3. last[1] = s[(k + 1) + 1 - 1]
      BY <2>1, <2>2, Zenon
    <2>4. Len(last) = (k + 1) - (k + 1) + 1
      BY <2>1, <2>2, Zenon
    <2>5. last[1] = s[k + 1] /\ Len(last) = 1
      BY <2>2, <2>3, <2>4, Zenon
    <2> QED
      BY <2>1, <2>5, Zenon
  <1> HIDE DEF last
  <1>4. last = <<s[k + 1]>>
    BY <1>2, <1>3
  <1> QED
    BY <1>4 DEF last

(* What follows the head of an answer, if it is n parts. *)
LEMMA RestIs ==
  ASSUME NEW s, IsSequence(s), NEW k \in DOMAIN s, NEW n \in Nat, Len(s) = k + n,
         \A i \in 1..n : s[k + i] = Part(i)
  PROVE  SubSeq(s, k + 1, Len(s)) = Parts(n)
  <1> DEFINE S == {Part(i) : i \in Nat}
             rest == SubSeq(s, k + 1, k + n)
  <1>1. k \in Nat
    <2>1. s \in Seq({s[i] : i \in DOMAIN s})
      BY DEF IsSequence
    <2>2. DOMAIN s = 1..Len(s) /\ Len(s) \in Nat
      BY <2>1, LenProperties
    <2> QED
      BY <2>2
  <1>2. \A i \in (k + 1)..(k + n) : s[i] \in S
    <2> SUFFICES ASSUME NEW i \in (k + 1)..(k + n) PROVE s[i] \in S
      OBVIOUS
    <2>1. i - k \in 1..n /\ i = k + (i - k)
      BY <1>1
    <2>2. s[i] = Part(i - k)
      BY <2>1
    <2> QED
      BY <2>1, <2>2
  <1>3. Parts(n) \in Seq(S) /\ Len(Parts(n)) = n /\ \A i \in 1..n : Parts(n)[i] = Part(i)
    <2>1. Parts(n) \in [1..n -> S]
      BY DEF Parts
    <2> HIDE DEF S
    <2>2. Parts(n) \in Seq(S) /\ DOMAIN Parts(n) = 1..n
      BY <2>1, SeqDef
    <2>3. Len(Parts(n)) = n
      BY <2>2, LenProperties
    <2> QED
      BY <2>2, <2>3 DEF Parts
  <1> HIDE DEF S
  <1>4. /\ rest \in Seq(S)
        /\ Len(rest) = IF k + 1 <= k + n THEN (k + n) - (k + 1) + 1 ELSE 0
        /\ \A i \in 1..((k + n) - (k + 1) + 1) : rest[i] = s[(k + 1) + i - 1]
    <2>1. k + 1 \in Int /\ k + n \in Int
      BY <1>1
    <2> QED
      BY <1>2, <2>1, SubSeqProperties
  <1> HIDE DEF rest
  <1>5. Len(rest) = n /\ \A i \in 1..n : rest[i] = Part(i)
    <2>1. (k + n) - (k + 1) + 1 = n /\ \A i \in 1..n : (k + 1) + i - 1 = k + i
      BY <1>1
    <2>2. Len(rest) = n
      BY <1>1, <1>4
    <2>3. ASSUME NEW i \in 1..n PROVE rest[i] = Part(i)
      <3>1. rest[i] = s[(k + 1) + i - 1]
        BY <1>4, <2>1
      <3> QED
        BY <2>1, <3>1
    <2> QED
      BY <2>2, <2>3
  <1>6. rest = Parts(n)
    BY <1>3, <1>4, <1>5, SeqEqual
  <1> QED
    BY <1>6 DEF rest

(* Interim heads do not keep the final one out. *)
LEMMA InterimIsNotFinal ==
  ASSUME NEW out, Interim(out)
  PROVE  ~IsFinal(out)
  BY DEF Interim, IsInterim, IsFinal

(* Members are preserved when lines are put before and after them. *)
LEMMA StillThere ==
  ASSUME NEW a, NEW b, NEW c, IsSequence(a), IsSequence(b), IsSequence(c)
  PROVE  Preserves(a \o b, b) /\ Preserves((a \o b) \o c, b)
  <1> DEFINE s == a \o b
             t == s \o c
  <1>1. /\ IsSequence(s) /\ Len(a) \in Nat /\ Len(b) \in Nat /\ DOMAIN b = 1..Len(b)
        /\ Len(s) = Len(a) + Len(b)
        /\ \A j \in 1..Len(b) : s[Len(a) + j] = b[j]
    BY Joined
  <1> HIDE DEF s
  <1>2. /\ Len(c) \in Nat /\ Len(t) = Len(s) + Len(c)
        /\ \A i \in 1..Len(s) : t[i] = s[i]
    BY <1>1, Joined
  <1> HIDE DEF t
  <1>3. \A j \in 1..Len(b) : Len(a) + j \in 1..Len(s)
    BY <1>1
  <1>4. Len(a) \in 0..(Len(s) - Len(b)) /\ Len(a) \in 0..(Len(t) - Len(b))
    BY <1>1, <1>2
  <1>5. Preserves(s, b)
    BY <1>1, <1>4 DEF Preserves
  <1>6. Preserves(t, b)
    BY <1>1, <1>2, <1>3, <1>4 DEF Preserves
  <1> QED
    BY <1>5, <1>6 DEF s, t

(* Fields the writer does not have are copied as they are. *)
LEMMA CopiedAsIs ==
  ASSUME NEW a, NEW b, IsFields(a), IsFields(b), NEW n \in DOMAIN b, n \notin DOMAIN a
  PROVE  Values(copyHeader(a, b), n) = b[n]
  <1>1. Values(copyHeader(a, b), n) = <<>> \o b[n] /\ IsSequence(b[n])
    BY Copied DEF Values, IsFields
  <1> QED
    BY <1>1, Joined

(* The writer of a new exchange waits. *)
LEMMA InitPassed == Init => Passed
  <1> SUFFICES ASSUME Init PROVE Passed
    OBVIOUS
  <1>0. exchange.mode \in {"proxy", "validate", "background"}
    BY RecordingAssumption DEF Init
  <1>1. /\ saver.statusFilter = IF Mode = "validate" THEN 304 ELSE 0
        /\ saver.rw <=> Mode # "background"
        /\ saver.w.out = <<>>
        /\ saver.w.header = IF Mode = "proxy" THEN CacheStatus("fwd") ELSE NoFields
    BY <1>0 DEF Init, SaverFor, NewResponseSaver, NewWriter, Mode
  <1>2. Interim(saver.w.out)
    BY <1>1, NothingIsSequence DEF Interim
  <1>3. /\ IsFields(CacheStatus("fwd")) /\ DOMAIN CacheStatus("fwd") = {"Cache-Status"}
    BY MarkedFields
  <1>4. DOMAIN NoFields = {} /\ IsFields(NoFields)
    BY NoFieldsAreFields DEF NoFields
  <1>5. Waiting
    BY <1>1, <1>2, <1>3, <1>4 DEF Waiting, Added, Init
  <1> QED
    BY <1>1, <1>5 DEF Init, Passed

(* A step that neither writes to the client nor changes the answer. *)
LEMMA PassedStays ==
  ASSUME Passed, UNCHANGED <<exchange, response, parts, hinted>>,
         saver'.w = saver.w, saver'.rw = saver.rw, saver'.statusFilter = saver.statusFilter,
         pc = "sent" <=> pc' = "sent", pc # "validated", pc' # "validated",
         pc' \in {"refused", "stored"} => ~Validated'
  PROVE  Passed'
  <1>1. Mode' = Mode /\ Added' = Added
    BY DEF Mode, Added
  <1>2. Waiting' <=> Waiting
    BY <1>1 DEF Waiting
  <1>3. \A out, k : HeadAt(out, k)' <=> HeadAt(out, k)
    BY <1>1 DEF HeadAt
  <1>4. Passing' <=> Passing
    BY <1>3 DEF Passing, HeadAt, Mode, Added
  <1> QED
    BY <1>1, <1>2, <1>4 DEF Passed

(* The head of a final answer is passed on or held back. *)
LEMMA HeadPassed ==
  ASSUME Recorded, Passed, pc = "sent",
         NEW s, IsSaver(s), s.rw = saver.rw, s.w = saver.w,
         s.statusFilter = saver.statusFilter, IsFields(s.header),
         NEW code \in 200..599, saver' = WriteHeader(s, code),
         response'.status = code, response'.header = s.header,
         parts' = 0, pc' \in {"body", "recorded"}, UNCHANGED <<exchange, hinted>>
  PROVE  Passed'
  <1>1. HeadWritten(s, code, saver')
    BY HeaderWritten
  <1>2. /\ saver'.rw <=> saver.rw /\ code # saver.statusFilter
        /\ saver'.statusFilter = saver.statusFilter
        /\ saver'.w = IF saver'.rw THEN SendHead(AddFields(saver.w, s.header), code) ELSE saver.w
    BY <1>1 DEF HeadWritten
  <1>3. Mode' = Mode /\ Added' = Added /\ Mode \in {"proxy", "validate", "background"}
    BY RecordingAssumption DEF Mode, Added, Recorded
  <1>4. CASE Mode = "background"
    BY <1>2, <1>3, <1>4 DEF Passed
  <1>5. CASE Mode # "background"
    <2>1. Waiting /\ saver.rw
      BY <1>5 DEF Passed
    <2>2. saver'.rw <=> Mode = "proxy" \/ code # 304
      BY <1>2, <1>3, <1>5, <2>1 DEF Passed
    <2>3. CASE ~saver'.rw
      <3>1. saver'.w = saver.w
        BY <1>2, <2>3
      <3>2. Waiting'
        BY <1>3, <2>1, <3>1 DEF Waiting
      <3> QED
        BY <1>2, <1>3, <1>5, <2>2, <2>3, <3>2 DEF Passed
    <2>4. CASE saver'.rw
      <3> DEFINE out == saver.w.out
                 header == copyHeader(saver.w.header, s.header)
                 head == MessageHead(code, header)
                 k == Len(out) + 1
      <3>1. /\ IsWriter(AddFields(saver.w, s.header))
            /\ AddFields(saver.w, s.header).out = out
            /\ AddFields(saver.w, s.header).header = header
        BY FieldsAdded DEF Recorded, IsSaver
      <3>2. ~IsFinal(out) /\ IsSequence(out) /\ \A i \in DOMAIN out : IsInterim(out[i])
        BY <2>1, InterimIsNotFinal DEF Waiting, Interim
      <3>3. saver'.w.out = Append(out, head)
        <4>1. saver'.w = SendHead(AddFields(saver.w, s.header), code)
          BY <1>2, <2>4
        <4>2. SendHead(AddFields(saver.w, s.header), code).out
                = IF IsFinal(AddFields(saver.w, s.header).out)
                  THEN AddFields(saver.w, s.header).out
                  ELSE Append(AddFields(saver.w, s.header).out,
                              MessageHead(code, AddFields(saver.w, s.header).header))
          BY <3>1, HeadSent
        <4> QED
          BY <3>1, <3>2, <4>1, <4>2
      <3>4. /\ IsSequence(Append(out, head)) /\ Len(out) \in Nat /\ DOMAIN out = 1..Len(out)
            /\ Len(Append(out, head)) = k /\ DOMAIN Append(out, head) = 1..k
            /\ \A i \in 1..Len(out) : Append(out, head)[i] = out[i]
            /\ Append(out, head)[k] = head
        BY <3>2, Appended
      <3>5. head.kind = "head" /\ head.status = code /\ head.header = header
        BY DEF MessageHead
      <3>6. IsFields(saver.w.header) /\ DOMAIN saver.w.header \subseteq Added
        BY <2>1 DEF Waiting
      <3>7. \A n \in DOMAIN s.header \ Added : Values(header, n) = s.header[n]
        BY <3>6, CopiedAsIs
      <3>8. Preserves(Values(header, "Cache-Status"), Values(s.header, "Cache-Status"))
        <4>1. /\ IsSequence(Values(saver.w.header, "Cache-Status"))
              /\ IsSequence(Values(s.header, "Cache-Status"))
              /\ Values(header, "Cache-Status")
                   = Values(saver.w.header, "Cache-Status") \o Values(s.header, "Cache-Status")
          BY <3>6, Copied
        <4> QED
          BY <4>1, StillThere
      <3>9. k \in 1..k /\ \A i \in 1..(k - 1) : IsInterim(Append(out, head)[i])
        BY <3>2, <3>4
      <3> HIDE DEF out, header, head, k
      <3>10. ASSUME NEW o, o = Append(out, head), NEW j, j = k
             PROVE  HeadAt(o, j)'
        BY <1>3, <3>4, <3>5, <3>7, <3>8, <3>9, <3>10 DEF HeadAt
      <3>11. Passing'
        <4>1. PICK o : o = saver'.w.out
          OBVIOUS
        <4>2. PICK j : j = k
          OBVIOUS
        <4>3. HeadAt(o, j)' /\ IsSequence(o) /\ j \in DOMAIN o /\ Len(o) = j
          BY <3>3, <3>4, <3>9, <3>10, <4>1, <4>2
        <4>4. HeadAt(saver.w.out, j)'
          BY <4>1, <4>3 DEF HeadAt
        <4>5. j \in Nat
          BY <3>4, <4>2 DEF k
        <4> QED
          BY <4>1, <4>3, <4>4, <4>5 DEF Passing
      <3> QED
        BY <1>2, <1>3, <1>5, <2>2, <2>4, <3>11 DEF Passed
    <2> QED
      BY <2>3, <2>4
  <1> QED
    BY <1>4, <1>5

(* A part of the body follows what has been passed on. *)
LEMMA PartPassed ==
  ASSUME Recorded, Passed, BodyPart
  PROVE  Passed'
  <1>1. /\ pc = "body" /\ pc' = "body" /\ HasBody /\ parts' = parts + 1 /\ parts \in Nat
        /\ saver' = Write(saver, parts + 1) /\ saver.wroteHeaders /\ IsSaver(saver)
        /\ UNCHANGED <<exchange, response, hinted>>
    BY DEF BodyPart, Recorded
  <1>2. PartWritten(saver, parts + 1, saver')
    BY <1>1, DataWritten
  <1>3. /\ saver'.rw = saver.rw /\ saver'.statusFilter = saver.statusFilter
        /\ saver'.w = IF saver.rw THEN SendPart(saver.w, parts + 1) ELSE saver.w
    BY <1>2 DEF PartWritten
  <1>4. Mode' = Mode /\ Added' = Added
    BY <1>1 DEF Mode, Added
  <1>5. CASE Mode = "background"
    BY <1>1, <1>3, <1>4, <1>5 DEF Passed
  <1>6. CASE Mode # "background"
    <2>1. response.status # 304 /\ response.status \in 200..599
      BY <1>1 DEF HasBody, BodyAllowed, Recorded
    <2>2. saver.rw /\ Passing
      BY <1>1, <1>6, <2>1 DEF Passed
    <2> DEFINE out == saver.w.out
               next == Append(out, Part(parts + 1))
    <2>3. PICK k \in DOMAIN out : /\ HeadAt(out, k) /\ Len(out) = k + parts
                                  /\ \A i \in 1..parts : out[k + i] = Part(i)
      BY <2>2 DEF Passing
    <2>4. IsFinal(out)
      <3>1. out[k].kind = "head" /\ out[k].status = response.status
        BY <2>3 DEF HeadAt
      <3>2. out[k].status >= 200
        BY <2>1, <3>1
      <3> QED
        BY <2>3, <3>1, <3>2 DEF IsFinal
    <2>5. saver'.w.out = next
      BY <1>1, <1>3, <2>2, <2>4, PartSent DEF IsSaver
    <2>6. /\ IsSequence(next) /\ Len(out) \in Nat /\ DOMAIN out = 1..Len(out)
          /\ Len(next) = Len(out) + 1 /\ DOMAIN next = 1..(Len(out) + 1)
          /\ \A i \in 1..Len(out) : next[i] = out[i]
          /\ next[Len(out) + 1] = Part(parts + 1)
      <3>1. IsSequence(out)
        BY <2>2 DEF Passing
      <3> QED
        BY <3>1, Appended
    <2> HIDE DEF next, out
    <2>7. /\ k \in DOMAIN next /\ Len(next) = k + (parts + 1) /\ next[k] = out[k]
          /\ \A i \in 1..(k - 1) : next[i] = out[i]
      BY <1>1, <2>3, <2>6
    <2>8. \A i \in 1..(parts + 1) : next[k + i] = Part(i)
      <3> SUFFICES ASSUME NEW i \in 1..(parts + 1) PROVE next[k + i] = Part(i)
        OBVIOUS
      <3>1. CASE i = parts + 1
        BY <1>1, <2>3, <2>6, <3>1
      <3>2. CASE i # parts + 1
        <4>1. i \in 1..parts /\ k + i \in 1..Len(out)
          BY <1>1, <2>3, <2>6, <3>2
        <4> QED
          BY <2>3, <2>6, <4>1
      <3> QED
        BY <3>1, <3>2
    <2>9. HeadAt(saver.w.out, k)'
      BY <1>1, <1>4, <2>3, <2>5, <2>7 DEF HeadAt, out
    <2>10. Passing'
      BY <1>1, <2>5, <2>6, <2>7, <2>8, <2>9 DEF Passing
    <2> QED
      BY <1>1, <1>3, <1>4, <1>6, <2>1, <2>2, <2>10 DEF Passed
  <1> QED
    BY <1>5, <1>6

(* The stored page goes to the client after interim heads only. *)
LEMMA PagePassed ==
  ASSUME Recorded, Passed, sendStoredResponse
  PROVE  Passed'
  <1> DEFINE w == saver.w
             page == copyHeader(w.header, StoredPage.header)
             header == copyHeader(page, CacheStatus("hit"))
             v == [w EXCEPT !.header = header]
             head == MessageHead(StoredPage.status, header)
             out == w.out
             next == Append(Append(out, head), Part(StoredPage.body))
             k == Len(out) + 1
  <1>1. /\ pc = "recorded" /\ pc' = "validated" /\ Validated
        /\ saver' = [saver EXCEPT !.w = SendPart(SendHead(v, StoredPage.status), StoredPage.body)]
        /\ UNCHANGED <<exchange, response, parts, hinted>>
    BY DEF sendStoredResponse
  <1>2. /\ Mode = "validate" /\ saver.status = 304 /\ response.status = 304
        /\ IsSaver(saver) /\ IsWriter(w)
    BY <1>1 DEF Validated, Recorded, IsSaver
  <1>3. ~saver.rw /\ Waiting
    BY <1>1, <1>2 DEF Passed
  <1>4. /\ IsWriter(v) /\ v.out = out /\ v.header = header
    BY <1>2 DEF IsWriter
  <1>5. /\ Interim(out) /\ ~IsFinal(out) /\ IsSequence(out)
        /\ IsFields(w.header) /\ DOMAIN w.header \subseteq Added
    BY <1>3, InterimIsNotFinal DEF Waiting, Interim
  <1>6. StoredPage.status \in 200..599 /\ IsFields(StoredPage.header)
    BY RecordingAssumption
  <1>7. /\ IsSequence(Append(out, head)) /\ Len(out) \in Nat /\ DOMAIN out = 1..Len(out)
        /\ Len(Append(out, head)) = k /\ DOMAIN Append(out, head) = 1..k
        /\ \A i \in 1..Len(out) : Append(out, head)[i] = out[i]
        /\ Append(out, head)[k] = head
    BY <1>5, Appended
  <1>8. /\ head.kind = "head" /\ head.status = StoredPage.status /\ head.header = header
    BY DEF MessageHead
  <1> HIDE DEF header, v
  <1>9. /\ IsWriter(SendHead(v, StoredPage.status))
        /\ SendHead(v, StoredPage.status).out = Append(out, head)
    BY <1>4, <1>5, HeadSent
  <1> HIDE DEF head, out, k
  <1>10. IsFinal(Append(out, head))
    <2>1. k \in DOMAIN Append(out, head)
      BY <1>7 DEF k
    <2>2. head.status >= 200
      BY <1>6, <1>8
    <2> QED
      BY <1>7, <1>8, <2>1, <2>2 DEF IsFinal
  <1>11. /\ saver'.w.out = next /\ saver'.rw = saver.rw
         /\ saver'.statusFilter = saver.statusFilter /\ saver'.status = saver.status
    <2>1. SendPart(SendHead(v, StoredPage.status), StoredPage.body).out = next
      <3> DEFINE begun == SendHead(v, StoredPage.status)
      <3>1. IsWriter(begun) /\ IsFinal(begun.out) /\ begun.out = Append(out, head)
        BY <1>9, <1>10
      <3> HIDE DEF begun
      <3>2. SendPart(begun, StoredPage.body).out = Append(begun.out, Part(StoredPage.body))
        BY <3>1, PartSent
      <3> QED
        BY <3>1, <3>2 DEF begun
    <2> QED
      BY <1>1, <1>2, <2>1 DEF IsSaver
  <1>12. /\ IsSequence(next) /\ Len(next) = k + 1 /\ DOMAIN next = 1..(k + 1)
         /\ \A i \in 1..k : next[i] = Append(out, head)[i]
         /\ next[k + 1] = Part(StoredPage.body)
    BY <1>7, Appended
  <1> HIDE DEF next
  <1>13. /\ k \in DOMAIN next /\ next[k] = head
         /\ \A i \in 1..(k - 1) : next[i] = out[i] /\ IsInterim(out[i])
    BY <1>5, <1>7, <1>12 DEF Interim
  <1>14. SubSeq(next, k + 1, Len(next)) = <<Part(StoredPage.body)>>
    BY <1>7, <1>12, LastOnly DEF k
  <1>15. \A n \in DOMAIN StoredPage.header \ Added : Values(header, n) = StoredPage.header[n]
    <2> SUFFICES ASSUME NEW n \in DOMAIN StoredPage.header, n \notin Added
                 PROVE  Values(header, n) = StoredPage.header[n]
      OBVIOUS
    <2>1. Values(page, n) = StoredPage.header[n]
      BY <1>5, <1>6, CopiedAsIs
    <2>2. IsFields(page) /\ IsSequence(StoredPage.header[n])
      BY <1>5, <1>6, Copied DEF IsFields
    <2>3. Values(CacheStatus("hit"), n) = <<>> /\ IsFields(CacheStatus("hit"))
      BY MarkedFields DEF Values, Added
    <2> HIDE DEF page
    <2>4. Values(header, n) = Values(page, n) \o Values(CacheStatus("hit"), n)
      BY <2>2, <2>3, Copied DEF header
    <2> QED
      BY <2>1, <2>2, <2>3, <2>4, Joined
  <1>16. Preserves(Values(header, "Cache-Status"), Values(StoredPage.header, "Cache-Status"))
    <2> DEFINE mine == Values(w.header, "Cache-Status")
               members == Values(StoredPage.header, "Cache-Status")
    <2>1. /\ IsFields(page) /\ IsFields(CacheStatus("hit"))
          /\ Values(page, "Cache-Status") = mine \o members
          /\ IsSequence(mine) /\ IsSequence(members)
      BY <1>5, <1>6, Copied, MarkedFields
    <2> HIDE DEF page, mine, members
    <2>2. /\ Values(CacheStatus("hit"), "Cache-Status") = <<"hit">>
          /\ IsSequence(Values(CacheStatus("hit"), "Cache-Status"))
          /\ Values(header, "Cache-Status")
               = Values(page, "Cache-Status") \o Values(CacheStatus("hit"), "Cache-Status")
      <3>1. Values(CacheStatus("hit"), "Cache-Status") = <<"hit">>
        BY MarkedFields
      <3>2. /\ IsSequence(Values(CacheStatus("hit"), "Cache-Status"))
            /\ Values(header, "Cache-Status")
                 = Values(page, "Cache-Status") \o Values(CacheStatus("hit"), "Cache-Status")
        BY <2>1, Copied DEF header
      <3> QED
        BY <3>1, <3>2
    <2>3. Preserves(Values(header, "Cache-Status"), members)
      BY <2>1, <2>2, StillThere
    <2> QED
      BY <2>3 DEF members
  <1>17. OneAnswer'
    <2>1. pc' = "validated" /\ Mode' = "validate" /\ Added' = Added
      BY <1>1, <1>2 DEF Mode, Added
    <2>2. \A i \in 1..(k - 1) : next[i].kind = "head" /\ next[i].status < 200
      BY <1>13 DEF IsInterim
    <2>3. \E j \in DOMAIN next :
            /\ \A i \in 1..(j - 1) : next[i].kind = "head" /\ next[i].status < 200
            /\ next[j].kind = "head" /\ next[j].status = StoredPage.status
            /\ \A n \in DOMAIN StoredPage.header \ Added :
                 Values(next[j].header, n) = StoredPage.header[n]
            /\ SubSeq(next, j + 1, Len(next)) = <<Part(StoredPage.body)>>
            /\ Preserves(Values(next[j].header, "Cache-Status"),
                         Values(StoredPage.header, "Cache-Status"))
      BY <1>8, <1>13, <1>14, <1>15, <1>16, <2>2
    <2> QED
      BY <1>11, <2>1, <2>3 DEF OneAnswer
  <1> QED
    BY <1>1, <1>2, <1>11, <1>17 DEF Passed, Validated, Mode

(* Every step of the exchange keeps the client's writer in line. *)
LEMMA NextPassed ==
  ASSUME Recorded, Passed, [Next]_recordingVars
  PROVE  Passed'
  <1>0. IsSaver(saver) /\ Mode \in {"proxy", "validate", "background"}
    BY RecordingAssumption DEF Recorded, Mode
  <1>1. CASE EarlyHints
    <2>1. PICK h \in Hints :
            saver' = [WriteHeader([saver EXCEPT !.header = copyHeader(saver.header, h)], 103)
                        EXCEPT !.header = NoFields]
      BY <1>1 DEF EarlyHints
    <2> DEFINE s == [saver EXCEPT !.header = h]
               t == WriteHeader(s, 103)
    <2>2. IsFields(h) /\ saver.header = NoFields /\ copyHeader(NoFields, h) = h
      <3>1. IsFields(h)
        BY RecordingAssumption
      <3> QED
        BY <1>1, <3>1, Copied DEF EarlyHints, Recorded
    <2>3. /\ IsSaver(s) /\ s.rw = saver.rw /\ s.w = saver.w
          /\ s.statusFilter = saver.statusFilter /\ s.header = h
      BY <1>0 DEF IsSaver
    <2>4. saver' = [t EXCEPT !.header = NoFields]
      BY <2>1, <2>2
    <2> HIDE DEF s
    <2>5. HeadWritten(s, 103, t)
      BY <2>3, HeaderWritten
    <2> HIDE DEF t
    <2>6. /\ saver'.rw = t.rw /\ saver'.statusFilter = t.statusFilter /\ saver'.w = t.w
      BY <2>4, <2>5 DEF HeadWritten, IsSaver
    <2>7. /\ saver'.rw <=> saver.rw /\ 103 # saver.statusFilter
          /\ saver'.statusFilter = saver.statusFilter
          /\ saver'.w = IF saver'.rw THEN SendHead(AddFields(saver.w, h), 103) ELSE saver.w
      BY <2>3, <2>5, <2>6 DEF HeadWritten
    <2>8. /\ pc = "sent" /\ pc' = "sent" /\ exchange' = exchange /\ Mode' = Mode
          /\ hinted' = TRUE
      BY <1>1 DEF EarlyHints, Mode
    <2>9. CASE Mode = "background"
      BY <2>7, <2>8, <2>9 DEF Passed
    <2>10. CASE Mode # "background"
      <3> DEFINE out == saver.w.out
                 header == copyHeader(saver.w.header, h)
                 head == MessageHead(103, header)
      <3>1. Waiting /\ saver.rw /\ saver'.rw
        BY <2>7, <2>8, <2>10 DEF Passed
      <3>2. /\ IsFields(saver.w.header) /\ DOMAIN saver.w.header \subseteq Added
            /\ Interim(out) /\ ~IsFinal(out) /\ IsSequence(out)
        BY <3>1, InterimIsNotFinal DEF Waiting, Interim
      <3>3. /\ IsWriter(AddFields(saver.w, h)) /\ AddFields(saver.w, h).out = out
            /\ AddFields(saver.w, h).header = header
        BY <1>0, FieldsAdded DEF IsSaver
      <3>4. saver'.w.out = Append(out, head) /\ saver'.w.header = header
        <4>1. saver'.w = SendHead(AddFields(saver.w, h), 103)
          BY <2>7, <3>1
        <4>2. /\ SendHead(AddFields(saver.w, h), 103).header = AddFields(saver.w, h).header
              /\ SendHead(AddFields(saver.w, h), 103).out
                   = IF IsFinal(AddFields(saver.w, h).out) THEN AddFields(saver.w, h).out
                     ELSE Append(AddFields(saver.w, h).out,
                                 MessageHead(103, AddFields(saver.w, h).header))
          BY <3>3, HeadSent
        <4> QED
          BY <3>2, <3>3, <4>1, <4>2
      <3>5. IsInterim(head)
        BY DEF IsInterim, MessageHead
      <3> HIDE DEF head, out
      <3>6. Interim(Append(out, head))
        <4>1. /\ IsSequence(Append(out, head)) /\ Len(out) \in Nat /\ DOMAIN out = 1..Len(out)
              /\ DOMAIN Append(out, head) = 1..(Len(out) + 1)
              /\ \A i \in 1..Len(out) : Append(out, head)[i] = out[i]
              /\ Append(out, head)[Len(out) + 1] = head
          BY <3>2, Appended
        <4>2. ASSUME NEW i \in 1..(Len(out) + 1)
              PROVE  IsInterim(Append(out, head)[i])
          <5>1. CASE i = Len(out) + 1
            BY <3>5, <4>1, <5>1
          <5>2. CASE i # Len(out) + 1
            <6>1. i \in 1..Len(out)
              BY <4>1, <5>2
            <6> QED
              BY <3>2, <4>1, <6>1 DEF Interim
          <5> QED
            BY <5>1, <5>2
        <4> QED
          BY <4>1, <4>2 DEF Interim
      <3>7. IsFields(header) /\ DOMAIN header = DOMAIN saver.w.header \cup DOMAIN h
        <4>1. IsFields(header)
          BY <2>2, <3>2, Copied
        <4>2. DOMAIN header = DOMAIN saver.w.header \cup DOMAIN h
          BY DEF copyHeader
        <4> QED
          BY <4>1, <4>2
      <3>8. DOMAIN header \subseteq Added'
        <4>1. Added' = {"Cache-Status"} \cup UNION {DOMAIN g : g \in Hints}
          BY <2>8 DEF Added
        <4>2. Added \subseteq Added'
          BY <4>1 DEF Added
        <4>3. DOMAIN h \in {DOMAIN g : g \in Hints}
          OBVIOUS
        <4>4. DOMAIN h \subseteq UNION {DOMAIN g : g \in Hints}
          BY <4>3
        <4> QED
          BY <3>2, <3>7, <4>1, <4>2, <4>4
      <3> HIDE DEF header
      <3>9. Waiting'
        BY <2>8, <3>4, <3>6, <3>7, <3>8 DEF Waiting
      <3> QED
        BY <2>7, <2>8, <2>10, <3>1, <3>9 DEF Passed
    <2> QED
      BY <2>9, <2>10
  <1>2. CASE HeadArrives
    <2>1. PICK r \in Responses :
            LET header == copyHeader(r.header, Announce(r.trailer))
            IN /\ response' = [r EXCEPT !.header = header]
               /\ saver' = WriteHeader([saver EXCEPT !.header = copyHeader(saver.header, header)],
                                       r.status)
      BY <1>2 DEF HeadArrives
    <2> DEFINE header == copyHeader(r.header, Announce(r.trailer))
               s == [saver EXCEPT !.header = header]
    <2>2. /\ r.status \in 200..599 /\ IsFields(header)
          /\ copyHeader(NoFields, header) = header
          /\ {"status", "header", "trailer"} \subseteq DOMAIN r
      BY ResponseFields
    <2>3. /\ saver.header = NoFields /\ parts' = 0 /\ pc = "sent" /\ pc' = "body"
          /\ UNCHANGED <<exchange, hinted>>
      BY <1>2 DEF HeadArrives, Recorded
    <2>4. /\ response' = [r EXCEPT !.header = header]
          /\ saver' = WriteHeader(s, r.status)
      BY <2>1, <2>2, <2>3
    <2> HIDE DEF header
    <2>5. response'.status = r.status /\ response'.header = header
      BY <2>2, <2>4
    <2>6. /\ IsSaver(s) /\ s.header = header /\ s.rw = saver.rw /\ s.w = saver.w
          /\ s.statusFilter = saver.statusFilter
      BY <1>0 DEF IsSaver
    <2> HIDE DEF s
    <2> QED
      BY <2>2, <2>3, <2>4, <2>5, <2>6, HeadPassed
  <1>3. CASE Unreachable
    <2>1. /\ response' = [status |-> 502, header |-> NoFields, trailer |-> NoFields]
          /\ saver' = WriteHeader(saver, 502) /\ saver.header = NoFields
          /\ parts' = 0 /\ pc = "sent" /\ pc' = "recorded" /\ UNCHANGED <<exchange, hinted>>
      BY <1>3 DEF Unreachable, Recorded
    <2>2. /\ response'.status = 502 /\ response'.header = saver.header
          /\ 502 \in 200..599 /\ IsFields(saver.header)
      BY <2>1, NoFieldsAreFields
    <2> QED
      BY <1>0, <2>1, <2>2, HeadPassed
  <1>4. CASE BodyPart
    BY <1>4, PartPassed
  <1>5. CASE BodyEnds
    <2>1. /\ pc = "body" /\ pc' = "recorded"
          /\ saver' = [saver EXCEPT !.header = copyHeader(saver.header, response.trailer)]
          /\ UNCHANGED <<exchange, response, parts, hinted>>
      BY <1>5 DEF BodyEnds
    <2>2. /\ saver'.w = saver.w /\ saver'.rw = saver.rw
          /\ saver'.statusFilter = saver.statusFilter
      BY <1>0, <2>1 DEF IsSaver
    <2> QED
      BY <2>1, <2>2, PassedStays
  <1>6. CASE BreaksOff
    <2>1. /\ pc = "body" /\ pc' \in {"aborted", "recorded"}
          /\ UNCHANGED <<exchange, saver, response, parts, hinted>>
      BY <1>6 DEF BreaksOff
    <2> QED
      BY <2>1, PassedStays
  <1>7. CASE writeCache
    <2>1. /\ pc = "recorded" /\ pc' \in {"refused", "stored"} /\ ~Validated
          /\ UNCHANGED <<exchange, saver, response, parts, hinted>>
      BY <1>7 DEF writeCache
    <2>2. ~Validated'
      BY <2>1 DEF Validated, Mode
    <2> QED
      BY <2>1, <2>2, PassedStays
  <1>8. CASE sendStoredResponse
    BY <1>8, PagePassed
  <1>9. CASE UNCHANGED recordingVars
    <2>1. /\ Mode' = Mode /\ Added' = Added /\ UNCHANGED <<pc, saver, response, parts, hinted>>
          /\ Validated' <=> Validated
      BY <1>9 DEF recordingVars, Mode, Added, Validated
    <2>2. (Waiting' <=> Waiting) /\ (Passing' <=> Passing)
      BY <2>1 DEF Waiting, Passing, HeadAt
    <2>3. OneAnswer' <=> OneAnswer
      BY <2>1 DEF OneAnswer, Received
    <2> QED
      BY <2>1, <2>2, <2>3 DEF Passed
  <1> QED
    BY <1>1, <1>2, <1>3, <1>4, <1>5, <1>6, <1>7, <1>8, <1>9 DEF Next, Over

(* For any fields, trailers, interim responses and number of parts, a client *)
(* is sent exactly one final answer: the stored page if the origin has       *)
(* confirmed it, with nothing of the 304, and otherwise all of the origin's. *)
THEOREM ClientGetsOneAnswer == Spec => []OneAnswer
  <1>1. Recorded /\ Passed => OneAnswer
    <2> SUFFICES ASSUME Recorded, Passed, pc \in {"stored", "refused"}
                 PROVE  OneAnswer
      BY DEF OneAnswer, Passed
    <2>1. CASE Mode = "background"
      BY <2>1 DEF OneAnswer, Passed
    <2>2. CASE Mode # "background"
      <3>1. Mode = "proxy" \/ response.status # 304
        BY <2>2, RecordingAssumption DEF Passed, Validated, Recorded, Mode
      <3>2. Passing /\ parts \in Nat
        BY <2>2, <3>1 DEF Passed, Recorded
      <3> DEFINE out == saver.w.out
      <3>3. PICK k \in DOMAIN out : /\ HeadAt(out, k) /\ Len(out) = k + parts
                                    /\ \A i \in 1..parts : out[k + i] = Part(i)
        BY <3>2 DEF Passing
      <3>4. SubSeq(out, k + 1, Len(out)) = Received
        BY <3>2, <3>3, RestIs DEF Passing, Received, Parts
      <3>5. \A i \in 1..(k - 1) : out[i].kind = "head" /\ out[i].status < 200
        <4>1. \A i \in 1..(k - 1) : IsInterim(out[i])
          BY <3>3 DEF HeadAt
        <4>2. \A x : IsInterim(x) => x.kind = "head" /\ x.status < 200
          BY DEF IsInterim
        <4> QED
          BY <4>1, <4>2, Zenon
      <3>6. /\ out[k].kind = "head" /\ out[k].status = response.status
            /\ \A n \in DOMAIN response.header \ Added :
                 Values(out[k].header, n) = response.header[n]
            /\ Preserves(Values(out[k].header, "Cache-Status"),
                         Values(response.header, "Cache-Status"))
        BY <3>3 DEF HeadAt
      <3> QED
        BY <2>2, <3>3, <3>4, <3>5, <3>6 DEF OneAnswer
    <2> QED
      BY <2>1, <2>2
  <1>2. Spec => []Passed
    BY InitPassed, NextPassed, RecordKept, PTL DEF Spec
  <1> QED
    BY <1>1, <1>2, RecordKept, PTL
=============================================================================
