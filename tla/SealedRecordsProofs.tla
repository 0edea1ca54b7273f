------------------------ MODULE SealedRecordsProofs -------------------------
(***************************************************************************)
(* Proofs about the two records that a CRC seals, and that are judged by a *)
(* reader who has nothing else: the retained crash record (CrashRecord)    *)
(* and the identity block of an image (ImageBuild).  Both are written in   *)
(* steps that may be cut off anywhere.  For any reset causes, exceptions,  *)
(* losses of power and width of the sequence number, a record that         *)
(* validates is the one committed last, and evidence survives every        *)
(* undisturbed boot; for any sources, versions and number of builds, files *)
(* that verify are one image, of the build and the revision they name.     *)
(***************************************************************************)
EXTENDS SealedRecords, SequenceTheorems, TLAPS
-----------------------------------------------------------------------------
Covered == {"sequence", "reset_cause", "reason"}

Values(f) ==
  IF f = "sequence" THEN Sequence ELSE IF f = "reset_cause" THEN Cause \cup {0}
  ELSE Codes \cup {0}

(* The three groups of stores that the two fences of lib_crash_commit      *)
(* separate: the covered fields are stored while the magic word is cleared,*)
(* then version and CRC, then the magic word.                              *)
Clearing(g) ==
  /\ g = [f \in Fields |-> g[f]]
  /\ g["magic"] \in {<< >>, <<0>>}
  /\ g["format"] \in {<< >>, <<0>>}
  /\ g["crc"] \in {<< >>, << << >> >>}
  /\ \A f \in Covered :
       \/ g[f] = << >>
       \/ \E x \in Values(f) : g[f] = <<x>> \/ g[f] = <<0, x>>

Sealing(content) ==
  [f \in Fields |-> IF f = "format" THEN <<VersionSize>>
                    ELSE IF f = "crc" THEN <<content>> ELSE << >>]

Closing == [f \in Fields |-> IF f = "magic" THEN <<Magic>> ELSE << >>]

(* What a covered field of r will hold when the stores t are done, and the *)
(* content that the record will then have.                                 *)
Final(t, r, f) ==
  IF Len(t) = 3 /\ t[1][f] # << >> THEN t[1][f][Len(t[1][f])] ELSE r[f]

Target(t, r) ==
  <<VersionSize, Final(t, r, "sequence"), Final(t, r, "reset_cause"),
    Final(t, r, "reason")>>

RecordOK(r) ==
  /\ r = [f \in Fields |-> r[f]]
  /\ r["magic"] \in {0, Magic, Junk}
  /\ r["format"] \in {0, VersionSize, Junk}
  /\ r["sequence"] \in Sequence \cup {Junk}
  /\ r["reset_cause"] \in Cause \cup {0, Junk}
  /\ r["reason"] \in Codes \cup {0, Junk}
  /\ r["crc"] \in Content \cup {<< >>, Junk}

(* A record is believed only when its CRC is that of the last commit or    *)
(* has been spoilt since.                                                  *)
Believed(r) == r["magic"] = Magic => r["crc"] \in {committed, << >>, Junk}

Fresh(t, r) ==
  /\ t = <<t[1], Sealing(Target(t, r)), Closing>>
  /\ Clearing(t[1])
  /\ t[1]["magic"] = << >> => r["magic"] = 0
  /\ \A f \in Covered : Final(t, r, f) \in Values(f)

Sealed(t, r) ==
  /\ t = <<t[1], Closing>>
  /\ t[1] = [f \in Fields |-> t[1][f]]
  /\ \A f \in Fields \ {"format", "crc"} : t[1][f] = << >>
  /\ \/ t[1]["format"] = << >> /\ r["format"] = VersionSize
     \/ t[1]["format"] = <<VersionSize>>
  /\ \/ t[1]["crc"] = << >> /\ r["crc"] = Target(t, r)
     \/ t[1]["crc"] = <<Target(t, r)>>
  /\ r["magic"] = 0
  /\ \A f \in Covered : Final(t, r, f) \in Values(f)

Closed(t, r) ==
  /\ t = <<Closing>>
  /\ r["format"] = VersionSize /\ r["crc"] = Target(t, r)
  /\ r["magic"] = 0
  /\ \A f \in Covered : Final(t, r, f) \in Values(f)

StageOf(t, r) == Closed(t, r) \/ Sealed(t, r) \/ Fresh(t, r)

Stages == todo = << >> \/ StageOf(todo, record)

(* What has been undisturbed so far will be the evidence. *)
Evidence ==
  intact =>
    IF todo = << >>
    THEN IsValid(record) /\ record["sequence"] = captures /\ record["reason"] = reason
    ELSE /\ Final(todo, record, "sequence") =
              (IF mode = "capture" THEN (captures + 1) % SeqModulus ELSE captures)
         /\ mode # "capture" => Final(todo, record, "reason") = reason

Control ==
  /\ mode \in {"boot", "run", "capture"}
  /\ level \in {0} \cup Level
  /\ (mode = "capture") = (level > 0)
  /\ committed \in Content \cup {<< >>}
  /\ intact \in BOOLEAN
  /\ captures \in Sequence

(* The inductive invariant. *)
CrashInv ==
  Control /\ RecordOK(record) /\ Believed(record) /\ Stages /\ Evidence
-----------------------------------------------------------------------------
(* The constants. *)
LEMMA Constants ==
  /\ SeqModulus \in Nat \ {0} /\ Sequence = 0 .. SeqModulus - 1 /\ 0 \in Sequence
  /\ Junk \notin Cause \cup {0, Magic} /\ Magic = 1 /\ VersionSize = 1
  BY CrashAssumption DEF Sequence, Magic, VersionSize

LEMMA ValuesOf ==
  /\ Covered = {"sequence", "reset_cause", "reason"}
  /\ Values("sequence") = Sequence
  /\ Values("reset_cause") = Cause \cup {0}
  /\ Values("reason") = Codes \cup {0}
  BY DEF Covered, Values

(* Every reason code a handler stores is one that lib_crash_is_valid takes. *)
LEMMA CodesValid == \A code \in Codes \cup {0} : ReasonCodeValid(code)
  BY CrashAssumption DEF Codes, Reason, ReasonCodeValid

(* A record that validates holds a content. *)
LEMMA ValidContent ==
  ASSUME NEW r, RecordOK(r), IsValid(r)
  PROVE  /\ r["crc"] = <<VersionSize, r["sequence"], r["reset_cause"], r["reason"]>>
         /\ r["crc"] \in Content /\ r["crc"] # Junk /\ r["crc"] # << >>
         /\ \A f \in Covered : r[f] \in Values(f)
  <1>1. /\ r["crc"] = <<VersionSize, r["sequence"], r["reset_cause"], r["reason"]>>
        /\ r["format"] = VersionSize /\ r["magic"] = Magic
    BY DEF IsValid, Protected
  <1>2. r["crc"] \in {VersionSize} \X (Sequence \cup {Junk}) \X (Cause \cup {0, Junk})
                       \X (Codes \cup {0, Junk})
    <2>1. /\ r["sequence"] \in Sequence \cup {Junk}
          /\ r["reset_cause"] \in Cause \cup {0, Junk}
          /\ r["reason"] \in Codes \cup {0, Junk}
      BY DEF RecordOK
    <2>2. \A A, B, C : \A a \in A, b \in B, c \in C :
            <<VersionSize, a, b, c>> \in {VersionSize} \X A \X B \X C
      OBVIOUS
    <2> QED BY <1>1, <2>1, <2>2
  <1>3. r["crc"] # Junk
    BY <1>2, CrashAssumption
  <1>4. r["crc"] # << >>
    BY <1>1
  <1>5. r["crc"] \in Content
    BY <1>3, <1>4 DEF RecordOK
  <1>6. r["sequence"] \in Sequence /\ r["reset_cause"] \in Cause \cup {0}
        /\ r["reason"] \in Codes \cup {0}
    BY <1>1, <1>5 DEF Content
  <1> QED BY <1>1, <1>3, <1>4, <1>5, <1>6 DEF Covered, Values

LEMMA ContentOf ==
  ASSUME NEW s \in Sequence, NEW c \in Cause \cup {0}, NEW w \in Codes \cup {0}
  PROVE  <<VersionSize, s, c, w>> \in Content
  BY DEF Content

(* lib_crash_commit, group by group. *)
LEMMA CommitGroups ==
  ASSUME NEW before, NEW r
  PROVE  Commit(before, r) =
           <<[before EXCEPT !["magic"] = <<0>>],
             Sealing(Protected([r EXCEPT !.format = VersionSize])), Closing>>
  BY DEF Commit, Sealing, Closing

(* The stores `before` leave the covered fields of r as in `final`, and    *)
(* then t are the stores of the commit that does so.                       *)
Leaves(before, r, final) ==
  /\ before = [f \in Fields |-> before[f]] /\ final = [f \in Fields |-> final[f]]
  /\ Clearing([before EXCEPT !["magic"] = <<0>>])
  /\ \A f \in Covered : final[f] \in Values(f)
  /\ \A f \in Covered :
       final[f] = IF before[f] # << >> THEN before[f][Len(before[f])] ELSE r[f]

Commits(t, r, final) ==
  /\ Fresh(t, r) /\ t # << >>
  /\ \A f \in Covered : Final(t, r, f) = final[f]

LEMMA FreshCommit ==
  ASSUME NEW r, NEW before, NEW final, Leaves(before, r, final)
  PROVE  Commits(Commit(before, final), r, final)
  <1> DEFINE t == Commit(before, final)
             h == [before EXCEPT !["magic"] = <<0>>]
             content == Protected([final EXCEPT !.format = VersionSize])
  <1>1. t = <<h, Sealing(content), Closing>>
    BY CommitGroups
  <1>2. /\ h["magic"] = <<0>>
        /\ \A f \in Covered : h[f] = before[f]
    BY DEF Covered, Fields, Leaves
  <1>3. content = <<VersionSize, final["sequence"], final["reset_cause"], final["reason"]>>
    BY DEF Protected, Fields, Leaves
  <1>h. Clearing(h)
    BY DEF Leaves
  <1> HIDE DEF t, h, content
  <1>4. t[1] = h /\ Len(t) = 3 /\ t # << >>
    BY <1>1
  <1>5. \A f \in Covered : Final(t, r, f) = final[f]
    BY <1>2, <1>4 DEF Final, Leaves
  <1>6. Target(t, r) = content
    BY <1>3, <1>5 DEF Target, Covered
  <1>7. <<0>> # << >>
    OBVIOUS
  <1>8. \A f \in Covered : Final(t, r, f) \in Values(f)
    BY <1>5 DEF Leaves
  <1>9. Fresh(t, r)
    BY <1>1, <1>2, <1>4, <1>6, <1>7, <1>8, <1>h DEF Fresh
  <1> QED BY <1>4, <1>5, <1>9 DEF t, Commits

(* What lib_crash_note_boot stores, whatever it finds in SRAM. *)
LEMMA NoteBootStores ==
  ASSUME NEW r, RecordOK(r), NEW cause \in Cause
  PROVE  LET t == NoteBoot(r, cause)
         IN  /\ Fresh(t, r) /\ t # << >>
             /\ IsValid(r) => /\ Final(t, r, "sequence") = r["sequence"]
                              /\ Final(t, r, "reason") = r["reason"]
  <1> DEFINE t == NoteBoot(r, cause)
  <1>c. 0 \in Sequence
    BY Constants
  <1>1. CASE IsValid(r)
    <2> DEFINE g == [f \in Fields |-> IF f = "reset_cause" THEN <<cause>> ELSE << >>]
               final == [r EXCEPT !.reset_cause = cause]
    <2>1. t = Commit(g, final)
      BY <1>1 DEF NoteBoot
    <2>2. Clearing([g EXCEPT !["magic"] = <<0>>])
      BY DEF Clearing, Fields, Covered, Values
    <2>3. /\ final = [f \in Fields |-> final[f]] /\ g = [f \in Fields |-> g[f]]
          /\ final["reset_cause"] = cause
          /\ final["sequence"] = r["sequence"] /\ final["reason"] = r["reason"]
      BY DEF RecordOK, Fields
    <2>4. \A f \in Covered : final[f] \in Values(f)
      <3>1. \A f \in Covered : r[f] \in Values(f)
        BY <1>1, ValidContent
      <3> QED BY <2>3, <3>1, ValuesOf
    <2>5. \A f \in Covered :
            final[f] = IF g[f] # << >> THEN g[f][Len(g[f])] ELSE r[f]
      BY <2>3 DEF Covered, Fields
    <2> HIDE DEF t, g, final
    <2>6. Leaves(g, r, final)
      BY <2>2, <2>3, <2>4, <2>5 DEF Leaves
    <2>7. Commits(t, r, final)
      BY <2>1, <2>6, FreshCommit
    <2> QED BY <2>3, <2>7 DEF Covered, t, Commits
  <1>2. CASE ~ IsValid(r)
    <2> DEFINE g == [Clear EXCEPT !["reset_cause"] = <<0, cause>>]
               final == [Cleared EXCEPT !.reset_cause = cause]
    <2>1. t = Commit(g, final)
      BY <1>2 DEF NoteBoot
    <2>2. Clearing([g EXCEPT !["magic"] = <<0>>])
      BY <1>c DEF Clearing, Fields, Covered, Values, Clear, Cleared
    <2>3. /\ final = [f \in Fields |-> final[f]] /\ g = [f \in Fields |-> g[f]]
          /\ final["reset_cause"] = cause
          /\ final["sequence"] = 0 /\ final["reason"] = 0
      BY DEF Cleared, Clear, Fields
    <2>4. \A f \in Covered : final[f] \in Values(f)
      BY <1>c, <2>3, ValuesOf
    <2>5. \A f \in Covered :
            final[f] = IF g[f] # << >> THEN g[f][Len(g[f])] ELSE r[f]
      BY <2>3 DEF Covered, Fields, Clear, Cleared
    <2> HIDE DEF t, g, final
    <2>6. Leaves(g, r, final)
      BY <2>2, <2>3, <2>4, <2>5 DEF Leaves
    <2>7. Commits(t, r, final)
      BY <2>1, <2>6, FreshCommit
    <2> QED BY <1>2, <2>7 DEF t, Commits
  <1> QED BY <1>1, <1>2

(* What lib_crash_capture stores. *)
LEMMA CaptureStores ==
  ASSUME RecordOK(record), NEW why \in Codes
  PROVE  LET t == Capture(why)
         IN  /\ Fresh(t, record) /\ t # << >>
             /\ IsValid(record) =>
                  Final(t, record, "sequence") = (record["sequence"] + 1) % SeqModulus
  <1> DEFINE t == Capture(why)
             sequence == IF IsValid(record) THEN record["sequence"] ELSE 0
             cause == IF IsValid(record) THEN record["reset_cause"] ELSE 0
             next == (sequence + 1) % SeqModulus
             final == [Cleared EXCEPT !.sequence = next, !.reset_cause = cause,
                                      !.reason = why]
             g == [f \in Fields |->
                     IF f \in {"sequence", "reset_cause", "reason"}
                     THEN Append(Clear[f], final[f]) ELSE Clear[f]]
  <1>1. sequence \in Sequence /\ cause \in Cause \cup {0}
    BY Constants, ValidContent DEF Covered, Values
  <1>2. next \in Sequence
    BY <1>1, Constants
  <1>3. t = Commit(g, final)
    BY DEF Capture
  <1> HIDE DEF sequence, cause, next
  <1>4. /\ final = [f \in Fields |-> final[f]]
        /\ final["sequence"] = next /\ final["reset_cause"] = cause
        /\ final["reason"] = why
    BY DEF Cleared, Fields
  <1> HIDE DEF final
  <1>5. /\ g = [f \in Fields |-> g[f]]
        /\ g["magic"] = <<0>> /\ g["format"] = <<0>> /\ g["crc"] = << << >> >>
        /\ \A f \in Covered : g[f] = <<0, final[f]>>
    <2>1. /\ Clear["magic"] = <<0>> /\ Clear["format"] = <<0>>
          /\ Clear["crc"] = << << >> >>
          /\ Clear["sequence"] = <<0>> /\ Clear["reset_cause"] = <<0>>
          /\ Clear["reason"] = <<0>>
      BY DEF Clear, Cleared, Fields
    <2>2. \A x : Append(<<0>>, x) = <<0, x>>
      <3> TAKE x
      <3> DEFINE S == {0, x}
      <3>1. <<0>> \in Seq(S) /\ x \in S /\ <<0, x>> \in Seq(S)
        OBVIOUS
      <3>2. /\ Append(<<0>>, x) \in Seq(S) /\ Len(Append(<<0>>, x)) = 2
            /\ Append(<<0>>, x)[1] = 0 /\ Append(<<0>>, x)[2] = x
        BY <3>1, AppendProperties
      <3> DEFINE p == Append(<<0>>, x)
                 q == <<0, x>>
      <3>3. /\ p \in Seq(S) /\ q \in Seq(S) /\ Len(p) = Len(q)
            /\ \A i \in 1 .. Len(p) : p[i] = q[i]
        <4>1. Len(q) = 2 /\ q[1] = 0 /\ q[2] = x
          OBVIOUS
        <4>2. \A i \in 1 .. 2 : i = 1 \/ i = 2
          OBVIOUS
        <4> HIDE DEF q
        <4>3. Len(p) = 2 /\ p[1] = 0 /\ p[2] = x
          BY <3>2
        <4> HIDE DEF p
        <4>4. \A i \in 1 .. 2 : p[i] = q[i]
          BY <4>1, <4>2, <4>3
        <4> QED BY <3>1, <3>2, <4>1, <4>3, <4>4 DEF p, q
      <3> HIDE DEF p, q, S
      <3>4. p = q
        BY <3>3, SeqEqual
      <3> QED BY <3>4 DEF p, q
    <2>3. \A f \in Covered : Clear[f] = <<0>> /\ g[f] = Append(Clear[f], final[f])
      BY <2>1 DEF Covered, Fields
    <2> QED BY <2>1, <2>2, <2>3 DEF Fields, Covered
  <1> HIDE DEF g
  <1>6. \A f \in Covered : final[f] \in Values(f)
    BY <1>1, <1>2, <1>4 DEF Covered, Values
  <1>7. [g EXCEPT !["magic"] = <<0>>] = g
    BY <1>5 DEF Fields
  <1>8. Clearing([g EXCEPT !["magic"] = <<0>>])
    BY <1>5, <1>6, <1>7 DEF Clearing
  <1>9. \A f \in Covered :
          final[f] = IF g[f] # << >> THEN g[f][Len(g[f])] ELSE record[f]
    <2> TAKE f \in Covered
    <2>1. g[f] = <<0, final[f]>>
      BY <1>5
    <2> QED BY <2>1
  <1>10. Leaves(g, record, final)
    BY <1>4, <1>5, <1>6, <1>8, <1>9 DEF Leaves
  <1> HIDE DEF t
  <1>11. Commits(t, record, final)
    BY <1>3, <1>10, FreshCommit
  <1>12. IsValid(record) =>
           Final(t, record, "sequence") = (record["sequence"] + 1) % SeqModulus
    BY <1>4, <1>11 DEF Covered, next, sequence, Commits
  <1> QED BY <1>11, <1>12 DEF t, Commits
-----------------------------------------------------------------------------
(* Short sequences: what is left of the stores after one of them. *)
LEMMA Singles ==
  ASSUME NEW a
  PROVE  <<a>> # << >> /\ Len(<<a>>) = 1 /\ Head(<<a>>) = a /\ Tail(<<a>>) = << >>
  OBVIOUS

LEMMA Pairs ==
  ASSUME NEW a, NEW b
  PROVE  /\ <<a, b>> # << >> /\ Len(<<a, b>>) = 2 /\ Head(<<a, b>>) = a
         /\ Tail(<<a, b>>) = <<b>>
  <1> DEFINE S == {a, b}
             p == <<a, b>>
             m == Tail(p)
             n == <<b>>
  <1>1. /\ p \in Seq(S) /\ n \in Seq(S) /\ p # << >> /\ Len(p) = 2 /\ Head(p) = a
        /\ p[2] = b /\ Len(n) = 1 /\ n[1] = b
    OBVIOUS
  <1> HIDE DEF p, S
  <1>3. /\ m \in Seq(S) /\ Len(m) = 1 /\ m[1] = b
    BY <1>1, HeadTailProperties
  <1>4. \A i \in 1 .. 1 : i = 1
    OBVIOUS
  <1> HIDE DEF m, n
  <1>5. m = n
    BY <1>1, <1>3, <1>4, SeqEqual
  <1> QED BY <1>1, <1>5 DEF p, m, n

LEMMA Triples ==
  ASSUME NEW a, NEW b, NEW c
  PROVE  /\ <<a, b, c>> # << >> /\ Len(<<a, b, c>>) = 3
         /\ Tail(<<a, b, c>>) = <<b, c>>
  <1> DEFINE S == {a, b, c}
             p == <<a, b, c>>
             m == Tail(p)
             n == <<b, c>>
  <1>1. /\ p \in Seq(S) /\ n \in Seq(S) /\ p # << >> /\ Len(p) = 3
        /\ p[2] = b /\ p[3] = c /\ Len(n) = 2 /\ n[1] = b /\ n[2] = c
    OBVIOUS
  <1> HIDE DEF p, S
  <1>3. /\ m \in Seq(S) /\ Len(m) = 2 /\ m[1] = b /\ m[2] = c
    <2>1. m \in Seq(S) /\ Len(m) = 2 /\ \A i \in 1 .. Len(m) : m[i] = p[i + 1]
      BY <1>1, HeadTailProperties
    <2> HIDE DEF m
    <2> QED BY <1>1, <2>1
  <1>4. \A i \in 1 .. 2 : i = 1 \/ i = 2
    OBVIOUS
  <1> HIDE DEF m, n
  <1>5. m = n
    BY <1>1, <1>3, <1>4, SeqEqual
  <1> QED BY <1>1, <1>5 DEF p, m, n

LEMMA Replaced ==
  ASSUME NEW a, NEW b, NEW c, NEW d
  PROVE  /\ [<<a, b>> EXCEPT ![1] = d] = <<d, b>>
         /\ [<<a, b, c>> EXCEPT ![1] = d] = <<d, b, c>>
  OBVIOUS

(* One store of a routine. *)
StoreOf(f, t, r, u, q) ==
  /\ t # << >> /\ t[1][f] # << >>
  /\ q = [r EXCEPT ![f] = Head(t[1][f])]
  /\ LET rest == [t[1] EXCEPT ![f] = Tail(@)]
     IN  u = IF Stored(rest) THEN Tail(t) ELSE [t EXCEPT ![1] = rest]

(* The store of the magic word, the last one. *)
LEMMA ClosedStore ==
  ASSUME NEW f \in Fields, NEW t, NEW r, NEW u, NEW q, RecordOK(r),
         StoreOf(f, t, r, u, q), Closed(t, r)
  PROVE  /\ u = << >> /\ RecordOK(q) /\ IsValid(q) /\ q["crc"] = Target(t, r)
         /\ \A g \in Covered : q[g] = Final(t, r, g)
  <1>1. Len(t) = 1 /\ t[1] = Closing /\ Tail(t) = << >>
    BY DEF Closed
  <1>2. f = "magic" /\ t[1][f] = <<Magic>>
    BY <1>1 DEF StoreOf, Closing
  <1>3. q = [r EXCEPT !["magic"] = Magic]
    BY <1>2 DEF StoreOf
  <1>4. Stored([t[1] EXCEPT ![f] = Tail(@)])
    BY <1>1, <1>2 DEF Stored, Closing, Fields
  <1>5. u = << >>
    BY <1>1, <1>4 DEF StoreOf
  <1>6. \A g \in Fields : q[g] = IF g = "magic" THEN Magic ELSE r[g]
    BY <1>3 DEF RecordOK
  <1>7. \A g \in Covered : q[g] = Final(t, r, g) /\ Final(t, r, g) = r[g]
    BY <1>1, <1>6 DEF Final, Covered, Fields
  <1>8. /\ q["magic"] = Magic
        /\ q["format"] = VersionSize
        /\ q["crc"] = Target(t, r)
        /\ q["sequence"] = r["sequence"] /\ q["reset_cause"] = r["reset_cause"]
        /\ q["reason"] = r["reason"]
    BY <1>6 DEF Closed, Fields
  <1>9. RecordOK(q)
    BY <1>3, <1>8 DEF RecordOK, Closed
  <1>10. IsValid(q)
    <2>1. q["reason"] \in Codes \cup {0}
      BY <1>7, ValuesOf DEF Closed
    <2>2. ReasonCodeValid(q["reason"])
      BY <2>1, CodesValid
    <2> QED BY <1>7, <1>8, <2>2 DEF IsValid, Protected, Target, Covered
  <1> QED BY <1>5, <1>7, <1>8, <1>9, <1>10

(* A store other than the last leads to a later point of the same commit.  *)
Advances(t, r, u, q) ==
  /\ u # << >> /\ StageOf(u, q) /\ RecordOK(q)
  /\ q["magic"] = Magic => r["magic"] = Magic /\ q["crc"] \in {r["crc"], << >>}
  /\ \A g \in Covered : Final(u, q, g) = Final(t, r, g)

(* The stores between the fences: of the version and of the CRC. *)
LEMMA SealedStore ==
  ASSUME NEW f \in Fields, NEW t, NEW r, NEW u, NEW q, RecordOK(r),
         StoreOf(f, t, r, u, q), Sealed(t, r)
  PROVE  Advances(t, r, u, q)
  <1> DEFINE h == t[1]
             rest == [h EXCEPT ![f] = Tail(@)]
  <1>1. t = <<h, Closing>> /\ Len(t) = 2 /\ Tail(t) = <<Closing>>
    <2>1. t = <<h, Closing>>
      BY DEF Sealed
    <2> HIDE DEF h
    <2> QED BY <2>1, Pairs
  <1>2. h = [g \in Fields |-> h[g]]
    BY DEF Sealed
  <1>3. /\ f \in {"format", "crc"}
        /\ f = "format" => h[f] = <<VersionSize>>
        /\ f = "crc" => h[f] = <<Target(t, r)>>
    BY DEF Sealed, StoreOf
  <1>4. /\ \A g \in Fields \ {f} : rest[g] = h[g] /\ q[g] = r[g]
        /\ q = [g \in Fields |-> q[g]] /\ rest = [g \in Fields |-> rest[g]]
        /\ rest[f] = Tail(h[f]) /\ q[f] = Head(h[f])
    BY <1>2 DEF StoreOf, RecordOK
  <1>5. /\ rest[f] = << >>
        /\ f = "format" => q[f] = VersionSize
        /\ f = "crc" => q[f] = Target(t, r)
    BY <1>3, <1>4, Singles
  <1>6. u = IF Stored(rest) THEN <<Closing>> ELSE <<rest, Closing>>
    <2>1. [t EXCEPT ![1] = rest] = <<rest, Closing>>
      <3> HIDE DEF h, rest
      <3> QED BY <1>1, Replaced
    <2> QED BY <1>1, <2>1 DEF StoreOf
  <1> HIDE DEF h, rest
  <1>7. /\ q["magic"] = 0 /\ r["magic"] = 0
        /\ \A g \in Covered : rest[g] = << >> /\ q[g] = r[g] /\ g \in Fields
        /\ rest["magic"] = << >>
    BY <1>3, <1>4 DEF Sealed, Covered, Fields, h
  <1>8. \A g \in Covered : /\ Final(t, r, g) = r[g] /\ Final(u, q, g) = q[g]
                            /\ Final(t, r, g) \in Values(g)
    <2>1. Len(u) # 3
      BY <1>6
    <2> QED BY <1>1, <1>7, <2>1 DEF Final, Sealed
  <1>9. Target(u, q) = Target(t, r)
    BY <1>7, <1>8, ValuesOf DEF Target
  <1>10. Target(t, r) \in Content
    BY <1>8, ValuesOf, ContentOf DEF Target
  <1>11. /\ \/ rest["format"] = << >> /\ q["format"] = VersionSize
            \/ rest["format"] = <<VersionSize>>
         /\ \/ rest["crc"] = << >> /\ q["crc"] = Target(t, r)
            \/ rest["crc"] = <<Target(t, r)>>
    BY <1>3, <1>4, <1>5 DEF Sealed, h, Fields
  <1>12. RecordOK(q)
    <2>1. /\ q["format"] \in {0, VersionSize, Junk}
          /\ q["crc"] \in Content \cup {<< >>, Junk}
      BY <1>3, <1>4, <1>5, <1>10 DEF RecordOK, Fields
    <2> QED BY <1>4, <1>7, <2>1, ValuesOf DEF RecordOK
  <1>13. u # << >> /\ StageOf(u, q)
    <2>1. CASE Stored(rest)
      <3>1. u = <<Closing>> /\ u # << >>
        BY <1>6, <2>1
      <3>2. q["format"] = VersionSize /\ q["crc"] = Target(t, r)
        BY <1>11, <2>1, Singles DEF Stored, Fields
      <3>3. Closed(u, q)
        BY <1>7, <1>8, <1>9, <3>1, <3>2 DEF Closed
      <3> QED BY <3>1, <3>3 DEF StageOf
    <2>2. CASE ~ Stored(rest)
      <3>1. u = <<rest, Closing>> /\ u # << >> /\ u[1] = rest
        BY <1>6, <2>2
      <3>2. \A g \in Fields \ {"format", "crc"} : rest[g] = << >>
        BY <1>3, <1>4 DEF Sealed, h
      <3>3. Sealed(u, q)
        <4>1. u = <<u[1], Closing>> /\ u[1] = [g \in Fields |-> u[1][g]]
              /\ \A g \in Fields \ {"format", "crc"} : u[1][g] = << >>
          BY <1>4, <3>1, <3>2
        <4>2. /\ \/ u[1]["format"] = << >> /\ q["format"] = VersionSize
                 \/ u[1]["format"] = <<VersionSize>>
              /\ \/ u[1]["crc"] = << >> /\ q["crc"] = Target(u, q)
                 \/ u[1]["crc"] = <<Target(u, q)>>
          BY <1>9, <1>11, <3>1
        <4>3. q["magic"] = 0 /\ \A g \in Covered : Final(u, q, g) \in Values(g)
          BY <1>7, <1>8
        <4> QED BY <4>1, <4>2, <4>3 DEF Sealed
      <3> QED BY <3>1, <3>3 DEF StageOf
    <2> QED BY <2>1, <2>2
  <1>14. q["magic"] # Magic
    BY <1>7, Constants
  <1> QED BY <1>7, <1>8, <1>12, <1>13, <1>14 DEF Advances

(* The stores before the first fence. *)
LEMMA FreshStore ==
  ASSUME NEW f \in Fields, NEW t, NEW r, NEW u, NEW q, RecordOK(r),
         StoreOf(f, t, r, u, q), Fresh(t, r)
  PROVE  Advances(t, r, u, q)
  <1> DEFINE h == t[1]
             rest == [h EXCEPT ![f] = Tail(@)]
             seal == Sealing(Target(t, r))
  <1>1. t = <<h, seal, Closing>> /\ Len(t) = 3 /\ Tail(t) = <<seal, Closing>>
    <2>1. t = <<h, seal, Closing>>
      BY DEF Fresh
    <2> HIDE DEF h, seal
    <2> QED BY <2>1, Triples
  <1>2. h = [g \in Fields |-> h[g]] /\ h[f] # << >>
    BY DEF Fresh, Clearing, StoreOf
  <1>3. /\ \A g \in Fields \ {f} : rest[g] = h[g] /\ q[g] = r[g]
        /\ q = [g \in Fields |-> q[g]] /\ rest = [g \in Fields |-> rest[g]]
        /\ rest[f] = Tail(h[f]) /\ q[f] = Head(h[f])
    BY <1>2 DEF StoreOf, RecordOK
  <1>4. u = IF Stored(rest) THEN <<seal, Closing>> ELSE <<rest, seal, Closing>>
    <2>1. [t EXCEPT ![1] = rest] = <<rest, seal, Closing>>
      <3> HIDE DEF h, rest, seal
      <3> QED BY <1>1, Replaced
    <2> QED BY <1>1, <2>1 DEF StoreOf
  <1>5. Clearing(h) /\ (h["magic"] = << >> => r["magic"] = 0)
    BY DEF Fresh
  <1> HIDE DEF h, rest
  <1>6. /\ f = "magic" => h[f] = <<0>>
        /\ f = "format" => h[f] = <<0>>
        /\ f = "crc" => h[f] = << << >> >>
    BY <1>2, <1>5 DEF Clearing
  <1>7. \/ rest[f] = << >> /\ h[f] = <<q[f]>>
        \/ /\ f \in Covered
           /\ \E x \in Values(f) : h[f] = <<0, x>> /\ rest[f] = <<x>> /\ q[f] = 0
    <2>1. CASE f \notin Covered
      <3>1. f \in {"magic", "format", "crc"}
        BY <2>1 DEF Covered, Fields
      <3> QED BY <1>3, <1>6, <3>1, Singles
    <2>2. CASE f \in Covered
      <3>1. PICK x \in Values(f) : h[f] = <<x>> \/ h[f] = <<0, x>>
        BY <1>2, <1>5, <2>2 DEF Clearing
      <3>2. CASE h[f] = <<x>>
        BY <1>3, <3>2, Singles
      <3>3. CASE h[f] = <<0, x>>
        BY <1>3, <2>2, <3>3, Pairs
      <3> QED BY <3>1, <3>2, <3>3
    <2> QED BY <2>1, <2>2
  <1>8. \A g \in Covered : g \in Fields
    BY DEF Covered, Fields
  <1>9. \A g \in Covered \ {f} :
          rest[g] = h[g] /\ q[g] = r[g]
    BY <1>3, <1>8
  <1>10. Stored(rest) => \A g \in Covered : rest[g] = << >>
    BY <1>8 DEF Stored
  <1>11. Len(<<seal, Closing>>) = 2 /\ Len(<<rest, seal, Closing>>) = 3
    BY Pairs, Triples
  <1>12. /\ \A g \in Covered : Final(u, q, g) = IF rest[g] # << >> THEN rest[g][Len(rest[g])]
                                               ELSE q[g]
         /\ \A g \in Covered : Final(t, r, g) = IF h[g] # << >> THEN h[g][Len(h[g])]
                                               ELSE r[g]
    <2>1. CASE Stored(rest)
      <3>1. u = <<seal, Closing>> /\ Len(u) # 3
        BY <1>4, <1>11, <2>1
      <3> QED BY <1>1, <1>10, <2>1, <3>1 DEF Final, h
    <2>2. CASE ~ Stored(rest)
      <3>1. u = <<rest, seal, Closing>> /\ Len(u) = 3 /\ u[1] = rest
        BY <1>4, <1>11, <2>2
      <3> QED BY <1>1, <3>1 DEF Final, h
    <2> QED BY <2>1, <2>2
  <1>13. \A g \in Covered : Final(u, q, g) = Final(t, r, g)
    <2> TAKE g \in Covered
    <2>1. CASE g # f
      BY <1>9, <1>12, <2>1
    <2>2. CASE g = f
      <3>1. CASE rest[f] = << >> /\ h[f] = <<q[f]>>
        <4>1. h[f] # << >> /\ h[f][Len(h[f])] = q[f]
          BY <3>1, Singles
        <4> QED BY <1>12, <2>2, <3>1, <4>1
      <3>2. CASE \E x \in Values(f) : h[f] = <<0, x>> /\ rest[f] = <<x>> /\ q[f] = 0
        <4>1. PICK x \in Values(f) : h[f] = <<0, x>> /\ rest[f] = <<x>>
          BY <3>2
        <4>2. /\ rest[f] # << >> /\ rest[f][Len(rest[f])] = x
              /\ h[f] # << >> /\ h[f][Len(h[f])] = x
          BY <4>1, Singles, Pairs
        <4> QED BY <1>12, <2>2, <4>2
      <3> QED BY <1>7, <3>1, <3>2
    <2> QED BY <2>1, <2>2
  <1>14. Target(u, q) = Target(t, r)
    BY <1>13, ValuesOf DEF Target
  <1>15. \A g \in Covered : Final(u, q, g) \in Values(g)
    BY <1>13 DEF Fresh
  <1>16. Clearing(rest)
    <2>1. /\ rest["magic"] \in {<< >>, <<0>>} /\ rest["format"] \in {<< >>, <<0>>}
          /\ rest["crc"] \in {<< >>, << << >> >>}
      <3>1. {"magic", "format", "crc"} \subseteq Fields
            /\ \A g \in {"magic", "format", "crc"} : g \notin Covered
        BY DEF Fields, Covered
      <3> QED BY <1>3, <1>5, <1>7, <3>1 DEF Clearing
    <2>2. \A g \in Covered :
            rest[g] = << >> \/ \E x \in Values(g) : rest[g] = <<x>> \/ rest[g] = <<0, x>>
      BY <1>5, <1>7, <1>9 DEF Clearing
    <2> QED BY <1>3, <2>1, <2>2 DEF Clearing
  <1>17. rest["magic"] = << >> => q["magic"] = 0
    <2>1. CASE f = "magic"
      BY <1>3, <1>6, <2>1, Singles
    <2>2. CASE f # "magic"
      BY <1>3, <1>5, <2>2 DEF Fields
    <2> QED BY <2>1, <2>2
  <1>18. RecordOK(q)
    <2>1. f \in Covered => q[f] \in Values(f)
      <3> SUFFICES ASSUME f \in Covered PROVE q[f] \in Values(f)
        OBVIOUS
      <3>1. CASE h[f] = <<q[f]>>
        <4>1. PICK x \in Values(f) : h[f] = <<x>> \/ h[f] = <<0, x>>
          BY <1>2, <1>5 DEF Clearing
        <4>2. q[f] = x
          <5>1. Len(h[f]) = 1
            BY <3>1, Singles
          <5>2. h[f] = <<x>>
            BY <4>1, <5>1, Pairs
          <5> QED BY <1>3, <5>2, Singles
        <4> QED BY <4>2
      <3>2. CASE q[f] = 0
        BY <3>2, Constants, ValuesOf
      <3> QED BY <1>7, <3>1, <3>2
    <2>2. q["sequence"] \in Sequence \cup {Junk}
      BY <1>9, <2>1, ValuesOf DEF RecordOK
    <2>3. q["reset_cause"] \in Cause \cup {0, Junk}
      BY <1>9, <2>1, ValuesOf DEF RecordOK
    <2>4. q["reason"] \in Codes \cup {0, Junk}
      BY <1>9, <2>1, ValuesOf DEF RecordOK
    <2>5. q["magic"] \in {0, Magic, Junk} /\ q["format"] \in {0, VersionSize, Junk}
      BY <1>3, <1>6, Singles DEF RecordOK, Fields
    <2>6. q["crc"] \in Content \cup {<< >>, Junk}
      BY <1>3, <1>6, Singles DEF RecordOK, Fields
    <2> QED BY <1>3, <2>2, <2>3, <2>4, <2>5, <2>6 DEF RecordOK
  <1>19. u # << >> /\ StageOf(u, q)
    <2>1. CASE Stored(rest)
      <3>1. u = <<seal, Closing>> /\ u # << >> /\ u[1] = seal
        BY <1>4, <2>1, Pairs
      <3>2. /\ seal = [g \in Fields |-> seal[g]]
            /\ \A g \in Fields \ {"format", "crc"} : seal[g] = << >>
            /\ seal["format"] = <<VersionSize>> /\ seal["crc"] = <<Target(t, r)>>
        BY DEF Sealing, Fields
      <3>3. q["magic"] = 0
        BY <1>17, <2>1 DEF Stored, Fields
      <3> HIDE DEF seal
      <3>4. Sealed(u, q)
        BY <1>14, <1>15, <3>1, <3>2, <3>3 DEF Sealed
      <3> QED BY <3>1, <3>4 DEF StageOf
    <2>2. CASE ~ Stored(rest)
      <3>1. u = <<rest, seal, Closing>> /\ u # << >> /\ u[1] = rest
        BY <1>4, <2>2, Triples
      <3>2. Fresh(u, q)
        BY <1>14, <1>15, <1>16, <1>17, <3>1 DEF Fresh
      <3> QED BY <3>1, <3>2 DEF StageOf
    <2> QED BY <2>1, <2>2
  <1>20. q["magic"] = Magic => r["magic"] = Magic /\ q["crc"] \in {r["crc"], << >>}
    <2>1. f # "magic" => q["magic"] = r["magic"]
      BY <1>3 DEF Fields
    <2>2. f = "magic" => q["magic"] # Magic
      BY <1>3, <1>6, Singles, Constants
    <2>3. q["crc"] \in {r["crc"], << >>}
      BY <1>3, <1>6, Singles DEF Fields
    <2> QED BY <2>1, <2>2, <2>3
  <1> QED BY <1>13, <1>18, <1>19, <1>20 DEF Advances
-----------------------------------------------------------------------------
(* The initial state and the steps. *)
LEMMA Typed == CrashInv => TypeOK
  BY DEF CrashInv, Control, RecordOK, TypeOK

LEMMA CrashInit == Init => CrashInv
  <1> SUFFICES ASSUME Init PROVE CrashInv
    OBVIOUS
  <1>1. RecordOK(record) /\ record["magic"] = Junk
    BY DEF Init, RecordOK, Fields
  <1>2. Believed(record)
    BY <1>1, Constants DEF Believed
  <1>3. Control
    <2>1. /\ mode = "boot" /\ level = 0 /\ committed = << >> /\ intact = FALSE
          /\ captures = 0
      BY DEF Init
    <2>2. (mode = "capture") = (level > 0)
      BY <2>1
    <2> QED BY <2>1, <2>2, Constants DEF Control
  <1>4. Stages
    <2>1. PICK cause \in Cause : todo = NoteBoot(record, cause)
      BY DEF Init
    <2> QED BY <1>1, <2>1, NoteBootStores DEF Stages, StageOf
  <1>5. Evidence
    BY DEF Init, Evidence
  <1> QED BY <1>1, <1>2, <1>3, <1>4, <1>5 DEF CrashInv

(* Reset_Handler, entered with the record r. *)
LEMMA RestartStep ==
  ASSUME CrashInv, NEW r, RecordOK(r), Believed(r), NEW cause \in Cause,
         Restart(r, cause),
         intact' \in BOOLEAN, intact' => r = record /\ intact /\ todo = << >>
  PROVE  CrashInv'
  <1>1. /\ record' = r /\ todo' = NoteBoot(r, cause)
        /\ mode' = "boot" /\ level' = 0
        /\ UNCHANGED <<committed, captures, reason>>
    BY DEF Restart
  <1>2. /\ Fresh(todo', r) /\ todo' # << >>
        /\ IsValid(r) => /\ Final(todo', r, "sequence") = r["sequence"]
                         /\ Final(todo', r, "reason") = r["reason"]
    BY <1>1, NoteBootStores
  <1>3. Control'
    BY <1>1 DEF CrashInv, Control
  <1>4. RecordOK(record)' /\ Believed(record)'
    BY <1>1 DEF RecordOK, Believed
  <1>5. Stages'
    BY <1>1, <1>2 DEF Stages, StageOf
  <1>6. Evidence'
    <2>1. CASE intact'
      <3>1. /\ IsValid(record) /\ record["sequence"] = captures
            /\ record["reason"] = reason
        BY <2>1 DEF CrashInv, Evidence
      <3>2. /\ Final(todo', record', "sequence") = captures'
            /\ Final(todo', record', "reason") = reason'
        BY <1>1, <1>2, <2>1, <3>1
      <3> QED BY <1>1, <1>2, <3>2 DEF Evidence
    <2>2. CASE ~ intact'
      BY <2>2 DEF Evidence
    <2> QED BY <2>1, <2>2
  <1> QED BY <1>3, <1>4, <1>5, <1>6 DEF CrashInv

LEMMA SystemResetStep ==
  ASSUME CrashInv, SystemReset
  PROVE  CrashInv'
  <1>1. PICK cause \in Cause : Restart(record, cause)
    BY DEF SystemReset
  <1>2. todo = << >> /\ intact' = intact
    BY DEF SystemReset
  <1>3. intact' \in BOOLEAN /\ (intact' => record = record /\ intact /\ todo = << >>)
    BY <1>2 DEF CrashInv, Control
  <1> QED BY <1>1, <1>3, RestartStep DEF CrashInv

LEMMA ResetStep ==
  ASSUME CrashInv, NEW cause \in Cause, Reset(cause)
  PROVE  CrashInv'
  <1>1. Restart(record, cause)
    BY DEF Reset
  <1>2. intact' \in BOOLEAN /\ (intact' => record = record /\ intact /\ todo = << >>)
    BY DEF CrashInv, Control, Reset
  <1> QED BY <1>1, <1>2, RestartStep DEF CrashInv

LEMMA PowerCycleStep ==
  ASSUME CrashInv, NEW cause \in Cause, NEW lost \in Losses, PowerCycle(cause, lost)
  PROVE  CrashInv'
  <1> DEFINE r == [f \in Fields |-> IF f \in lost THEN Junk ELSE record[f]]
  <1>1. Restart(r, cause) /\ intact' = FALSE
    BY DEF PowerCycle
  <1>2. r = [f \in Fields |-> r[f]] /\ \A f \in Fields : r[f] \in {Junk, record[f]}
    OBVIOUS
  <1> HIDE DEF r
  <1>3. RecordOK(record) /\ Believed(record)
    BY DEF CrashInv
  <1>4. RecordOK(r)
    BY <1>2, <1>3 DEF RecordOK, Fields
  <1>5. Believed(r)
    BY <1>2, <1>3, Constants DEF Believed, Fields
  <1> QED BY <1>1, <1>4, <1>5, RestartStep

LEMMA ExceptionStep ==
  ASSUME CrashInv, NEW l \in Level, Exception(l)
  PROVE  CrashInv'
  <1>1. /\ mode' = "capture" /\ level' = l /\ todo' = Capture(Reason[l])
        /\ intact' = (intact /\ todo = << >>)
        /\ UNCHANGED <<record, committed, captures, reason>>
    BY DEF Exception
  <1>2. Reason[l] \in Codes
    BY DEF Codes
  <1>3. /\ Fresh(todo', record) /\ todo' # << >>
        /\ IsValid(record) => Final(todo', record, "sequence")
                                = (record["sequence"] + 1) % SeqModulus
    BY <1>1, <1>2, CaptureStores DEF CrashInv
  <1>4. Control'
    BY <1>1, CrashAssumption DEF CrashInv, Control
  <1>5. RecordOK(record)' /\ Believed(record)'
    BY <1>1 DEF RecordOK, Believed, CrashInv
  <1>6. Stages'
    BY <1>1, <1>3 DEF Stages, StageOf
  <1>7. Evidence'
    <2>1. CASE intact'
      <3>1. IsValid(record) /\ record["sequence"] = captures
        BY <1>1, <2>1 DEF CrashInv, Evidence
      <3>2. Final(todo', record', "sequence") = (captures' + 1) % SeqModulus
        BY <1>1, <1>3, <3>1
      <3> QED BY <1>1, <1>3, <3>2 DEF Evidence
    <2>2. CASE ~ intact'
      BY <2>2 DEF Evidence
    <2> QED BY <2>1, <2>2
  <1> QED BY <1>4, <1>5, <1>6, <1>7 DEF CrashInv

LEMMA EnterMainStep ==
  ASSUME CrashInv, EnterMain
  PROVE  CrashInv'
  <1>1. /\ mode = "boot" /\ todo = << >> /\ mode' = "run"
        /\ UNCHANGED <<record, todo, level, committed, intact, captures, reason>>
    BY DEF EnterMain
  <1>2. Control'
    BY <1>1 DEF CrashInv, Control
  <1>3. RecordOK(record)' /\ Believed(record)' /\ Stages'
    BY <1>1 DEF RecordOK, Believed, Stages, CrashInv
  <1>4. Evidence'
    BY <1>1 DEF Evidence, CrashInv, IsValid, Protected
  <1> QED BY <1>2, <1>3, <1>4 DEF CrashInv

LEMMA StoreStep ==
  ASSUME CrashInv, NEW f \in Fields, Store(f)
  PROVE  CrashInv'
  <1>1. StoreOf(f, todo, record, todo', record') /\ UNCHANGED <<mode, level>>
    BY DEF Store, StoreOf
  <1>2. StageOf(todo, record) /\ RecordOK(record) /\ Believed(record) /\ todo # << >>
    BY <1>1 DEF CrashInv, Stages, StoreOf
  <1>3. CASE Closed(todo, record)
    <2>1. /\ todo' = << >> /\ RecordOK(record') /\ IsValid(record')
          /\ record'["crc"] = Target(todo, record)
          /\ \A g \in Covered : record'[g] = Final(todo, record, g)
      BY <1>1, <1>2, <1>3, ClosedStore
    <2>2. /\ committed' = Protected(record') /\ intact' = TRUE
          /\ captures' = IF ~ intact THEN record'["sequence"]
                          ELSE IF mode = "capture" THEN (captures + 1) % SeqModulus
                          ELSE captures
          /\ reason' = IF intact /\ mode = "boot" THEN reason ELSE record'["reason"]
      BY <2>1 DEF Store
    <2>3. /\ record'["crc"] \in Content /\ record'["crc"] = Protected(record')
          /\ record'["sequence"] \in Sequence
      BY <2>1, ValidContent, ValuesOf DEF IsValid
    <2>4. record'["sequence"] = captures' /\ record'["reason"] = reason'
      <3>1. CASE intact
        BY <1>2, <2>1, <2>2, <3>1, ValuesOf DEF CrashInv, Evidence
      <3>2. CASE ~ intact
        BY <2>2, <3>2
      <3> QED BY <3>1, <3>2
    <2>5. Control'
      BY <1>1, <2>2, <2>3, <2>4 DEF CrashInv, Control
    <2>6. Believed(record)' /\ Stages' /\ RecordOK(record)'
      BY <2>1, <2>2, <2>3 DEF Believed, Stages, RecordOK
    <2>7. Evidence'
      BY <2>1, <2>4 DEF Evidence, IsValid, Protected
    <2> QED BY <2>5, <2>6, <2>7 DEF CrashInv
  <1>4. CASE Sealed(todo, record) \/ Fresh(todo, record)
    <2>1. Advances(todo, record, todo', record')
      BY <1>1, <1>2, <1>4, SealedStore, FreshStore
    <2>2. todo' # << >> /\ UNCHANGED <<committed, intact, captures, reason>>
      BY <2>1 DEF Advances, Store
    <2>3. Control'
      BY <1>1, <2>2 DEF CrashInv, Control
    <2>4. RecordOK(record)' /\ Stages'
      BY <2>1 DEF Advances, RecordOK, Stages, StageOf, Closed, Sealed, Fresh
    <2>5. Believed(record)'
      BY <1>2, <2>1, <2>2 DEF Advances, Believed
    <2>6. Evidence'
      <3>1. /\ Final(todo', record', "sequence") = Final(todo, record, "sequence")
            /\ Final(todo', record', "reason") = Final(todo, record, "reason")
        BY <2>1, ValuesOf DEF Advances
      <3> QED BY <1>1, <1>2, <2>2, <3>1 DEF CrashInv, Evidence
    <2> QED BY <2>3, <2>4, <2>5, <2>6 DEF CrashInv
  <1> QED BY <1>2, <1>3, <1>4 DEF StageOf

LEMMA CrashStep == CrashInv /\ [Next]_vars => CrashInv'
  <1> SUFFICES ASSUME CrashInv, [Next]_vars PROVE CrashInv'
    OBVIOUS
  <1>1. ASSUME NEW f \in Fields, Store(f) PROVE CrashInv'
    BY <1>1, StoreStep
  <1>2. CASE EnterMain
    BY <1>2, EnterMainStep
  <1>3. CASE SystemReset
    BY <1>3, SystemResetStep
  <1>4. ASSUME NEW cause \in Cause, Reset(cause) PROVE CrashInv'
    BY <1>4, ResetStep
  <1>5. ASSUME NEW cause \in Cause, NEW lost \in Losses, PowerCycle(cause, lost)
        PROVE  CrashInv'
    BY <1>5, PowerCycleStep
  <1>6. ASSUME NEW l \in Level, Exception(l) PROVE CrashInv'
    BY <1>6, ExceptionStep
  <1>7. CASE UNCHANGED vars
    <2>1. UNCHANGED <<record, todo, mode, level, committed, intact, captures, reason>>
      BY <1>7 DEF vars
    <2>2. Control' /\ RecordOK(record)' /\ Believed(record)'
      BY <2>1 DEF CrashInv, Control, RecordOK, Believed
    <2>3. Stages'
      BY <2>1 DEF CrashInv, Stages, StageOf, Closed, Sealed, Fresh
    <2>4. Evidence'
      BY <2>1 DEF CrashInv, Evidence, IsValid, Protected
    <2> QED BY <2>2, <2>3, <2>4 DEF CrashInv
  <1> QED BY <1>1, <1>2, <1>3, <1>4, <1>5, <1>6, <1>7 DEF Next, Cpu
-----------------------------------------------------------------------------
(* Wherever a reset, a power loss or an exception of higher priority cuts  *)
(* lib_crash_commit off, a record that validates holds what the last       *)
(* completed commit wrote.                                                 *)
THEOREM ValidRecordIsCommitted == Spec => []ValidIsCommitted
  <1>1. CrashInv => ValidIsCommitted
    <2> SUFFICES ASSUME CrashInv, IsValid(record) PROVE Protected(record) = committed
      BY Typed DEF ValidIsCommitted
    <2>1. record["crc"] # Junk /\ record["crc"] # << >>
      BY ValidContent DEF CrashInv
    <2> QED BY <2>1 DEF CrashInv, Believed, IsValid
  <1> QED BY <1>1, CrashInit, CrashStep, PTL DEF Spec

(* As long as no reset hits a store sequence, main finds a valid record    *)
(* with the reason of the last fault and the number of faults captured.    *)
THEOREM EvidenceIsKept == Spec => []EvidenceKept
  <1>1. CrashInv => EvidenceKept
    BY DEF CrashInv, Evidence, EvidenceKept
  <1> QED BY <1>1, CrashInit, CrashStep, PTL DEF Spec
-----------------------------------------------------------------------------
(* The layouts the tool must accept: one or two sections behind the other. *)
Neat(n) == {<< <<0, n>> >>, << <<0, 1>>, <<1, n>> >>}

Headers == [version : Version, revision : Nat, dirty : BOOLEAN, length : Nat]
Identities ==
  [header : Headers \cup {NoHeader}, crc : {<< >>} \cup (Seq(Img!Byte) \X Headers)]

(* The files are of their kinds, and a header has its CRC. *)
Files ==
  /\ elf \in [code : Seq(Img!Byte), segments : {<< >>} \cup Img!Placements(Len(elf.code)),
              identity : Identities]
  /\ bin = [content |-> bin.content, identity |-> bin.identity]
  /\ hex = [content |-> hex.content, identity |-> hex.identity]
  /\ bin.identity \in Identities /\ hex.identity \in Identities
  /\ objects = << >> \/ objects \in TreeContent \X Version
  /\ commits # << >>

(* A stamped block seals a content that was that of its revision, if it    *)
(* says so; damage to the code does not touch the block.                   *)
Stamped ==
  elf.identity.header # NoHeader =>
    LET sealed == elf.identity.crc
    IN  /\ sealed \in Seq(Img!Byte) \X Headers
        /\ elf.identity.header.revision \in 1 .. Img!Revision
        /\ ~ elf.identity.header.dirty =>
             sealed[1][1] = commits[elf.identity.header.revision]

(* The commands of the recipe not yet run, and what those before left. *)
Recipe ==
  /\ pc \in {"link", "stamp", "save"} => objects # << >> /\ objects[1] = tree
  /\ pc \in {"stamp", "save"} =>
       /\ elf.code = Img!Linked
       /\ elf.segments \in Img!Placements(Len(Img!Linked))
       /\ elf.identity = Img!Template
  /\ pc = "save" => Img!LayoutOk(elf)
  /\ pc \in {"verify", "binary", "hex", "check", "built", "checked"} =>
       Img!ElfOk(elf) /\ elf.identity.header = Img!Header(Len(elf.code))
  /\ pc \in {"hex", "check"} => bin = Img!Binary(elf)
  /\ pc = "check" => hex = Img!Hex(elf)

(* How a run of make or of the tool ended. *)
Ended ==
  /\ pc \in {"checked", "accepted"} => Img!AllOk
  /\ pc = "stopped" => elf.segments \notin Neat(Len(elf.code))

BuildInv == Img!TypeOK /\ Files /\ Stamped /\ Recipe /\ Ended
-----------------------------------------------------------------------------
LEMMA ImageFacts ==
  ASSUME Img!ImageFits, NEW c \in TreeContent, NEW v \in Version
  PROVE  /\ Img!Image(c, v) \in Seq(Img!Byte)
         /\ Len(Img!Image(c, v)) \in 2 .. IdentityAddress
         /\ Img!Image(c, v)[1] = c
  <1>1. c \in Img!Byte /\ v \in Img!Byte /\ 0 \in Img!Byte
    BY DEF Img!Byte
  <1>2. /\ Img!Image(c, v) \in Seq(Img!Byte)
        /\ Len(Img!Image(c, v)) >= 2
        /\ Img!Image(c, v)[1] = c
    <2>1. CASE c = 0
      BY <1>1, <2>1 DEF Img!Image
    <2>2. CASE c # 0
      BY <1>1, <2>2 DEF Img!Image
    <2> QED BY <2>1, <2>2
  <1> QED BY <1>2, LenProperties DEF Img!ImageFits

(* Sections placed one behind the other are laid out as the tool wants     *)
(* them, and nothing else is loaded.                                       *)
LEMMA NeatFacts ==
  ASSUME Img!ImageFits, NEW e, Len(e.code) \in 1 .. IdentityAddress,
         e.segments \in Neat(Len(e.code))
  PROVE  Img!LayoutOk(e) /\ Img!Loaded(e) = 0 .. Len(e.code) - 1
  <1> DEFINE n == Len(e.code)
             Holding(a) == {i \in DOMAIN e.segments : a \in Img!Span(e.segments[i])}
  <1>1. n \in Nat /\ n >= 1 /\ n <= IdentityAddress /\ IdentityAddress \in Nat
    BY DEF Img!ImageFits
  <1> HIDE DEF n
  <1>2. CASE e.segments = << <<0, n>> >>
    <2>1. DOMAIN e.segments = {1} /\ Img!Span(e.segments[1]) = 0 .. n - 1
      BY <1>2 DEF Img!Span
    <2>2. \A a \in 0 .. n - 1 : Holding(a) = {1}
      BY <2>1
    <2> QED BY <1>1, <2>1, <2>2 DEF Img!LayoutOk, Img!Loaded, n
  <1>3. CASE e.segments = << <<0, 1>>, <<1, n>> >>
    <2>1. /\ DOMAIN e.segments = {1, 2}
          /\ Img!Span(e.segments[1]) = 0 .. 0 /\ Img!Span(e.segments[2]) = 1 .. n - 1
      BY <1>3 DEF Img!Span
    <2>2. ASSUME NEW a \in 0 .. n - 1
          PROVE  \E i \in DOMAIN e.segments : Holding(a) = {i}
      <3>1. CASE a = 0
        BY <1>1, <2>1, <3>1, Holding(a) = {1}
      <3>2. CASE a # 0
        BY <1>1, <2>1, <3>2, Holding(a) = {2}
      <3> QED BY <3>1, <3>2
    <2>3. Img!Loaded(e) = 0 .. n - 1
      BY <1>1, <2>1 DEF Img!Loaded
    <2> QED BY <1>1, <2>2, <2>3 DEF Img!LayoutOk, n
  <1> QED BY <1>2, <1>3 DEF Neat, n

(* A layout the tool accepts loads every byte of the image. *)
LEMMA AllLoaded ==
  ASSUME NEW e, Img!LayoutOk(e)
  PROVE  \A a \in 0 .. Len(e.code) - 1 : a \in Img!Loaded(e)
  BY DEF Img!LayoutOk, Img!Loaded

(* What is loaded lies below the identity block. *)
LEMMA LoadedRange ==
  ASSUME Img!ImageFits, NEW e, Len(e.code) \in 1 .. IdentityAddress,
         e.segments \in {<< >>} \cup Img!Placements(Len(e.code))
  PROVE  Img!Loaded(e) \subseteq 0 .. IdentityAddress - 1
  <1> DEFINE n == Len(e.code)
  <1>1. n \in Nat /\ n >= 1 /\ n <= IdentityAddress /\ IdentityAddress \in Nat
    BY DEF Img!ImageFits
  <1> HIDE DEF n
  <1>2. \A i \in DOMAIN e.segments : Img!Span(e.segments[i]) \subseteq 0 .. IdentityAddress - 1
    <2>1. CASE e.segments \in {<< >>, << <<0, n>> >>, << <<1, n>> >>}
      BY <1>1, <2>1 DEF Img!Span
    <2>2. CASE e.segments \in {<< <<0, 1>>, <<1, n>> >>, << <<0, n>>, <<0, 1>> >>}
      BY <1>1, <2>2 DEF Img!Span
    <2>3. CASE e.segments = << <<0, n>>, <<n, IdentityAddress>> >>
      BY <1>1, <2>3 DEF Img!Span
    <2> QED BY <2>1, <2>2, <2>3 DEF Img!Placements, n
  <1> QED BY <1>2 DEF Img!Loaded

(* A neat ELF gives a BIN and a HEX that verify. *)
LEMMA NeatVerifies ==
  ASSUME Img!ImageFits, NEW e, e.code \in Seq(Img!Byte),
         Len(e.code) \in 1 .. IdentityAddress,
         e.segments \in Neat(Len(e.code))
  PROVE  Img!BinaryOk(Img!Binary(e), e) /\ Img!HexOk(Img!Hex(e), e)
  <1>1. Img!Loaded(e) = 0 .. Len(e.code) - 1
    BY NeatFacts
  <1>2. \A a : a < Len(e.code) => Img!ByteAt(e, a) = e.code[a + 1]
    BY DEF Img!ByteAt
  <1>3. Len(e.code) \in Nat /\ IdentityAddress \in Nat
    BY DEF Img!ImageFits
  <1>4. \A a \in 0 .. IdentityAddress - 1 : a \in Img!Loaded(e) <=> a < Len(e.code)
    BY <1>1, <1>3
  <1>5. Img!BinaryOk(Img!Binary(e), e)
    BY <1>2, <1>4 DEF Img!BinaryOk, Img!Binary, Img!GapFill
  <1>6. Img!HexOk(Img!Hex(e), e)
    BY <1>1, <1>2, <1>3 DEF Img!HexOk, Img!Hex
  <1> QED BY <1>5, <1>6

(* Files that verify together agree. *)
LEMMA OkAgrees ==
  ASSUME Img!ImageFits, Img!TypeOK, Files, Img!AllOk
  PROVE  /\ Img!Flash(bin.content) = Img!Flash(hex.content)
         /\ \A file \in {bin, hex, Img!Hex(elf)} :
              Img!TargetAccepts(Img!Flash(file.content), file.identity)
         /\ elf.identity = bin.identity /\ bin.identity = hex.identity
  <1> DEFINE code == elf.code
             header == elf.identity.header
             burnt == [a \in 0 .. IdentityAddress - 1 |->
                         IF a < Len(code) THEN code[a + 1] ELSE Erased]
  <1>1. /\ code \in Seq(Img!Byte) /\ Len(code) \in 1 .. IdentityAddress
        /\ IdentityAddress \in Nat
    BY DEF Img!ImageFits, Files, Img!AllOk, Img!ElfOk, Img!LayoutOk
  <1>2. /\ elf.identity = bin.identity /\ bin.identity = hex.identity
        /\ header # NoHeader /\ header.length = Len(code)
        /\ elf.identity = Img!Sealed(header, code)
    BY DEF Img!AllOk, Img!ElfOk, Img!BinaryOk, Img!HexOk
  <1>3. Img!Flash(bin.content) = burnt
    BY DEF Img!Flash, Img!AllOk, Img!BinaryOk
  <1>4. Img!Flash(hex.content) = burnt
    BY <1>1 DEF Img!Flash, Img!AllOk, Img!HexOk
  <1>5. /\ \A a \in 0 .. Len(code) - 1 : a \in Img!Loaded(elf)
        /\ \A a \in 0 .. Len(code) - 1 : Img!ByteAt(elf, a) = code[a + 1]
    BY <1>1, AllLoaded DEF Img!AllOk, Img!ElfOk, Img!ByteAt
  <1>6. \A a \in 0 .. Len(code) - 1 : Img!Flash(Img!Hex(elf).content)[a] = code[a + 1]
    <2>1. \A a \in 0 .. Len(code) - 1 : a \in 0 .. IdentityAddress - 1
      BY <1>1
    <2>2. /\ DOMAIN Img!Hex(elf).content = Img!Loaded(elf)
          /\ \A a \in Img!Loaded(elf) : Img!Hex(elf).content[a] = Img!ByteAt(elf, a)
      BY DEF Img!Hex
    <2> HIDE DEF code
    <2> QED BY <1>5, <2>1, <2>2 DEF Img!Flash
  <1>7. ASSUME NEW flash, \A a \in 0 .. Len(code) - 1 : flash[a] = code[a + 1]
        PROVE  Img!TargetAccepts(flash, elf.identity)
    <2>1. [k \in 1 .. Len(code) |-> flash[k - 1]] = code
      <3>1. \A k \in 1 .. Len(code) : k - 1 \in 0 .. Len(code) - 1 /\ (k - 1) + 1 = k
        BY <1>1
      <3>2. \A k \in 1 .. Len(code) : flash[k - 1] = code[k]
        BY <1>7, <3>1
      <3>3. code = [k \in 1 .. Len(code) |-> code[k]]
        BY <1>1
      <3> QED BY <3>2, <3>3
    <2> QED BY <1>2, <2>1 DEF Img!TargetAccepts
  <1>8. \A a \in 0 .. Len(code) - 1 : burnt[a] = code[a + 1]
    BY <1>1
  <1>9. Img!Hex(elf).identity = elf.identity
    BY DEF Img!Hex
  <1> HIDE DEF burnt, code
  <1>10. Img!TargetAccepts(burnt, elf.identity)
         /\ Img!TargetAccepts(Img!Flash(Img!Hex(elf).content), elf.identity)
    BY <1>6, <1>7, <1>8
  <1> QED BY <1>2, <1>3, <1>4, <1>9, <1>10

(* An ELF that has been stamped clean has the content of its revision. *)
LEMMA CleanElf ==
  ASSUME Files, Stamped, Img!ElfOk(elf), ~ elf.identity.header.dirty
  PROVE  elf.code[1] = commits[elf.identity.header.revision]
  <1>1. elf.identity.crc = <<elf.code, elf.identity.header>>
    BY DEF Img!ElfOk, Img!Sealed
  <1> QED BY <1>1 DEF Img!ElfOk, Stamped
-----------------------------------------------------------------------------
LEMMA BuildStarts == Img!ImageFits /\ Img!Init => BuildInv
  <1> SUFFICES ASSUME Img!ImageFits, Img!Init PROVE BuildInv
    OBVIOUS
  <1>1. << >> \in Seq(Img!Byte) /\ Len(<< >>) = 0
    OBVIOUS
  <1>2. /\ commits \in Seq(TreeContent) /\ commits # << >>
        /\ builds \in 0 .. MaxBuilds
    BY DEF Img!ImageFits, Img!Init
  <1>3. /\ Img!Template \in Identities
        /\ Img!Template.header = NoHeader
        /\ Img!Template.crc = << >>
    BY DEF Img!Template, Identities
  <1>4. Img!TypeOK
    <2>1. elf.code = << >> /\ \A file \in {elf, bin, hex} : file.identity = Img!Template
      BY DEF Img!Init, Img!NoElf, Img!NoImage
    <2>2. \A image \in {bin, hex} : DOMAIN image.content = {}
      BY DEF Img!Init, Img!NoImage
    <2> QED BY <1>1, <1>2, <1>3, <2>1, <2>2 DEF Img!Init, Img!TypeOK
  <1>5. Files
    BY <1>1, <1>2, <1>3 DEF Img!Init, Files, Img!NoElf, Img!NoImage
  <1>6. Stamped /\ Recipe /\ Ended
    BY <1>3 DEF Img!Init, Stamped, Recipe, Ended, Img!NoElf
  <1> QED BY <1>4, <1>5, <1>6 DEF BuildInv

(* Stamped speaks of the ELF and of the commits alone. *)
LEMMA StampedKept ==
  ASSUME Stamped, UNCHANGED <<elf, commits>>
  PROVE  Stamped'
  BY DEF Stamped, Img!Revision

(* Between two runs of make nothing but the tree changes, or a commit is   *)
(* added behind the others; which files verify is forgotten.               *)
LEMMA EditStep ==
  ASSUME Img!ImageFits, BuildInv, NEW c \in TreeContent, Img!Edit(c)
  PROVE  BuildInv'
  <1>1. Img!TypeOK'
    BY DEF BuildInv, Img!TypeOK, Img!Edit, Img!files, Img!make
  <1>2. Files' /\ Stamped'
    BY StampedKept DEF BuildInv, Files, Img!Edit, Img!files
  <1> QED BY <1>1, <1>2 DEF BuildInv, Recipe, Ended, Img!Edit

LEMMA CommitStep == ASSUME Img!ImageFits, BuildInv, Img!Commit PROVE BuildInv'
  <1>1. /\ commits' \in Seq(TreeContent) /\ commits' # << >>
        /\ Img!Revision \in Nat /\ Img!Revision' = Img!Revision + 1
        /\ \A k \in 1 .. Img!Revision : commits'[k] = commits[k]
    BY AppendProperties, LenProperties
    DEF BuildInv, Img!TypeOK, Img!Commit, Img!Revision
  <1>2. Img!TypeOK' /\ Files'
    BY <1>1 DEF BuildInv, Img!TypeOK, Files, Img!Commit, Img!files, Img!make
  <1>3. Stamped'
    <2>1. elf' = elf /\ \A k \in 1 .. Img!Revision : k \in 1 .. Img!Revision'
      BY <1>1 DEF Img!Commit, Img!files
    <2> QED BY <1>1, <2>1 DEF BuildInv, Stamped
  <1> QED BY <1>2, <1>3 DEF BuildInv, Recipe, Ended, Img!Commit

LEMMA MakeStep ==
  ASSUME Img!ImageFits, BuildInv, NEW g \in {"elf", "check"}, NEW v \in Version,
         Img!Make(g, v)
  PROVE  BuildInv'
  <1>1. builds' \in 0 .. MaxBuilds
    BY DEF Img!ImageFits, BuildInv, Img!TypeOK, Img!Make
  <1>2. Img!TypeOK'
    BY <1>1 DEF BuildInv, Img!TypeOK, Img!Make, Img!source, Img!files
  <1>3. Files' /\ Stamped'
    BY StampedKept DEF BuildInv, Files, Img!Make, Img!source, Img!files
  <1> QED BY <1>2, <1>3 DEF BuildInv, Recipe, Ended, Img!Make

LEMMA VerifyFilesStep ==
  ASSUME Img!ImageFits, BuildInv, Img!VerifyFiles
  PROVE  BuildInv'
  <1>1. Img!TypeOK' /\ Files' /\ Stamped'
    BY StampedKept
    DEF BuildInv, Img!TypeOK, Files, Img!VerifyFiles, Img!source, Img!files, Img!make
  <1>2. Img!AllOk => Img!AllOk'
    BY DEF Img!AllOk, Img!VerifyFiles, Img!files
  <1> QED BY <1>1, <1>2 DEF BuildInv, Recipe, Ended, Img!VerifyFiles
-----------------------------------------------------------------------------
(* Objects are those of the tree, though perhaps of another VERSION. *)
LEMMA CompileStep == ASSUME Img!ImageFits, BuildInv, Img!Compile PROVE BuildInv'
  <1>1. /\ objects' \in TreeContent \X Version
        /\ objects'[1] = tree
        /\ objects' # << >>
    <2>1. CASE objects' = <<tree, version>>
      BY <2>1 DEF BuildInv, Img!TypeOK
    <2>2. CASE objects # << >> /\ objects[1] = tree /\ UNCHANGED objects
      BY <2>2 DEF BuildInv, Files
    <2> QED BY <2>1, <2>2 DEF Img!Compile
  <1>2. Img!TypeOK'
    BY DEF BuildInv, Img!TypeOK, Img!Compile, Img!source, Img!make
  <1>3. Files' /\ Stamped'
    BY <1>1, StampedKept DEF BuildInv, Files, Img!Compile, Img!source
  <1> QED BY <1>1, <1>2, <1>3 DEF BuildInv, Recipe, Ended, Img!Compile, Img!source

(* The ELF is linked anew, without a header. *)
LEMMA LinkStep ==
  ASSUME Img!ImageFits, BuildInv, pc = "link",
         NEW s \in Img!Placements(Len(Img!Linked)), Img!Link(s)
  PROVE  BuildInv'
  <1>1. /\ elf' = [code |-> Img!Linked, segments |-> s, identity |-> Img!Template]
        /\ pc' = "stamp" /\ Img!Linked' = Img!Linked
        /\ UNCHANGED <<Img!source, objects, bin, hex, Img!make, damaged>>
    BY DEF Img!Link, Img!MustLink, Img!Linked
  <1>2. Img!Linked \in Seq(Img!Byte)
    BY ImageFacts DEF BuildInv, Files, Recipe, Img!Linked
  <1>3. /\ Img!Template \in Identities
        /\ Img!Template.header = NoHeader
        /\ Img!Template.crc = << >>
    BY DEF Img!Template, Identities
  <1>4. Img!TypeOK'
    BY <1>1, <1>2, <1>3 DEF BuildInv, Img!TypeOK, Img!source, Img!make
  <1>5. Files'
    BY <1>1, <1>2, <1>3 DEF BuildInv, Files, Img!source
  <1>6. Stamped'
    BY <1>1, <1>3 DEF Stamped
  <1> QED BY <1>1, <1>4, <1>5, <1>6 DEF BuildInv, Recipe, Ended, Img!source

(* What the tool refuses to stamp was not laid out neatly. *)
LEMMA StampStep == ASSUME Img!ImageFits, BuildInv, Img!Stamp PROVE BuildInv'
  <1>1. /\ pc = "stamp" /\ UNCHANGED <<Img!source, Img!files, Img!make, damaged>>
        /\ pc' = IF Img!LayoutOk(elf) THEN "save" ELSE "stopped"
    BY DEF Img!Stamp
  <1>2. Img!TypeOK' /\ Files' /\ Stamped'
    BY <1>1, StampedKept
    DEF BuildInv, Img!TypeOK, Files, Img!source, Img!files, Img!make
  <1>3. Img!Linked' = Img!Linked
    BY <1>1 DEF Img!Linked, Img!files
  <1>4. Len(elf.code) \in 2 .. IdentityAddress
    BY <1>1, ImageFacts DEF BuildInv, Files, Recipe, Img!Linked
  <1>5. elf.segments \in Neat(Len(elf.code)) => Img!LayoutOk(elf)
    BY <1>4, NeatFacts
  <1>6. elf' = elf /\ tree' = tree /\ objects' = objects
    BY <1>1 DEF Img!source, Img!files
  <1> QED BY <1>1, <1>2, <1>3, <1>5, <1>6 DEF BuildInv, Recipe, Ended

(* The block now seals the code of this revision, and verifies. *)
LEMMA SaveStep == ASSUME Img!ImageFits, BuildInv, Img!Save PROVE BuildInv'
  <1> DEFINE code == elf.code
             header == Img!Header(Len(code))
  <1>1. /\ pc = "save" /\ pc' = "verify"
        /\ elf' = [code |-> code, segments |-> elf.segments,
                   identity |-> Img!Sealed(header, code)]
        /\ UNCHANGED <<Img!source, objects, bin, hex, Img!make, damaged>>
    BY DEF Img!Save, BuildInv, Files
  <1>2. code \in Seq(Img!Byte) /\ Len(code) \in Nat /\ Img!LayoutOk(elf)
    BY <1>1, LenProperties DEF BuildInv, Files, Recipe
  <1>3. Img!Revision \in Nat \ {0}
    BY EmptySeq, LenProperties DEF BuildInv, Img!TypeOK, Files, Img!Revision
  <1>4. header \in Headers /\ header # NoHeader /\ header.length = Len(code)
    <2>1. version \in Version /\ Img!Dirty \in BOOLEAN
      BY DEF BuildInv, Img!TypeOK, Img!Dirty
    <2>2. header \in Headers /\ header.length = Len(code)
      BY <1>2, <1>3, <2>1 DEF Img!Header, Headers
    <2> QED BY <2>2 DEF Img!ImageFits, Headers
  <1>5. /\ Img!Sealed(header, code).header = header
        /\ Img!Sealed(header, code).crc = <<code, header>>
        /\ <<code, header>> # << >> /\ <<code, header>> \in Seq(Img!Byte) \X Headers
        /\ Img!Sealed(header, code) \in Identities
    BY <1>2, <1>4 DEF Img!Sealed, Identities
  <1>6. header' = header /\ Img!Revision' = Img!Revision
    BY <1>1 DEF Img!Header, Img!Dirty, Img!Revision, Img!source, Img!make
  <1>7. code[1] = tree
    BY <1>1, ImageFacts DEF BuildInv, Files, Recipe, Img!Linked
  <1>8. header.revision = Img!Revision /\ (~ header.dirty => tree = commits[Img!Revision])
    BY DEF Img!Header, Img!Dirty
  <1>9. Img!LayoutOk(elf')
    BY <1>1, <1>2 DEF Img!LayoutOk
  <1> HIDE DEF code, header
  <1>10. Img!TypeOK'
    <2>1. \A file \in {elf', bin', hex'} :
            file.identity.header = NoHeader <=> file.identity.crc = << >>
      <3>1. elf'.identity.header # NoHeader /\ elf'.identity.crc # << >>
        BY <1>1, <1>4, <1>5
      <3>2. bin' = bin /\ hex' = hex
        BY <1>1
      <3> QED BY <3>1, <3>2 DEF BuildInv, Img!TypeOK
    <2>2. elf'.code = code
      BY <1>1
    <2> QED BY <1>1, <1>2, <2>1, <2>2 DEF BuildInv, Img!TypeOK, Img!source, Img!make
  <1>11. Files'
    BY <1>1, <1>2, <1>5 DEF BuildInv, Files, Img!source, code
  <1>12. Stamped'
    <2>1. /\ elf'.identity.header = header /\ elf'.identity.crc = <<code, header>>
          /\ commits' = commits
      BY <1>1, <1>5 DEF Img!source
    <2>2. header.revision \in 1 .. Img!Revision'
      BY <1>3, <1>6, <1>8
    <2>3. ~ header.dirty => code[1] = commits[header.revision]
      BY <1>7, <1>8
    <2> QED BY <1>5, <2>1, <2>2, <2>3 DEF Stamped
  <1>13. Img!ElfOk(elf)' /\ elf'.identity.header = Img!Header(Len(elf.code))'
    BY <1>1, <1>4, <1>5, <1>6, <1>9 DEF Img!ElfOk, code, header
  <1> QED BY <1>1, <1>10, <1>11, <1>12, <1>13 DEF BuildInv, Recipe, Ended

(* What was just stamped verifies. *)
LEMMA VerifyStep == ASSUME Img!ImageFits, BuildInv, Img!Verify PROVE BuildInv'
  <1>1. /\ pc = "verify" /\ Img!ElfOk(elf) /\ pc' \in {"built", "binary"}
        /\ UNCHANGED <<Img!source, Img!files, Img!make, damaged>>
    BY DEF BuildInv, Img!TypeOK, Recipe, Img!Verify
  <1>2. Img!TypeOK' /\ Files' /\ Stamped'
    BY <1>1, StampedKept
    DEF BuildInv, Img!TypeOK, Files, Img!source, Img!files, Img!make
  <1>3. Img!Header(Len(elf.code))' = Img!Header(Len(elf.code))
    BY <1>1 DEF Img!Header, Img!Dirty, Img!Revision, Img!source, Img!files, Img!make
  <1>4. elf' = elf
    BY <1>1 DEF Img!files
  <1> QED BY <1>1, <1>2, <1>3, <1>4 DEF BuildInv, Recipe, Ended

(* The bytes of an image, and nothing else, are in its BIN and HEX. *)
LEMMA ImageBytes ==
  ASSUME Img!ImageFits, Img!TypeOK, Files, Img!ElfOk(elf)
  PROVE  /\ Img!Loaded(elf) \subseteq 0 .. IdentityAddress - 1
         /\ \A a \in 0 .. IdentityAddress - 1 : Img!ByteAt(elf, a) \in Img!Byte
         /\ Erased \in Img!Byte
  <1>1. elf.code \in Seq(Img!Byte) /\ Len(elf.code) \in 1 .. IdentityAddress
    BY DEF Files, Img!ElfOk, Img!LayoutOk
  <1>2. Img!Loaded(elf) \subseteq 0 .. IdentityAddress - 1
    BY <1>1, LoadedRange DEF Files
  <1>3. ASSUME NEW a \in 0 .. IdentityAddress - 1 PROVE Img!ByteAt(elf, a) \in Img!Byte
    <2>1. CASE a < Len(elf.code)
      <3>1. a + 1 \in 1 .. Len(elf.code)
        BY <1>1, <2>1 DEF Img!ImageFits
      <3> QED BY <1>1, <2>1, <3>1 DEF Img!ByteAt
    <2>2. CASE ~ (a < Len(elf.code))
      BY <2>2 DEF Img!ByteAt, Img!Byte
    <2> QED BY <2>1, <2>2
  <1> QED BY <1>2, <1>3 DEF Img!Byte

LEMMA ObjcopyBinaryStep ==
  ASSUME Img!ImageFits, BuildInv, Img!ObjcopyBinary
  PROVE  BuildInv'
  <1>1. /\ pc = "binary" /\ pc' = "hex" /\ bin' = Img!Binary(elf)
        /\ elf' = elf /\ UNCHANGED <<Img!source, objects, hex, Img!make, damaged>>
        /\ Img!ElfOk(elf)
    BY DEF Img!ObjcopyBinary, BuildInv, Recipe
  <1>2. /\ bin' = [content |-> bin'.content, identity |-> bin'.identity]
        /\ bin'.identity = elf.identity
    BY <1>1 DEF Img!Binary
  <1>3. /\ DOMAIN bin'.content = 0 .. IdentityAddress - 1
        /\ \A a \in 0 .. IdentityAddress - 1 : bin'.content[a] \in Img!Byte
    BY <1>1, ImageBytes DEF Img!Binary, Img!GapFill, BuildInv
  <1>4. Img!TypeOK'
    BY <1>1, <1>2, <1>3 DEF BuildInv, Img!TypeOK, Img!source, Img!make
  <1>5. Files' /\ Stamped'
    BY <1>1, <1>2, StampedKept DEF BuildInv, Files, Img!source
  <1>6. Img!Header(Len(elf.code))' = Img!Header(Len(elf.code))
    BY <1>1 DEF Img!Header, Img!Dirty, Img!Revision, Img!source, Img!make
  <1> QED BY <1>1, <1>4, <1>5, <1>6 DEF BuildInv, Recipe, Ended

LEMMA ObjcopyHexStep ==
  ASSUME Img!ImageFits, BuildInv, Img!ObjcopyHex
  PROVE  BuildInv'
  <1>1. /\ pc = "hex" /\ pc' = "check" /\ hex' = Img!Hex(elf)
        /\ elf' = elf
        /\ bin' = bin
        /\ UNCHANGED <<Img!source, objects, Img!make, damaged>>
        /\ Img!ElfOk(elf)
    BY DEF Img!ObjcopyHex, BuildInv, Recipe
  <1>2. /\ hex' = [content |-> hex'.content, identity |-> hex'.identity]
        /\ hex'.identity = elf.identity
    BY <1>1 DEF Img!Hex
  <1>3. /\ DOMAIN hex'.content \subseteq 0 .. IdentityAddress - 1
        /\ \A a \in DOMAIN hex'.content : hex'.content[a] \in Img!Byte
    BY <1>1, ImageBytes DEF Img!Hex, BuildInv
  <1>4. Img!TypeOK'
    BY <1>1, <1>2, <1>3 DEF BuildInv, Img!TypeOK, Img!source, Img!make
  <1>5. Files' /\ Stamped'
    BY <1>1, <1>2, StampedKept DEF BuildInv, Files, Img!source
  <1>6. Img!Header(Len(elf.code))' = Img!Header(Len(elf.code))
    BY <1>1 DEF Img!Header, Img!Dirty, Img!Revision, Img!source, Img!make
  <1> QED BY <1>1, <1>4, <1>5, <1>6 DEF BuildInv, Recipe, Ended

(* The last check refuses only what was not laid out neatly. *)
LEMMA CheckStep == ASSUME Img!ImageFits, BuildInv, Img!Check PROVE BuildInv'
  <1>1. /\ pc = "check" /\ pc' = IF Img!AllOk THEN "checked" ELSE "stopped"
        /\ UNCHANGED <<Img!source, Img!files, Img!make, damaged>>
        /\ Img!ElfOk(elf) /\ bin = Img!Binary(elf) /\ hex = Img!Hex(elf)
    BY DEF BuildInv, Recipe, Img!Check
  <1>2. Img!TypeOK' /\ Files' /\ Stamped'
    BY <1>1, StampedKept
    DEF BuildInv, Img!TypeOK, Files, Img!source, Img!files, Img!make
  <1>3. Img!Header(Len(elf.code))' = Img!Header(Len(elf.code)) /\ elf' = elf
    BY <1>1 DEF Img!Header, Img!Dirty, Img!Revision, Img!source, Img!files, Img!make
  <1>4. Img!AllOk <=> Img!AllOk'
    BY <1>1 DEF Img!AllOk, Img!files
  <1>5. elf.segments \in Neat(Len(elf.code)) => Img!AllOk
    <2>1. elf.code \in Seq(Img!Byte) /\ Len(elf.code) \in 1 .. IdentityAddress
      BY <1>1 DEF BuildInv, Files, Img!ElfOk, Img!LayoutOk
    <2> QED BY <1>1, <2>1, NeatVerifies DEF Img!AllOk
  <1> QED BY <1>1, <1>2, <1>3, <1>4, <1>5 DEF BuildInv, Recipe, Ended
-----------------------------------------------------------------------------
(* A file cut short is an empty one, and verifies with nothing. *)
LEMMA InterruptStep == ASSUME Img!ImageFits, BuildInv, Img!Interrupt PROVE BuildInv'
  <1>1. /\ pc' = "idle" /\ elf' \in {elf, Img!NoElf}
        /\ bin' \in {bin, Img!NoImage} /\ hex' \in {hex, Img!NoImage}
        /\ UNCHANGED <<Img!source, objects, Img!make, damaged>>
    BY DEF Img!Interrupt
  <1>2. /\ << >> \in Seq(Img!Byte) /\ DOMAIN << >> = {}
        /\ Img!Template \in Identities
        /\ Img!Template.header = NoHeader
        /\ Img!Template.crc = << >>
    BY DEF Img!Template, Identities
  <1>3. Img!NoElf.code = << >>
    BY DEF Img!NoElf
  <1>4. Img!TypeOK'
    <2>1. elf'.code \in Seq(Img!Byte)
      BY <1>1, <1>2, <1>3 DEF BuildInv, Img!TypeOK
    <2>2. \A file \in {elf', bin', hex'} :
            file.identity.header = NoHeader <=> file.identity.crc = << >>
      BY <1>1, <1>2 DEF BuildInv, Img!TypeOK, Img!NoElf, Img!NoImage
    <2>3. DOMAIN Img!NoImage.content = {}
      BY DEF Img!NoImage
    <2>4. \A image \in {bin', hex'} : \A a \in DOMAIN image.content :
            a \in 0 .. IdentityAddress - 1 /\ image.content[a] \in Img!Byte
      BY <1>1, <2>3 DEF BuildInv, Img!TypeOK
    <2> QED BY <1>1, <2>1, <2>2, <2>4 DEF BuildInv, Img!TypeOK, Img!source, Img!make
  <1>5. Files'
    <2>1. elf' \in [code : Seq(Img!Byte), segments : {<< >>} \cup Img!Placements(Len(elf'.code)),
                    identity : Identities]
      <3>1. CASE elf' = elf
        BY <3>1 DEF BuildInv, Files
      <3>2. CASE elf' = Img!NoElf
        BY <1>2, <3>2 DEF Img!NoElf
      <3> QED BY <1>1, <3>1, <3>2
    <2>2. /\ bin' = [content |-> bin'.content, identity |-> bin'.identity]
          /\ hex' = [content |-> hex'.content, identity |-> hex'.identity]
          /\ bin'.identity \in Identities /\ hex'.identity \in Identities
      BY <1>1, <1>2 DEF BuildInv, Files, Img!NoImage
    <2> QED BY <1>1, <2>1, <2>2 DEF BuildInv, Files, Img!source
  <1>6. Stamped'
    <2>1. CASE elf' = elf
      BY <1>1, <2>1, StampedKept DEF BuildInv, Img!source
    <2>2. CASE elf' = Img!NoElf
      BY <1>2, <2>2 DEF Stamped, Img!NoElf
    <2> QED BY <1>1, <2>1, <2>2
  <1> QED BY <1>1, <1>4, <1>5, <1>6 DEF BuildInv, Recipe, Ended

(* Damage keeps the size of a file and misses the identity block, which    *)
(* goes on to say what the file was.                                       *)
LEMMA DamageStep == ASSUME Img!ImageFits, BuildInv, Img!Damage PROVE BuildInv'
  <1>1. PICK b \in Img!Byte :
          \/ /\ \E i \in DOMAIN elf.code : elf' = [elf EXCEPT !.code[i] = b]
             /\ UNCHANGED <<bin, hex>>
          \/ /\ \E a \in DOMAIN bin.content : bin' = [bin EXCEPT !.content[a] = b]
             /\ UNCHANGED <<elf, hex>>
          \/ /\ \E a \in DOMAIN hex.content :
                  hex' \in {[hex EXCEPT !.content[a] = b],
                            [hex EXCEPT !.content = [c \in DOMAIN @ \ {a} |-> @[c]]]}
             /\ UNCHANGED <<elf, bin>>
    BY DEF Img!Damage
  <1>2. /\ pc' = "idle" /\ damaged' = TRUE
        /\ UNCHANGED <<Img!source, objects, Img!make>>
    BY DEF Img!Damage
  <1> DEFINE
        ElfKept == /\ elf'.code \in Seq(Img!Byte) /\ Len(elf'.code) = Len(elf.code)
                   /\ elf' = [code |-> elf'.code, segments |-> elf.segments,
                              identity |-> elf.identity]
        InRange(content) ==
          \A a \in DOMAIN content : a \in 0 .. IdentityAddress - 1 /\ content[a] \in Img!Byte
        BinKept == /\ bin' = [content |-> bin'.content, identity |-> bin.identity]
                   /\ InRange(bin'.content)
        HexKept == /\ hex' = [content |-> hex'.content, identity |-> hex.identity]
                   /\ InRange(hex'.content)
  <1>3. ElfKept
    <2>1. ASSUME NEW i \in DOMAIN elf.code, elf' = [elf EXCEPT !.code[i] = b]
          PROVE  ElfKept
      <3>1. elf.code \in Seq(Img!Byte)
        BY DEF BuildInv, Files
      <3>2. [elf.code EXCEPT ![i] = b] \in Seq(Img!Byte)
            /\ Len([elf.code EXCEPT ![i] = b]) = Len(elf.code)
        BY <3>1
      <3>3. elf' = [code |-> [elf.code EXCEPT ![i] = b], segments |-> elf.segments,
                    identity |-> elf.identity]
        BY <2>1 DEF BuildInv, Files
      <3> QED BY <3>2, <3>3
    <2>2. CASE UNCHANGED elf
      BY <2>2 DEF BuildInv, Files
    <2> QED BY <1>1, <2>1, <2>2
  <1>4. BinKept
    <2>1. ASSUME NEW a \in DOMAIN bin.content, bin' = [bin EXCEPT !.content[a] = b]
          PROVE  BinKept
      BY <2>1 DEF BuildInv, Files, Img!TypeOK
    <2>2. CASE UNCHANGED bin
      BY <2>2 DEF BuildInv, Files, Img!TypeOK
    <2> QED BY <1>1, <2>1, <2>2
  <1>5. HexKept
    <2>1. ASSUME NEW a \in DOMAIN hex.content, hex' = [hex EXCEPT !.content[a] = b]
          PROVE  HexKept
      BY <2>1 DEF BuildInv, Files, Img!TypeOK
    <2>2. ASSUME NEW a \in DOMAIN hex.content,
                 hex' = [hex EXCEPT !.content = [c \in DOMAIN @ \ {a} |-> @[c]]]
          PROVE  HexKept
      <3>1. hex' = [content |-> [c \in DOMAIN hex.content \ {a} |-> hex.content[c]],
                    identity |-> hex.identity]
        BY <2>2 DEF BuildInv, Files
      <3> QED BY <3>1 DEF BuildInv, Img!TypeOK
    <2>3. CASE UNCHANGED hex
      BY <2>3 DEF BuildInv, Files, Img!TypeOK
    <2> QED BY <1>1, <2>1, <2>2, <2>3
  <1>6. Img!TypeOK'
    <2>1. \A file \in {elf', bin', hex'} :
            file.identity.header = NoHeader <=> file.identity.crc = << >>
      BY <1>3, <1>4, <1>5 DEF BuildInv, Img!TypeOK
    <2> QED BY <1>2, <1>3, <1>4, <1>5, <2>1
    DEF BuildInv, Img!TypeOK, Img!source, Img!make
  <1>7. Files'
    BY <1>2, <1>3, <1>4, <1>5 DEF BuildInv, Files, Img!source
  <1>8. Stamped'
    BY <1>2, <1>3 DEF BuildInv, Stamped, Img!Revision, Img!source
  <1> QED BY <1>2, <1>6, <1>7, <1>8 DEF BuildInv, Recipe, Ended
-----------------------------------------------------------------------------
LEMMA BuildStep ==
  ASSUME Img!ImageFits, BuildInv, [Img!Next]_(Img!vars)
  PROVE  BuildInv'
  <1>1. CASE UNCHANGED Img!vars
    BY <1>1
    DEF BuildInv, Img!TypeOK, Files, Stamped, Recipe, Ended, Img!vars, Img!source,
        Img!files, Img!make,
        Img!Linked, Img!Header, Img!Dirty, Img!Revision, Img!AllOk
  <1> QED
    BY <1>1, EditStep, CommitStep, MakeStep, VerifyFilesStep, CompileStep, LinkStep,
       StampStep, SaveStep, VerifyStep, ObjcopyBinaryStep, ObjcopyHexStep, CheckStep,
       InterruptStep, DamageStep
    DEF Img!Next

LEMMA BuildInvHolds == BuildSpec => []BuildInv
  <1>1. BuildInit => BuildInv
    BY BuildStarts, ImageAssumption DEF BuildInit
  <1>2. BuildInv /\ [BuildNext]_<<vars, build_vars>> => BuildInv'
    <2> SUFFICES ASSUME BuildInv, [BuildNext]_<<vars, build_vars>> PROVE BuildInv'
      OBVIOUS
    <2>1. [Img!Next]_Img!vars
      BY DEF BuildNext, build_vars, Img!vars, Img!source, Img!files, Img!make
    <2> QED BY <2>1, BuildStep, ImageAssumption
  <1> QED BY <1>1, <1>2, PTL DEF BuildSpec

(* Whatever earlier runs of make, kills and damage left behind, files that *)
(* verify together fill the flash alike, pass the target's own check and   *)
(* carry one identity.                                                     *)
THEOREM AcceptedFilesAgree == BuildSpec => []FilesAgree
  <1>1. BuildInv => FilesAgree
    BY OkAgrees, ImageAssumption DEF BuildInv, FilesAgree, Img!FilesAgree, Ended
  <1> QED BY <1>1, BuildInvHolds, PTL

(* A run of make that nobody interrupts fails only over the layout. *)
THEOREM MakeFailsForCause == BuildSpec => []FailsForCause
  <1>1. BuildInv => FailsForCause
    BY DEF BuildInv, FailsForCause, Img!FailsForCause, Ended, Neat
  <1> QED BY <1>1, BuildInvHolds, PTL

(* The identity of what make built is that of this run of make. *)
THEOREM IdentityIsCurrent == BuildSpec => []IdentityCurrent
  <1>1. BuildInv => IdentityCurrent
    BY DEF BuildInv, IdentityCurrent, Img!IdentityCurrent, Recipe
  <1> QED BY <1>1, BuildInvHolds, PTL

(* An ELF that verifies and calls itself clean holds the tree of the       *)
(* revision it names, however long ago it was built.                       *)
THEOREM CleanIsWhatWasCommitted == BuildSpec => []CleanIsCommitted
  <1>1. BuildInv => CleanIsCommitted
    BY CleanElf DEF BuildInv, CleanIsCommitted, Img!CleanIsCommitted, Recipe, Ended,
                    Img!AllOk
  <1> QED BY <1>1, BuildInvHolds, PTL
=============================================================================
