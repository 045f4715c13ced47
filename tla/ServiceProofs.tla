---------------------------- MODULE ServiceProofs ----------------------------
(***************************************************************************)
(* The programs around the challenge servers, for any bounds: ResultsFile, *)
(* whatever a crash leaves on disk and however reads and rewrites overlap, *)
(* PriceServer and MockServer, however their threads and their clients     *)
(* interleave, Strategy, whatever the feed, and BlastRounds, for any       *)
(* number of clients, names and challenges and any bursts.                 *)
(***************************************************************************)
EXTENDS ResultsFile, PriceServer, MockServer, Strategy, BlastRounds, SequenceTheorems, NumberFacts,
        TLAPS

-----------------------------------------------------------------------------
(***************************************************************************)
(* ResultsFile.  All the texts the file has between two crashes are        *)
(* beginnings of documents whose lists continue one another.  So what is   *)
(* read at a position is the entry every later list has there, or the      *)
(* closing bracket of a list that was complete; and a text with a bracket  *)
(* anywhere but at its end does not parse.                                 *)
(***************************************************************************)

Text == Entries \cup {LBracket, RBracket}

Begins(s, t) == Len(s) <= Len(t) /\ \A i \in 1 .. Len(s) : s[i] = t[i]

\* The longest list there has been.
Latest == IF writer = "write" THEN allResults ELSE results

\* t is text of lists that are beginnings of list, none shorter than n.
TextOf(t, n, list) ==
    \A i \in 1 .. Len(t) :
        IF i = 1 THEN t[i] = LBracket
        ELSE \/ t[i] = RBracket /\ i >= n + 2
             \/ i - 1 <= Len(list) /\ t[i] = list[i - 1]

ListOf(s, n, list) == s \in Seq(Entries) /\ Begins(s, list) /\ Len(s) >= n

WriterTypes ==
    /\ writer \in {"wait", "read", "open", "write", "down"}
    /\ crashes \in Nat /\ logged \in 0 .. MaxRounds
    /\ writer \in {"read", "open", "write"} => logged \in Entries
    /\ allResults \in Seq(Entries) /\ results \in Seq(Entries)
    /\ file \in Seq(Text) \cup {Absent}

ReaderTypes ==
    /\ request \in [Readers -> {"idle", "reading"}]
    /\ \A r \in Readers : request[r] = "reading" => file # Absent
    /\ text \in [Readers -> Seq(Text)]
    /\ since \in [Readers -> Nat]
    /\ shown = [r \in Readers |-> shown[r]]

FileTypes == WriterTypes /\ ReaderTypes

BeingWritten == writer = "write" => file \in Seq(Text) /\ Begins(file, Doc(allResults))

LeftInOrder ==
    /\ writer = "down" => crashes > 0
    /\ writer = "wait" =>
          file = Absent \/ WellFormed(file) \/ (crashes > 0 /\ allResults = <<>>)

NothingForgotten ==
    crashes = 0 =>
        /\ writer # "write" => (file = Absent /\ results = <<>>) \/ file = Doc(results)
        /\ writer \in {"open", "write"} => allResults = Append(results, logged)

ReadSoFar ==
    crashes = 0 =>
        \A r \in Readers :
            IF request[r] = "reading"
            THEN since[r] <= Len(results) /\ TextOf(text[r], since[r], Latest)
            ELSE shown[r] = Error \/ ListOf(shown[r], since[r], Latest)

FileInv == FileTypes /\ BeingWritten /\ LeftInOrder /\ NothingForgotten /\ ReadSoFar

\* What a document is, place by place.
LEMMA DocIs ==
    ASSUME NEW list \in Seq(Entries)
    PROVE  /\ Doc(list) \in Seq(Text) /\ Len(Doc(list)) = Len(list) + 2
           /\ Doc(list)[1] = LBracket /\ Doc(list)[Len(list) + 2] = RBracket
           /\ \A i \in 2 .. Len(list) + 1 : Doc(list)[i] = list[i - 1]
           /\ Doc(list) # Absent
<1>1. list \in Seq(Text)
  BY SeqMonotonic DEF Text
<1>2. <<LBracket>> \in Seq(Text) /\ <<RBracket>> \in Seq(Text)
  BY DEF Text
<1> DEFINE front == <<LBracket>> \o list
<1>3. /\ front \in Seq(Text) /\ Len(front) = Len(list) + 1 /\ front[1] = LBracket
      /\ \A i \in 2 .. Len(list) + 1 : front[i] = list[i - 1]
  BY <1>1, <1>2
<1> HIDE DEF front
<1>4. /\ front \o <<RBracket>> \in Seq(Text) /\ Len(front \o <<RBracket>>) = Len(front) + 1
      /\ (front \o <<RBracket>>)[Len(front) + 1] = RBracket
      /\ \A i \in 1 .. Len(front) : (front \o <<RBracket>>)[i] = front[i]
  BY <1>2, <1>3
<1>5. Len(list) \in Nat
  OBVIOUS
<1>6. Doc(list) = front \o <<RBracket>>
  BY DEF Doc, front
<1>7. Doc(list) # Absent
  BY <1>4, <1>6, FileAssumption DEF Text, Entries
<1> QED BY <1>3, <1>4, <1>5, <1>6, <1>7

\* A document parses to its list.
LEMMA DocParses ==
    ASSUME NEW list \in Seq(Entries)
    PROVE  WellFormed(Doc(list)) /\ Parsed(Doc(list)) = list
<1> DEFINE d == Doc(list)
<1>1. /\ d \in Seq(Text) /\ Len(d) = Len(list) + 2
      /\ d[1] = LBracket /\ d[Len(list) + 2] = RBracket
      /\ \A i \in 2 .. Len(list) + 1 : d[i] = list[i - 1]
  BY DocIs
<1>2. Len(list) \in Nat /\ \A i \in 1 .. Len(list) : list[i] \in Entries
  OBVIOUS
<1> HIDE DEF d
<1>3. \A i \in 2 .. Len(d) - 1 : d[i] \in Entries
  BY <1>1, <1>2
<1>4. WellFormed(d)
  BY <1>1, <1>2, <1>3 DEF WellFormed
<1>5. /\ Parsed(d) \in Seq(Entries) /\ Len(Parsed(d)) = Len(list)
      /\ \A i \in 1 .. Len(list) : Parsed(d)[i] = d[i + 1]
  BY <1>1, <1>2, <1>3 DEF Parsed
<1>6. Parsed(d) = list
  <2>1. \A i \in 1 .. Len(list) : i + 1 \in 2 .. Len(list) + 1 /\ i + 1 - 1 = i
    BY <1>2
  <2>2. ASSUME NEW i \in 1 .. Len(list) PROVE Parsed(d)[i] = list[i]
    <3>1. Parsed(d)[i] = d[i + 1]
      BY <1>5
    <3>2. d[i + 1] = list[i + 1 - 1]
      BY <1>1, <2>1
    <3> QED BY <2>1, <3>1, <3>2
  <2> QED BY <1>5, <2>2, SeqEqual
<1> QED BY <1>4, <1>6 DEF d

LEMMA ParsedType ==
    ASSUME NEW s \in Seq(Text), WellFormed(s)
    PROVE  /\ Parsed(s) \in Seq(Entries) /\ Len(Parsed(s)) = Len(s) - 2
           /\ \A i \in 1 .. Len(s) - 2 : Parsed(s)[i] = s[i + 1]
<1>1. Len(s) \in Nat /\ Len(s) >= 2 /\ \A i \in 2 .. Len(s) - 1 : s[i] \in Entries
  BY DEF WellFormed
<1>2. /\ Parsed(s) \in Seq(Entries)
      /\ Len(Parsed(s)) = IF 2 <= Len(s) - 1 THEN (Len(s) - 1) - 2 + 1 ELSE 0
      /\ \A i \in 1 .. (Len(s) - 1) - 2 + 1 : Parsed(s)[i] = s[2 + i - 1]
  BY <1>1, SubSeqProperties DEF Parsed
<1>3. \A l \in Nat : l >= 2 =>
          /\ (IF 2 <= l - 1 THEN (l - 1) - 2 + 1 ELSE 0) = l - 2
          /\ \A i \in 1 .. l - 2 : i \in 1 .. (l - 1) - 2 + 1 /\ 2 + i - 1 = i + 1
  OBVIOUS
<1> QED BY <1>1, <1>2, <1>3

LEMMA BeginsItself == ASSUME NEW S, NEW s \in Seq(S) PROVE Begins(s, s)
BY DEF Begins

LEMMA BeginsAppended ==
    ASSUME NEW s \in Seq(Entries), NEW e \in Entries
    PROVE  Begins(s, Append(s, e)) /\ Append(s, e) \in Seq(Entries)
BY DEF Begins

\* A list that continues another one allows all that the other one did.
LEMMA ListsContinue ==
    ASSUME NEW list \in Seq(Entries), NEW more \in Seq(Entries), Begins(list, more), NEW n \in Nat
    PROVE  /\ \A t \in Seq(Text) : TextOf(t, n, list) => TextOf(t, n, more)
           /\ \A s : ListOf(s, n, list) => ListOf(s, n, more)
<1>1. Len(list) \in Nat /\ Len(more) \in Nat
  OBVIOUS
<1>2. ASSUME NEW t \in Seq(Text), TextOf(t, n, list) PROVE TextOf(t, n, more)
  <2> SUFFICES ASSUME NEW i \in 1 .. Len(t), i # 1, i - 1 <= Len(list), t[i] = list[i - 1]
               PROVE  i - 1 <= Len(more) /\ t[i] = more[i - 1]
    BY <1>2 DEF TextOf
  <2>1. Len(t) \in Nat
    OBVIOUS
  <2> QED BY <1>1, <2>1 DEF Begins
<1>3. ASSUME NEW s, ListOf(s, n, list) PROVE ListOf(s, n, more)
  <2>1. Len(s) \in Nat
    BY <1>3, LenProperties DEF ListOf
  <2> QED BY <1>1, <1>3, <2>1 DEF ListOf, Begins
<1> QED BY <1>2, <1>3

\* A portion read from the file at the reader's offset.
LEMMA PortionRead ==
    ASSUME NEW t \in Seq(Text), NEW f \in Seq(Text), NEW n \in Nat, NEW m \in Nat, n <= m,
           NEW list, TextOf(t, n, list), TextOf(f, m, list), NEW k \in (Len(t) + 1) .. Len(f)
    PROVE  /\ t \o SubSeq(f, Len(t) + 1, k) \in Seq(Text)
           /\ TextOf(t \o SubSeq(f, Len(t) + 1, k), n, list)
<1> DEFINE p == SubSeq(f, Len(t) + 1, k)
           q == t \o p
<1>1. Len(t) \in Nat /\ Len(f) \in Nat
  OBVIOUS
<1>2. p \in Seq(Text) /\ Len(p) = k - Len(t) /\ \A i \in 1 .. Len(p) : p[i] = f[Len(t) + i]
  BY <1>1
<1> HIDE DEF p
<1>3. q \in Seq(Text) /\ Len(q) = k
      /\ \A i \in 1 .. k : q[i] = IF i <= Len(t) THEN t[i] ELSE p[i - Len(t)]
  BY <1>1, <1>2
<1> HIDE DEF q
<1>4. \A i \in 1 .. k : q[i] = IF i <= Len(t) THEN t[i] ELSE f[i]
  <2>1. \A i \in 1 .. k : ~(i <= Len(t)) => i - Len(t) \in 1 .. Len(p) /\ Len(t) + (i - Len(t)) = i
    BY <1>1, <1>2
  <2>2. \A i \in 1 .. k : ~(i <= Len(t)) => p[i - Len(t)] = f[i]
    BY <1>2, <2>1
  <2> QED BY <1>3, <2>2
<1>5. TextOf(q, n, list)
  <2> SUFFICES ASSUME NEW i \in 1 .. k
               PROVE  IF i = 1 THEN q[i] = LBracket
                      ELSE \/ q[i] = RBracket /\ i >= n + 2
                           \/ i - 1 <= Len(list) /\ q[i] = list[i - 1]
    BY <1>3 DEF TextOf
  <2>1. CASE i <= Len(t)
    <3>1. i \in 1 .. Len(t) /\ q[i] = t[i]
      BY <1>1, <1>4, <2>1
    <3> QED BY <3>1 DEF TextOf
  <2>2. CASE i > Len(t)
    <3>1. i \in 1 .. Len(f) /\ q[i] = f[i]
      BY <1>1, <1>4, <2>2
    <3>2. i >= m + 2 => i >= n + 2
      OBVIOUS
    <3> QED BY <3>1, <3>2 DEF TextOf
  <2> QED BY <1>1, <2>1, <2>2
<1> QED BY <1>3, <1>5 DEF p, q

\* What parses has its only closing bracket at its end.
LEMMA ParsedIsList ==
    ASSUME NEW t \in Seq(Text), NEW n \in Nat, NEW list \in Seq(Entries),
           TextOf(t, n, list), WellFormed(t)
    PROVE  ListOf(Parsed(t), n, list)
<1>1. Len(t) \in Nat /\ Len(t) >= 2 /\ t[Len(t)] = RBracket /\ Len(list) \in Nat
  BY DEF WellFormed
<1>2. /\ Parsed(t) \in Seq(Entries) /\ Len(Parsed(t)) = Len(t) - 2
      /\ \A i \in 1 .. Len(t) - 2 : Parsed(t)[i] = t[i + 1]
  BY ParsedType
<1>3. RBracket \notin Entries /\ LBracket \notin Entries
  BY FileAssumption DEF Entries
<1>4. Len(t) >= n + 2
  <2>1. Len(t) - 1 <= Len(list) => list[Len(t) - 1] \in Entries
    BY <1>1
  <2> QED BY <1>1, <1>3, <2>1 DEF TextOf
<1>5. ASSUME NEW i \in 1 .. Len(t) - 2 PROVE i <= Len(list) /\ t[i + 1] = list[i]
  <2>1. i + 1 \in 2 .. Len(t) - 1 /\ i + 1 \in 1 .. Len(t) /\ i + 1 # 1 /\ i + 1 - 1 = i
    BY <1>1
  <2>2. t[i + 1] # RBracket
    BY <1>3, <2>1 DEF WellFormed
  <2> QED BY <2>1, <2>2 DEF TextOf
<1>6. Len(t) - 2 <= Len(list)
  <2>1. CASE Len(t) = 2
    BY <1>1, <2>1
  <2>2. CASE Len(t) # 2
    <3>1. \A l \in Nat : l >= 2 /\ l # 2 => l - 2 \in 1 .. l - 2
      OBVIOUS
    <3> QED BY <1>1, <1>5, <2>2, <3>1
  <2> QED BY <2>1, <2>2
<1>7. Begins(Parsed(t), list)
  BY <1>2, <1>5, <1>6 DEF Begins
<1> QED BY <1>1, <1>2, <1>4, <1>7 DEF ListOf

LEMMA DocIsText ==
    ASSUME NEW list \in Seq(Entries), NEW f \in Seq(Text), Begins(f, Doc(list)),
           NEW m \in Nat, m <= Len(list)
    PROVE  TextOf(f, m, list)
<1>1. /\ Len(Doc(list)) = Len(list) + 2
      /\ Doc(list)[1] = LBracket /\ Doc(list)[Len(list) + 2] = RBracket
      /\ \A i \in 2 .. Len(list) + 1 : Doc(list)[i] = list[i - 1]
  BY DocIs
<1>2. Len(list) \in Nat /\ Len(f) \in Nat
  OBVIOUS
<1>3. ASSUME NEW i \in 1 .. Len(f)
      PROVE  IF i = 1 THEN f[i] = LBracket
             ELSE \/ f[i] = RBracket /\ i >= m + 2
                  \/ i - 1 <= Len(list) /\ f[i] = list[i - 1]
  <2>1. f[i] = Doc(list)[i] /\ i <= Len(list) + 2
    BY <1>1, <1>2 DEF Begins
  <2>2. i = 1 \/ i \in 2 .. Len(list) + 1 \/ i = Len(list) + 2
    BY <1>2, <2>1
  <2> QED BY <1>1, <1>2, <2>1, <2>2
<1> QED BY <1>3 DEF TextOf

-----------------------------------------------------------------------------
\* The steps of the server.

LEMMA LoadedType == ASSUME FileTypes PROVE Loaded \in Seq(Entries)
<1>1. CASE file # Absent /\ WellFormed(file)
  BY <1>1, ParsedType DEF Loaded, FileTypes, WriterTypes, ReaderTypes
<1>2. CASE ~(file # Absent /\ WellFormed(file))
  BY <1>2 DEF Loaded
<1> QED BY <1>1, <1>2

\* Before a crash the file that logChallengeResult reads has all that was logged.
LEMMA LoadedIsHistory ==
    ASSUME FileInv, crashes = 0, writer # "write"
    PROVE  Loaded = results
<1>1. CASE file = Absent /\ results = <<>>
  BY <1>1 DEF Loaded
<1>2. CASE file = Doc(results)
  BY <1>2, DocIs, DocParses DEF Loaded, FileInv, FileTypes, WriterTypes, ReaderTypes
<1> QED BY <1>1, <1>2 DEF FileInv, NothingForgotten

\* What a complete write leaves.
LEMMA WrittenIsDoc ==
    ASSUME FileInv, writer = "write", Len(file) >= Len(Doc(allResults))
    PROVE  file = Doc(allResults)
<1>1. /\ file \in Seq(Text) /\ Doc(allResults) \in Seq(Text)
      /\ Len(file) <= Len(Doc(allResults))
      /\ \A i \in 1 .. Len(file) : file[i] = Doc(allResults)[i]
  BY DocIs DEF FileInv, FileTypes, WriterTypes, ReaderTypes, BeingWritten, Begins
<1>2. \A l, m \in Nat : l <= m /\ l >= m => l = m
  OBVIOUS
<1>3. Len(file) \in Nat /\ Len(Doc(allResults)) \in Nat
  BY <1>1
<1>4. Len(file) = Len(Doc(allResults))
  BY <1>1, <1>2, <1>3
<1> QED BY <1>1, <1>4, SeqEqual

\* The next portion of the stream.
LEMMA MoreWritten ==
    ASSUME NEW d \in Seq(Text), NEW f \in Seq(Text), Begins(f, d),
           NEW k \in (Len(f) + 1) .. Len(d)
    PROVE  /\ f \o SubSeq(d, Len(f) + 1, k) \in Seq(Text)
           /\ Begins(f \o SubSeq(d, Len(f) + 1, k), d)
<1> DEFINE p == SubSeq(d, Len(f) + 1, k)
           q == f \o p
<1>1. Len(f) \in Nat /\ Len(d) \in Nat
  OBVIOUS
<1>2. p \in Seq(Text) /\ Len(p) = k - Len(f) /\ \A i \in 1 .. Len(p) : p[i] = d[Len(f) + i]
  BY <1>1
<1> HIDE DEF p
<1>3. q \in Seq(Text) /\ Len(q) = k
      /\ \A i \in 1 .. k : q[i] = IF i <= Len(f) THEN f[i] ELSE p[i - Len(f)]
  BY <1>1, <1>2
<1> HIDE DEF q
<1>4. ASSUME NEW i \in 1 .. k PROVE q[i] = d[i]
  <2>1. CASE i <= Len(f)
    <3>1. q[i] = f[i]
      BY <1>3, <2>1
    <3>2. i \in 1 .. Len(f)
      BY <1>1, <2>1
    <3> QED BY <3>1, <3>2 DEF Begins
  <2>2. CASE i > Len(f)
    <3>1. i - Len(f) \in 1 .. Len(p) /\ Len(f) + (i - Len(f)) = i
      BY <1>1, <1>2, <2>2
    <3>2. p[i - Len(f)] = d[i]
      BY <1>2, <3>1
    <3> QED BY <1>1, <1>3, <2>2, <3>2
  <2> QED BY <1>1, <2>1, <2>2
<1>5. Begins(q, d)
  <2>1. Len(q) <= Len(d)
    BY <1>1, <1>3
  <2>2. \A i \in 1 .. Len(q) : q[i] = d[i]
    BY <1>3, <1>4
  <2> QED BY <2>1, <2>2 DEF Begins
<1> QED BY <1>3, <1>5 DEF p, q

\* No step of the server disturbs a reader, when its list continues the last.
LEMMA ReadersUndisturbed ==
    ASSUME FileInv, UNCHANGED readerVars,
           crashes' = 0 => crashes = 0 /\ results \in Seq(Entries) /\ results' \in Seq(Entries)
                           /\ Len(results) <= Len(results')
                           /\ Latest \in Seq(Entries) /\ Latest' \in Seq(Entries)
                           /\ Begins(Latest, Latest')
    PROVE  ReadSoFar'
<1> SUFFICES ASSUME crashes' = 0, NEW r \in Readers
             PROVE  IF request[r] = "reading"
                    THEN since[r] <= Len(results') /\ TextOf(text[r], since[r], Latest')
                    ELSE shown[r] = Error \/ ListOf(shown[r], since[r], Latest')
  BY DEF ReadSoFar, readerVars
<1>1. since[r] \in Nat /\ text[r] \in Seq(Text)
  BY DEF FileInv, FileTypes, WriterTypes, ReaderTypes
<1>2. Len(results) \in Nat /\ Len(results') \in Nat
  BY LenProperties
<1>3. IF request[r] = "reading"
      THEN since[r] <= Len(results) /\ TextOf(text[r], since[r], Latest)
      ELSE shown[r] = Error \/ ListOf(shown[r], since[r], Latest)
  BY DEF FileInv, ReadSoFar
<1>4. /\ TextOf(text[r], since[r], Latest) => TextOf(text[r], since[r], Latest')
      /\ ListOf(shown[r], since[r], Latest) => ListOf(shown[r], since[r], Latest')
  BY <1>1, ListsContinue
<1> QED BY <1>1, <1>2, <1>3, <1>4

\* Begins is what the community modules call IsPrefix.
LEMMA BeginsIsPrefix ==
    ASSUME NEW s \in Seq(Entries), NEW t \in Seq(Entries), Begins(s, t)
    PROVE  IsPrefix(s, t)
<1>1. Len(s) \in Nat /\ Len(t) \in Nat /\ Len(s) <= Len(t)
  BY DEF Begins
<1>2. SubSeq(s, 1, Len(s)) = s
  BY SubSeqFull
<1>3. /\ SubSeq(t, 1, Len(s)) \in Seq(Entries) /\ Len(SubSeq(t, 1, Len(s))) = Len(s)
      /\ \A i \in 1 .. Len(s) : SubSeq(t, 1, Len(s))[i] = t[i]
  BY <1>1
<1>4. SubSeq(t, 1, Len(s)) = s
  BY <1>3, SeqEqual DEF Begins
<1> QED BY <1>1, <1>2, <1>4 DEF IsPrefix

LEMMA ServerKeepsInv ==
    ASSUME FileInv, FileWriter
    PROVE  FileInv'
<1> USE DEF FileTypes, WriterTypes
<1>1. FileTypes /\ BeingWritten /\ LeftInOrder /\ NothingForgotten /\ ReadSoFar
  BY DEF FileInv
<1>2. Latest \in Seq(Entries) /\ Begins(Latest, Latest)
  BY <1>1, BeginsItself DEF Latest
<1>3. Len(results) \in Nat
  BY <1>1
<1>4. ASSUME UNCHANGED <<readerVars, results>>, Latest' = Latest, crashes' = 0 => crashes = 0
      PROVE  ReadSoFar'
  BY <1>1, <1>2, <1>3, <1>4, ReadersUndisturbed
<1>5. \A f \in Seq(Text) : f # Absent
  BY FileAssumption DEF Text, Entries
<1>6. ASSUME UNCHANGED readerVars, file' = file \/ file' # Absent
      PROVE  ReaderTypes'
  BY <1>1, <1>6 DEF readerVars, ReaderTypes
<1>7. CASE BeginLog
  <2>1. Latest' = Latest
    BY <1>7 DEF BeginLog, Latest
  <2>2. ReadSoFar'
    BY <1>4, <1>7, <2>1 DEF BeginLog
  <2>3. FileTypes'
    <3>1. WriterTypes'
      BY <1>1, <1>7, FileAssumption DEF BeginLog, Entries
    <3>2. ReaderTypes'
      BY <1>1, <1>7, <1>6 DEF BeginLog, Entries
    <3> QED BY <3>1, <3>2
  <2> QED BY <1>1, <1>7, <2>2, <2>3
       DEF FileInv, BeginLog, BeingWritten, LeftInOrder, NothingForgotten, WellFormed
<1>8. CASE ReadAndExtend
  <2>1. Latest' = Latest
    BY <1>8 DEF ReadAndExtend, Latest
  <2>2. ReadSoFar'
    BY <1>4, <1>8, <2>1 DEF ReadAndExtend
  <2>3. logged \in Entries /\ Loaded \in Seq(Entries) /\ (crashes = 0 => Loaded = results)
    BY <1>1, <1>8, LoadedType, LoadedIsHistory DEF ReadAndExtend
  <2>4. FileTypes'
    <3>1. WriterTypes'
      BY <1>1, <1>8, <2>3 DEF ReadAndExtend
    <3>2. ReaderTypes'
      BY <1>1, <1>8, <2>3, <1>6 DEF ReadAndExtend
    <3> QED BY <3>1, <3>2
  <2> QED BY <1>1, <1>8, <2>2, <2>3, <2>4
       DEF FileInv, ReadAndExtend, BeingWritten, LeftInOrder, NothingForgotten
<1>9. CASE OpenTruncating
  <2>1. FileTypes'
    <3>1. WriterTypes'
      BY <1>1, <1>9 DEF OpenTruncating
    <3>2. ReaderTypes'
      <4>1. UNCHANGED readerVars /\ file' = <<>> /\ <<>> \in Seq(Text)
        BY <1>9 DEF OpenTruncating
      <4> QED BY <4>1, <1>6, <1>5
    <3> QED BY <3>1, <3>2
  <2>2. BeingWritten'
    BY <1>1, <1>9, DocIs DEF OpenTruncating, BeingWritten, Begins
  <2>3. crashes = 0 => Begins(Latest, Latest')
    BY <1>1, <1>9, BeginsAppended DEF OpenTruncating, NothingForgotten, Latest
  <2>4. Latest' \in Seq(Entries) /\ UNCHANGED <<crashes, results, readerVars>>
    BY <1>1, <1>9 DEF OpenTruncating, Latest
  <2>5. ReadSoFar'
    BY <1>1, <1>2, <1>3, <2>3, <2>4, ReadersUndisturbed
  <2> QED BY <1>1, <1>9, <2>1, <2>2, <2>5
       DEF FileInv, OpenTruncating, LeftInOrder, NothingForgotten
<1>10. CASE WriteSome
  <2>1. Latest' = Latest
    BY <1>10 DEF WriteSome, Latest, writerVars
  <2>2. ReadSoFar'
    BY <1>4, <1>10, <2>1 DEF WriteSome, writerVars
  <2>3. file \in Seq(Text) /\ Begins(file, Doc(allResults)) /\ Doc(allResults) \in Seq(Text)
    BY <1>1, <1>10, DocIs DEF WriteSome, BeingWritten
  <2>4. file' \in Seq(Text) /\ Begins(file', Doc(allResults))
    BY <1>10, <2>3, MoreWritten DEF WriteSome
  <2>5. FileTypes'
    <3>1. WriterTypes'
      BY <1>1, <1>10, <2>4 DEF WriteSome, writerVars
    <3>2. ReaderTypes'
      BY <1>1, <1>10, <2>4, <1>6, <1>5 DEF WriteSome, writerVars
    <3> QED BY <3>1, <3>2
  <2> QED BY <1>1, <1>10, <2>2, <2>4, <2>5
       DEF FileInv, WriteSome, writerVars, BeingWritten, LeftInOrder, NothingForgotten
<1>11. CASE CloseFile
  <2>1. file = Doc(allResults) /\ WellFormed(file)
    BY <1>1, <1>11, WrittenIsDoc, DocParses DEF CloseFile
  <2>2. results' = Append(results, logged) /\ results' \in Seq(Entries)
        /\ Len(results') = Len(results) + 1
    BY <1>1, <1>11 DEF CloseFile
  <2>3. crashes = 0 => Latest' = Latest
    BY <1>1, <1>11 DEF CloseFile, NothingForgotten, Latest
  <2>4. FileTypes'
    <3>1. WriterTypes'
      BY <1>1, <1>11, <2>2 DEF CloseFile
    <3>2. ReaderTypes'
      BY <1>1, <1>11, <2>2, <1>6 DEF CloseFile
    <3> QED BY <3>1, <3>2
  <2>5. ReadSoFar'
    BY <1>1, <1>2, <1>3, <1>11, <2>2, <2>3, ReadersUndisturbed DEF CloseFile
  <2>6. LeftInOrder'
    BY <1>11, <2>1 DEF CloseFile, LeftInOrder, WellFormed
  <2>7. NothingForgotten'
    BY <1>1, <1>11, <2>1, <2>2 DEF CloseFile, NothingForgotten, Doc
  <2> QED BY <1>11, <2>4, <2>5, <2>6, <2>7 DEF FileInv, CloseFile, BeingWritten
<1>12. CASE Crash
  <2>1. crashes' # 0 /\ crashes' > 0 /\ crashes' \in Nat
    BY <1>1, <1>12 DEF Crash
  <2>2. FileTypes'
    <3>1. WriterTypes'
      BY <1>1, <1>12, <2>1 DEF Crash
    <3>2. ReaderTypes'
      BY <1>1, <1>12, <2>1, <1>6 DEF Crash
    <3> QED BY <3>1, <3>2
  <2> QED BY <1>12, <2>1, <2>2
       DEF FileInv, Crash, BeingWritten, LeftInOrder, NothingForgotten, ReadSoFar
<1>13. CASE Restart
  <2>1. crashes' # 0 /\ crashes' > 0
    BY <1>1, <1>13 DEF Restart, LeftInOrder
  <2>2. FileTypes'
    <3>1. WriterTypes'
      BY <1>1, <1>13 DEF Restart
    <3>2. ReaderTypes'
      BY <1>1, <1>13, <1>6 DEF Restart
    <3> QED BY <3>1, <3>2
  <2> QED BY <1>13, <2>1, <2>2
       DEF FileInv, Restart, BeingWritten, LeftInOrder, NothingForgotten, ReadSoFar
<1> QED BY <1>7, <1>8, <1>9, <1>10, <1>11, <1>12, <1>13 DEF FileWriter

-----------------------------------------------------------------------------
\* The steps of a reader.

\* The file as any reader finds it.
LEMMA FileIsText ==
    ASSUME FileInv, crashes = 0, file # Absent
    PROVE  TextOf(file, Len(results), Latest)
<1>1. /\ allResults \in Seq(Entries) /\ results \in Seq(Entries) /\ file \in Seq(Text)
      /\ Len(results) \in Nat
  BY DEF FileInv, FileTypes, WriterTypes, ReaderTypes
<1>2. CASE writer = "write"
  <2>1. Begins(file, Doc(allResults)) /\ allResults = Append(results, logged)
    BY <1>2 DEF FileInv, BeingWritten, NothingForgotten
  <2>2. Len(results) <= Len(allResults)
    BY <1>1, <2>1
  <2> QED BY <1>1, <1>2, <2>1, <2>2, DocIsText DEF Latest
<1>3. CASE writer # "write"
  <2>1. file = Doc(results)
    BY <1>3 DEF FileInv, NothingForgotten
  <2>2. Begins(file, Doc(results))
    BY <1>1, <2>1, BeginsItself
  <2> QED BY <1>1, <1>3, <2>2, DocIsText DEF Latest
<1> QED BY <1>2, <1>3

LEMMA ReaderKeepsInv ==
    ASSUME FileInv, NEW r \in Readers, Reader(r)
    PROVE  FileInv'
<1> USE DEF FileTypes, WriterTypes, ReaderTypes
<1>1. FileTypes /\ BeingWritten /\ LeftInOrder /\ NothingForgotten /\ ReadSoFar
  BY DEF FileInv
<1>2. Latest \in Seq(Entries) /\ Len(results) \in Nat
  BY <1>1 DEF Latest
<1>3. ASSUME UNCHANGED <<file, writerVars>>
      PROVE  BeingWritten' /\ LeftInOrder' /\ NothingForgotten' /\ Latest' = Latest
  BY <1>1, <1>3 DEF writerVars, BeingWritten, LeftInOrder, NothingForgotten, Latest, WellFormed
<1>4. CASE OpenForReading(r)
  <2>1. UNCHANGED <<file, writerVars>> /\ text' = [text EXCEPT ![r] = <<>>]
        /\ since' = [since EXCEPT ![r] = Len(results)]
    BY <1>4 DEF OpenForReading
  <2>2. FileTypes'
    <3>1. WriterTypes'
      BY <1>1, <2>1 DEF writerVars
    <3>2. /\ text' \in [Readers -> Seq(Text)] /\ since' \in [Readers -> Nat]
          /\ shown' = [q \in Readers |-> shown'[q]]
          /\ request' \in [Readers -> {"idle", "reading"}]
      <4> HIDE DEF WriterTypes
      <4>1. CASE file = Absent
        BY <1>1, <1>2, <1>4, <2>1, <4>1 DEF OpenForReading
      <4>2. CASE file # Absent
        <5>1. request' = [request EXCEPT ![r] = "reading"] /\ shown' = shown
          BY <1>4, <4>2 DEF OpenForReading
        <5>2. shown' = [q \in Readers |-> shown'[q]]
          BY <1>1, <5>1
        <5> QED BY <1>1, <1>2, <2>1, <5>1, <5>2
      <4> QED BY <4>1, <4>2
    <3>3. \A q \in Readers : request'[q] = "reading" => file' # Absent
      <4>1. CASE file = Absent
        BY <1>1, <1>4, <4>1 DEF OpenForReading
      <4>2. CASE file # Absent
        BY <2>1, <4>2
      <4> QED BY <4>1, <4>2
    <3> QED BY <3>1, <3>2, <3>3
  <2>3. ReadSoFar'
    <3> SUFFICES ASSUME crashes = 0, NEW q \in Readers
                 PROVE  IF request'[q] = "reading"
                        THEN since'[q] <= Len(results) /\ TextOf(text'[q], since'[q], Latest)
                        ELSE shown'[q] = Error \/ ListOf(shown'[q], since'[q], Latest)
      BY <1>3, <2>1 DEF ReadSoFar, writerVars
    <3>1. CASE q # r
      <4>1. /\ request'[q] = request[q] /\ since'[q] = since[q] /\ text'[q] = text[q]
            /\ shown'[q] = shown[q]
        BY <1>1, <1>4, <3>1 DEF OpenForReading
      <4> QED BY <1>1, <4>1 DEF ReadSoFar
    <3>2. CASE q = r /\ file = Absent
      <4>1. request'[q] = request[q] /\ shown'[q] = <<>> /\ since'[q] = Len(results)
            /\ text'[q] = <<>>
        BY <1>1, <1>4, <3>2 DEF OpenForReading
      <4>2. results = <<>>
        BY <1>1, <3>2, DocIs, FileAssumption DEF NothingForgotten, BeingWritten, Text, Entries
      <4>3. since'[q] = 0
        BY <4>1, <4>2
      <4>4. TextOf(<<>>, 0, Latest) /\ ListOf(<<>>, 0, Latest)
        BY <1>2 DEF TextOf, ListOf, Begins
      <4> QED BY <4>1, <4>2, <4>3, <4>4
    <3>3. CASE q = r /\ file # Absent
      <4>1. request'[q] = "reading" /\ since'[q] = Len(results) /\ text'[q] = <<>>
        BY <1>1, <1>4, <3>3 DEF OpenForReading
      <4> QED BY <1>2, <4>1 DEF TextOf
    <3> QED BY <3>1, <3>2, <3>3
  <2> QED BY <1>3, <2>1, <2>2, <2>3 DEF FileInv
<1>5. CASE ReadSome(r)
  <2>1. /\ request[r] = "reading" /\ UNCHANGED <<file, writerVars, request, since, shown>>
        /\ text[r] \in Seq(Text)
    BY <1>1, <1>5 DEF ReadSome
  <2>2. PICK k \in (Len(text[r]) + 1) .. Len(file) :
            text' = [text EXCEPT ![r] = @ \o SubSeq(file, Len(@) + 1, k)]
    BY <1>5 DEF ReadSome
  <2> DEFINE more == text[r] \o SubSeq(file, Len(text[r]) + 1, k)
  <2>3. file \in Seq(Text) /\ file # Absent
    BY <1>1, <2>1
  <2>4. text' = [text EXCEPT ![r] = more]
    BY <2>2
  <2>5. more \in Seq(Text)
    BY <2>1, <2>3, SubSeqProperties, ConcatProperties
  <2> HIDE DEF more
  <2>6. FileTypes'
    BY <1>1, <2>1, <2>4, <2>5 DEF writerVars
  <2>7. ReadSoFar'
    <3> SUFFICES ASSUME crashes = 0, NEW q \in Readers
                 PROVE  IF request[q] = "reading"
                        THEN since[q] <= Len(results) /\ TextOf(text'[q], since[q], Latest)
                        ELSE shown[q] = Error \/ ListOf(shown[q], since[q], Latest)
      BY <1>3, <2>1 DEF ReadSoFar, writerVars
    <3>1. CASE q # r
      <4>1. text'[q] = text[q]
        BY <1>1, <2>4, <3>1
      <4> QED BY <1>1, <4>1 DEF ReadSoFar
    <3>2. CASE q = r
      <4>1. text'[r] = more /\ since[r] \in Nat
        BY <1>1, <2>4
      <4>2. since[r] <= Len(results) /\ TextOf(text[r], since[r], Latest)
        BY <1>1, <2>1 DEF ReadSoFar
      <4>3. TextOf(file, Len(results), Latest)
        BY <2>3, FileIsText
      <4>4. TextOf(more, since[r], Latest)
        BY <1>2, <2>1, <2>3, <4>1, <4>2, <4>3, PortionRead DEF more
      <4> QED BY <2>1, <3>2, <4>1, <4>2, <4>4
    <3> QED BY <3>1, <3>2
  <2> QED BY <1>3, <2>1, <2>6, <2>7 DEF FileInv
<1>6. CASE EndOfFile(r)
  <2>1. /\ request[r] = "reading" /\ UNCHANGED <<file, writerVars, text, since>>
        /\ shown' = [shown EXCEPT ![r] = IF WellFormed(text[r]) THEN Parsed(text[r]) ELSE Error]
        /\ request' = [request EXCEPT ![r] = "idle"]
    BY <1>6 DEF EndOfFile
  <2>2. FileTypes'
    BY <1>1, <2>1 DEF writerVars
  <2>3. ReadSoFar'
    <3> SUFFICES ASSUME crashes = 0, NEW q \in Readers
                 PROVE  IF request'[q] = "reading"
                        THEN since[q] <= Len(results) /\ TextOf(text[q], since[q], Latest)
                        ELSE shown'[q] = Error \/ ListOf(shown'[q], since[q], Latest)
      BY <1>3, <2>1 DEF ReadSoFar, writerVars
    <3>1. CASE q # r
      <4>1. request'[q] = request[q] /\ shown'[q] = shown[q]
        BY <1>1, <2>1, <3>1
      <4> QED BY <1>1, <4>1 DEF ReadSoFar
    <3>2. CASE q = r
      <4>1. /\ request'[r] = "idle"
            /\ shown'[r] = IF WellFormed(text[r]) THEN Parsed(text[r]) ELSE Error
        BY <1>1, <2>1
      <4>2. TextOf(text[r], since[r], Latest) /\ text[r] \in Seq(Text) /\ since[r] \in Nat
        BY <1>1, <2>1 DEF ReadSoFar
      <4>3. WellFormed(text[r]) => ListOf(Parsed(text[r]), since[r], Latest)
        BY <1>2, <4>2, ParsedIsList
      <4> QED BY <3>2, <4>1, <4>3
    <3> QED BY <3>1, <3>2
  <2> QED BY <1>3, <2>1, <2>2, <2>3 DEF FileInv
<1> QED BY <1>4, <1>5, <1>6 DEF Reader

\* The state and the history of the file, for any number of readers, rounds
\* and crashes.
THEOREM FileInvariance == FileSpec => []FileInv
<1>1. ASSUME FileInit PROVE FileInv
  <2>1. FileTypes
    BY <1>1, FileAssumption DEF FileInit, FileTypes, WriterTypes, ReaderTypes, Entries
  <2>2. ListOf(<<>>, 0, <<>>)
    BY DEF ListOf, Begins
  <2>3. ReadSoFar
    BY <1>1, <2>2 DEF FileInit, ReadSoFar, Latest
  <2> QED BY <1>1, <2>1, <2>3 DEF FileInit, FileInv, BeingWritten, LeftInOrder, NothingForgotten
<1>2. FileInv /\ [FileNext]_fileVars => FileInv'
  <2>1. ASSUME FileInv, UNCHANGED fileVars PROVE FileInv'
    BY <2>1 DEF fileVars, writerVars, readerVars, FileInv, FileTypes, WriterTypes, ReaderTypes, BeingWritten, LeftInOrder,
         NothingForgotten, ReadSoFar, WellFormed, Latest
  <2> QED BY <2>1, ServerKeepsInv, ReaderKeepsInv DEF FileNext
<1> QED BY <1>1, <1>2, PTL DEF FileSpec

\* logChallengeResult and the dashboards: until the server is killed no result
\* is forgotten and what a dashboard shows is the history, at least as much of
\* it as there was when it opened the file; after that a file that was cut off
\* is a document again with the next result.
THEOREM ResultsAreKept == FileSpec => []FileKeepsResults
<1>1. ASSUME FileInv PROVE FileKeepsResults
  <2>1. FileTypes /\ BeingWritten /\ LeftInOrder /\ NothingForgotten /\ ReadSoFar
    BY <1>1 DEF FileInv
  <2>2. crashes = 0 => KeepsHistory
    BY <2>1 DEF NothingForgotten, KeepsHistory
  <2>3. ASSUME crashes = 0 PROVE ShownIsHistory
    <3>1. Latest \in Seq(Entries)
      BY <2>1 DEF FileTypes, WriterTypes, Latest
    <3>2. \A r \in Readers : request[r] = "idle" /\ shown[r] # Error =>
              ListOf(shown[r], since[r], Latest)
      BY <2>1, <2>3 DEF ReadSoFar
    <3>3. \A s, n : ListOf(s, n, Latest) => IsPrefix(s, Latest) /\ Len(s) >= n
      BY <3>1, BeginsIsPrefix DEF ListOf
    <3> QED BY <3>2, <3>3 DEF ShownIsHistory, Latest
  <2>4. CutOnlyUntilNextLog
    BY <2>1 DEF FileTypes, WriterTypes, LeftInOrder, CutOnlyUntilNextLog
  <2> QED BY <2>2, <2>3, <2>4 DEF FileKeepsResults
<1> QED BY <1>1, FileInvariance, PTL

-----------------------------------------------------------------------------
(***************************************************************************)
(* PriceServer.  An order is tracked from the client to the decision: it   *)
(* is in the outbox, read alone (RunOn of one id is that id), or counted   *)
(* as read together with others; its id was stamped before any client had  *)
(* the price, and so can only be turned down when the price has been hit.  *)
(* Where reactions are prompt, what a client has not read is the last      *)
(* price, and its history is a run of consecutive prices that ends with    *)
(* the last one or, while that is on its way, the one before: repetitions  *)
(* are possible, gaps are not.                                             *)
(***************************************************************************)

HandlerSteps == {"none", "name", "recv", "decide", "done"}

ServerTypes ==
    /\ prices \in Seq(Values) /\ stamped = 0 .. (Len(prices) - 1)
    /\ phase \in {"sleep", "send"} /\ todo \in Seq(Conns)
    /\ clients \in Seq(Conns) /\ Len(clients) <= MaxConns
    /\ handler \in [Conns -> HandlerSteps]
    /\ order = [c \in Conns |-> order[c]]

QueueTypes ==
    /\ inbox \in [Conns -> Seq([id : stamped, value : Values])]
    /\ outbox \in [Conns -> Seq(stamped \cup {None})]

ClientTypes ==
    /\ live \in [Conns -> BOOLEAN]
    /\ history \in [Conns -> Seq(Values)]
    /\ pending \in [Conns -> stamped \cup {None}]

PriceTypes ==
    /\ ServerTypes /\ QueueTypes /\ ClientTypes
    /\ ordered \subseteq Conns \X stamped
    /\ credits \in Seq(Conns \X hit)

\* A client is served from accept on, and nobody leaves a live one.
Served ==
    \A c \in Conns :
        /\ c > Len(clients) => /\ handler[c] = "none" /\ ~live[c]
                               /\ inbox[c] = <<>> /\ outbox[c] = <<>>
                               /\ history[c] = <<>> /\ pending[c] = None
        /\ live[c] => Serves(c)

NameFirst == \A c \in Conns : handler[c] = "name" => outbox[c] # <<>> /\ outbox[c][1] = None

\* The loop over clients: the entries still to come are its last ones.
InTheLoop ==
    /\ Len(todo) <= Len(clients)
    /\ \A i \in 1 .. Len(todo) : todo[i] = Len(clients) - Len(todo) + i
    /\ phase = "sleep" => todo = <<>>
    /\ phase = "send" => prices # <<>>

\* h notes the prices ps without a gap, some of them several times, up to the one with index n.
Notes(h, ps, n) ==
    \E at \in [1 .. Len(h) -> 1 .. Len(ps)] :
        /\ \A i \in 1 .. Len(h) : h[i] = ps[at[i]]
        /\ \A i \in 1 .. Len(h) - 1 : at[i + 1] \in {at[i], at[i] + 1}
        /\ h # <<>> => at[Len(h)] = n

IsReal(ps, id) == id >= 2 /\ Momentum(SubSeq(ps, id - 1, id + 1))

\* All that a prompt client has not read is the last price.
OnlyLast ==
    \A c \in Conns : live[c] => \A i \in 1 .. Len(inbox[c]) : inbox[c][i] = Message

\* A client that has not noted the last price is going to.
UpToDate ==
    \A c \in Conns : live[c] =>
        /\ Len(history[c]) <= 3
        /\ \/ Notes(history[c], prices, Len(prices))
           \/ /\ Notes(history[c], prices, Len(prices) - 1)
              /\ inbox[c] # <<>> \/ \E i \in 1 .. Len(todo) : todo[i] = c

OnlyReal ==
    /\ \A c \in Conns : pending[c] # None => IsReal(prices, pending[c])
    /\ \A o \in ordered : IsReal(prices, o[2])

PriceInv ==
    /\ PriceTypes /\ Served /\ NameFirst /\ InTheLoop
    /\ OrdersAreDecided
    /\ prompt => OnlyLast /\ UpToDate /\ OnlyReal

-----------------------------------------------------------------------------
\* Ids read one at a time are themselves.
LEMMA RunOnOne ==
    ASSUME NEW i \in Int
    PROVE  RunOn(<<i>>) = i
<1> DEFINE step(it) == [s \in SUBSET {1} |->
                           IF s = {} THEN 0 ELSE 10 * it[s \ {Max(s)}] + <<i>>[Max(s)]]
           it == CHOOSE f : f = step(f)
           w == [s \in SUBSET {1} |-> IF s = {} THEN 0 ELSE i]
<1>1. RunOn(<<i>>) = it[{1}]
  <2>1. DOMAIN <<i>> = {1}
    OBVIOUS
  <2> QED BY <2>1, Zenon DEF RunOn, FoldLeft, MapThenFoldSet
<1>2. \A S \in SUBSET {1} : S # {} => Max(S) = 1 /\ S = {1} /\ S \ {Max(S)} = {}
  <2> SUFFICES Max({1}) = 1
    OBVIOUS
  <2> QED BY DEF Max
<1>3. step(w) = w
  <2>1. ASSUME NEW s \in SUBSET {1} PROVE w[s] = step(w)[s]
    <3>1. s = {} \/ s = {1}
      OBVIOUS
    <3> QED BY <1>2, <3>1
  <2> QED BY <2>1
<1>4. it = step(it)
  <2> HIDE DEF step, w
  <2> QED BY <1>3
<1>5. it[{}] = 0 /\ it[{1}] = 10 * it[{}] + i
  <2> HIDE DEF it
  <2>1. \A s \in SUBSET {1} :
            step(it)[s] = IF s = {} THEN 0 ELSE 10 * it[s \ {Max(s)}] + <<i>>[Max(s)]
    OBVIOUS
  <2> HIDE DEF step
  <2>2. \A s \in SUBSET {1} :
            it[s] = IF s = {} THEN 0 ELSE 10 * it[s \ {Max(s)}] + <<i>>[Max(s)]
    BY <1>4, <2>1, Zenon
  <2>3. it[{}] = 0
    BY <2>2
  <2>4. it[{1}] = 10 * it[{1} \ {Max({1})}] + <<i>>[Max({1})]
    BY <2>2
  <2> QED BY <1>2, <2>3, <2>4
<1> HIDE DEF it
<1> QED BY <1>1, <1>5

LEMMA NotesMore ==
    ASSUME NEW V, NEW ps \in Seq(V), NEW v \in V, NEW h \in Seq(V), NEW n \in Int, Notes(h, ps, n)
    PROVE  Notes(h, Append(ps, v), n)
<1>1. PICK at \in [1 .. Len(h) -> 1 .. Len(ps)] :
          /\ \A i \in 1 .. Len(h) : h[i] = ps[at[i]]
          /\ \A i \in 1 .. Len(h) - 1 : at[i + 1] \in {at[i], at[i] + 1}
          /\ h # <<>> => at[Len(h)] = n
  BY DEF Notes
<1> DEFINE more == Append(ps, v)
<1>2. Len(more) = Len(ps) + 1 /\ Len(ps) \in Nat /\ \A i \in 1 .. Len(ps) : more[i] = ps[i]
  OBVIOUS
<1> HIDE DEF more
<1>3. at \in [1 .. Len(h) -> 1 .. Len(more)]
  BY <1>2
<1>4. \A i \in 1 .. Len(h) : h[i] = more[at[i]]
  BY <1>1, <1>2
<1>5. Notes(h, more, n)
  BY <1>1, <1>3, <1>4 DEF Notes
<1> QED BY <1>5 DEF more

LEMMA NotesAppended ==
    ASSUME NEW V, NEW ps \in Seq(V), NEW h \in Seq(V), NEW n \in Int, Notes(h, ps, n),
           NEW m \in 1 .. Len(ps), m \in {n, n + 1}
    PROVE  Notes(Append(h, ps[m]), ps, m)
<1>1. PICK at \in [1 .. Len(h) -> 1 .. Len(ps)] :
          /\ \A i \in 1 .. Len(h) : h[i] = ps[at[i]]
          /\ \A i \in 1 .. Len(h) - 1 : at[i + 1] \in {at[i], at[i] + 1}
          /\ h # <<>> => at[Len(h)] = n
  BY DEF Notes
<1> DEFINE g == Append(h, ps[m])
           b == [i \in 1 .. Len(h) + 1 |-> IF i = Len(h) + 1 THEN m ELSE at[i]]
<1>2. Len(h) \in Nat /\ ps[m] \in V /\ (h # <<>> <=> Len(h) > 0)
  OBVIOUS
<1>3. /\ g \in Seq(V) /\ Len(g) = Len(h) + 1 /\ g[Len(h) + 1] = ps[m]
      /\ \A i \in 1 .. Len(h) : g[i] = h[i]
  BY <1>2
<1>4. /\ b \in [1 .. Len(h) + 1 -> 1 .. Len(ps)] /\ b[Len(h) + 1] = m
      /\ \A i \in 1 .. Len(h) : b[i] = at[i]
  BY <1>2
<1> HIDE DEF g, b
<1>5. \A i \in 1 .. Len(g) : g[i] = ps[b[i]]
  <2>1. \A i \in 1 .. Len(g) : i \in 1 .. Len(h) \/ i = Len(h) + 1
    BY <1>2, <1>3
  <2>2. \A i \in 1 .. Len(h) : g[i] = ps[b[i]]
    BY <1>1, <1>3, <1>4
  <2>3. g[Len(h) + 1] = ps[b[Len(h) + 1]]
    BY <1>3, <1>4
  <2> QED BY <2>1, <2>2, <2>3
<1>6. ASSUME NEW i \in 1 .. Len(g) - 1 PROVE b[i + 1] \in {b[i], b[i] + 1}
  <2>1. CASE i = Len(h)
    <3>1. h # <<>> /\ i \in 1 .. Len(h)
      BY <1>2, <1>3, <2>1
    <3>2. b[i] = n /\ b[i + 1] = m
      BY <1>1, <1>4, <2>1, <3>1
    <3> QED BY <3>2
  <2>2. CASE i # Len(h)
    <3>1. i \in 1 .. Len(h) - 1 /\ i \in 1 .. Len(h) /\ i + 1 \in 1 .. Len(h)
      BY <1>2, <1>3, <2>2
    <3> QED BY <1>1, <1>4, <3>1
  <2> QED BY <2>1, <2>2
<1>7. Notes(g, ps, m)
  BY <1>2, <1>3, <1>4, <1>5, <1>6 DEF Notes
<1> QED BY <1>7 DEF g

LEMMA NotesTail ==
    ASSUME NEW V, NEW ps \in Seq(V), NEW g \in Seq(V), NEW m \in Int, Notes(g, ps, m), Len(g) = 4
    PROVE  Notes(Tail(g), ps, m) /\ Tail(g) \in Seq(V) /\ Len(Tail(g)) = 3
<1>1. PICK b \in [1 .. Len(g) -> 1 .. Len(ps)] :
          /\ \A i \in 1 .. Len(g) : g[i] = ps[b[i]]
          /\ \A i \in 1 .. Len(g) - 1 : b[i + 1] \in {b[i], b[i] + 1}
          /\ g # <<>> => b[Len(g)] = m
  BY DEF Notes
<1> DEFINE t == Tail(g)
           c == [i \in 1 .. 3 |-> b[i + 1]]
<1>2. g # <<>>
  <2>1. Len(<<>>) = 0 /\ 4 # 0
    BY EmptySeq
  <2> QED BY <2>1, Zenon
<1>3. t \in Seq(V) /\ Len(t) = 3 /\ \A i \in 1 .. 3 : t[i] = g[i + 1]
  <2>1. Tail(g) \in Seq(V) /\ Len(Tail(g)) = Len(g) - 1
        /\ \A i \in 1 .. Len(Tail(g)) : Tail(g)[i] = g[i + 1]
    BY <1>2, HeadTailProperties, Zenon
  <2>2. Len(g) - 1 = 3
    OBVIOUS
  <2> QED BY <2>1, <2>2
<1>4. c \in [1 .. 3 -> 1 .. Len(ps)] /\ \A i \in 1 .. 3 : c[i] = b[i + 1]
  OBVIOUS
<1> HIDE DEF t, c
<1>5. \A i \in 1 .. 3 : i + 1 \in 1 .. Len(g)
  OBVIOUS
<1>6. ASSUME NEW i \in 1 .. 3 PROVE t[i] = ps[c[i]]
  <2>1. t[i] = g[i + 1] /\ c[i] = b[i + 1] /\ i + 1 \in 1 .. Len(g)
    BY <1>3, <1>4, <1>5
  <2> QED BY <1>1, <2>1
<1>7. \A i \in 1 .. 2 : c[i + 1] \in {c[i], c[i] + 1}
  <2>1. \A i \in 1 .. 2 : i + 1 \in 1 .. Len(g) - 1 /\ i \in 1 .. 3 /\ i + 1 \in 1 .. 3
    OBVIOUS
  <2> QED BY <1>1, <1>4, <2>1
<1>8. c[3] = m
  BY <1>1, <1>2, <1>4
<1>9. Notes(t, ps, m)
  <2>1. c \in [1 .. Len(t) -> 1 .. Len(ps)] /\ \A i \in 1 .. Len(t) : t[i] = ps[c[i]]
    BY <1>3, <1>4, <1>6
  <2>2. \A i \in 1 .. Len(t) - 1 : c[i + 1] \in {c[i], c[i] + 1}
    BY <1>3, <1>7
  <2>3. t # <<>> => c[Len(t)] = m
    BY <1>3, <1>8
  <2> QED BY <2>1, <2>2, <2>3 DEF Notes
<1> QED BY <1>3, <1>9 DEF t

\* A client that has noted the prices up to n notes that one again or the next.
LEMMA NotesNext ==
    ASSUME NEW V, NEW ps \in Seq(V), NEW h \in Seq(V), NEW n \in Int, Notes(h, ps, n),
           Len(h) <= 3, NEW m \in 1 .. Len(ps), m \in {n, n + 1}
    PROVE  /\ Notes(LastThree(Append(h, ps[m])), ps, m)
           /\ LastThree(Append(h, ps[m])) \in Seq(V)
           /\ Len(LastThree(Append(h, ps[m]))) <= 3
<1> DEFINE g == Append(h, ps[m])
<1>1. Notes(g, ps, m)
  BY NotesAppended
<1>2. g \in Seq(V) /\ Len(g) = Len(h) + 1 /\ Len(h) \in Nat
  OBVIOUS
<1> HIDE DEF g
<1>3. CASE Len(h) = 3
  <2>1. Len(g) = 4
    BY <1>2, <1>3
  <2>2. LastThree(g) = Tail(g)
    BY <2>1 DEF LastThree
  <2>3. Notes(Tail(g), ps, m) /\ Tail(g) \in Seq(V) /\ Len(Tail(g)) = 3
    <3>1. m \in Int
      OBVIOUS
    <3> QED BY <1>1, <1>2, <2>1, <3>1, NotesTail, Zenon
  <2> QED BY <2>2, <2>3 DEF g
<1>4. CASE Len(h) # 3
  <2>0. \A l \in Nat : l <= 3 /\ l # 3 => l + 1 <= 3
    OBVIOUS
  <2>1. Len(g) <= 3
    BY <1>2, <1>4, <2>0
  <2>2. LastThree(g) = g
    BY <1>2, <2>1 DEF LastThree
  <2> QED BY <1>1, <1>2, <2>1, <2>2 DEF g
<1> QED BY <1>3, <1>4

\* Prices that follow one another strictly are no repetitions.
LEMMA NotedIsReal ==
    ASSUME NEW ps \in Seq(Int), NEW h \in Seq(Int), NEW n \in 1 .. Len(ps), Notes(h, ps, n), Momentum(h)
    PROVE  IsReal(ps, n - 1)
<1>1. PICK at \in [1 .. Len(h) -> 1 .. Len(ps)] :
          /\ \A i \in 1 .. Len(h) : h[i] = ps[at[i]]
          /\ \A i \in 1 .. Len(h) - 1 : at[i + 1] \in {at[i], at[i] + 1}
          /\ h # <<>> => at[Len(h)] = n
  BY DEF Notes
<1>2. Len(h) = 3 /\ h # <<>>
  <2>1. Len(h) = 3
    BY Zenon DEF Momentum
  <2>2. Len(h) # 0
    BY <2>1
  <2> QED BY <2>1, <2>2, EmptySeq
<1>3. /\ h[1] = ps[at[1]] /\ h[2] = ps[at[2]] /\ h[3] = ps[at[3]]
      /\ at[2] \in {at[1], at[1] + 1} /\ at[3] \in {at[2], at[2] + 1} /\ at[3] = n
      /\ at[1] \in 1 .. Len(ps) /\ at[2] \in 1 .. Len(ps) /\ at[3] \in 1 .. Len(ps)
  BY <1>1, <1>2
<1>4. /\ \A i \in 1 .. Len(ps) : ps[i] \in Int
      /\ Len(ps) \in Nat
  OBVIOUS
<1>5. h[1] # h[2] /\ h[2] # h[3]
  <2>1. h[1] \in Int /\ h[2] \in Int /\ h[3] \in Int
    BY <1>3, <1>4
  <2>2. (h[1] < h[2] /\ h[2] < h[3]) \/ (h[1] > h[2] /\ h[2] > h[3])
    BY Zenon DEF Momentum
  <2> QED BY <2>1, <2>2
<1>6. at[1] = n - 2 /\ at[2] = n - 1 /\ n >= 3
  <2>1. at[1] # at[2] /\ at[2] # at[3]
    BY <1>3, <1>5
  <2>2. \A a, b \in 1 .. Len(ps) : b \in {a, a + 1} /\ a # b => a = b - 1
    BY <1>4
  <2>3. at[1] = at[2] - 1 /\ at[2] = at[3] - 1
    BY <1>3, <2>1, <2>2
  <2>4. \A a, b, c \in 1 .. Len(ps) : a = b - 1 /\ b = c - 1 => a = c - 2 /\ c >= 3
    BY <1>4
  <2> QED BY <1>3, <2>3, <2>4
<1> DEFINE s == SubSeq(ps, n - 2, n)
<1>7. Len(s) = 3 /\ s[1] = ps[n - 2] /\ s[2] = ps[n - 1] /\ s[3] = ps[n]
  BY <1>4, <1>6
<1> HIDE DEF s
<1>8. Momentum(s)
  BY <1>3, <1>6, <1>7 DEF Momentum
<1>9. n - 1 - 1 = n - 2 /\ n - 1 + 1 = n /\ n - 1 >= 2
  BY <1>6
<1> QED BY <1>8, <1>9 DEF IsReal, s

LEMMA RealStays ==
    ASSUME NEW V, NEW ps \in Seq(V), NEW v \in V, NEW id \in 0 .. (Len(ps) - 1), IsReal(ps, id)
    PROVE  IsReal(Append(ps, v), id)
<1>1. id >= 2
  BY DEF IsReal
<1>2. SubSeq(Append(ps, v), id - 1, id + 1) = SubSeq(ps, id - 1, id + 1)
  BY <1>1
<1> QED BY <1>1, <1>2 DEF IsReal

-----------------------------------------------------------------------------
LEMMA FreeDescriptor ==
    ASSUME ServerTypes, Len(clients) < MaxConns
    PROVE  \E f \in Conns \ UsedDescriptors : \A g \in Conns \ UsedDescriptors : f <= g
<1>1. MaxConns \in Nat /\ Len(clients) \in Nat
  BY PriceAssumption DEF ServerTypes
<1>2. IsFiniteSet(Conns) /\ Cardinality(Conns) = MaxConns
  BY <1>1, PriceAssumption, FS_Interval DEF Conns
<1>3. IsFiniteSet(DOMAIN clients) /\ Cardinality(DOMAIN clients) = Len(clients)
  <2>1. DOMAIN clients = 1 .. Len(clients)
    BY DEF ServerTypes
  <2>2. \A n \in Nat : IsFiniteSet(1 .. n) /\ Cardinality(1 .. n) = n
    BY FS_Interval
  <2> QED BY <1>1, <2>1, <2>2
<1> DEFINE Holders == {c \in DOMAIN clients : Serves(c)}
           Used == {clients[c] : c \in Holders}
<1>4. IsFiniteSet(Holders) /\ Cardinality(Holders) <= Len(clients)
  BY <1>3, FS_Subset
<1>5. IsFiniteSet(Used) /\ Cardinality(Used) <= Cardinality(Holders)
  <2> DEFINE f == [c \in Holders |-> clients[c]]
  <2>1. f \in Surjection(Holders, Used)
    BY DEF Surjection
  <2> HIDE DEF f, Holders, Used
  <2> QED BY <1>4, <2>1, FS_Surjection
<1>6. Used = UsedDescriptors
  BY DEF UsedDescriptors
<1> HIDE DEF Holders, Used
<1>7. Conns \ Used # {}
  <2>1. ASSUME Conns \ Used = {} PROVE FALSE
    <3>1. Conns \subseteq Used
      BY <2>1
    <3>2. Cardinality(Conns) <= Cardinality(Used)
      BY <1>5, <3>1, FS_Subset
    <3>3. Cardinality(Holders) \in Nat /\ Cardinality(Used) \in Nat
      BY <1>4, <1>5, FS_CardinalityType
    <3> QED BY <1>1, <1>2, <1>4, <1>5, <3>2, <3>3
  <2> QED BY <2>1
<1>8. IsFiniteSet(Conns \ Used) /\ Conns \ Used \subseteq Int
  <2>1. Conns \ Used \in SUBSET Conns
    OBVIOUS
  <2>2. IsFiniteSet(Conns \ Used)
    BY <1>2, <2>1, FS_Subset
  <2>3. Conns \subseteq Int
    BY DEF Conns
  <2> QED BY <2>2, <2>3
<1> QED BY <1>6, <1>7, <1>8, LeastNumber

-----------------------------------------------------------------------------
\* What the steps do, without their guards' details.

NewConn == Len(clients) + 1

LEMMA ConnectDoes ==
    ASSUME ServerTypes, Connect
    PROVE  /\ NewConn \in Conns /\ NewConn > Len(clients) /\ phase = "sleep"
           /\ \E fd \in Conns : clients' = Append(clients, fd)
           /\ handler' = [handler EXCEPT ![NewConn] = "name"]
           /\ outbox' = [outbox EXCEPT ![NewConn] = <<None>>]
           /\ live' = [live EXCEPT ![NewConn] = TRUE]
           /\ UNCHANGED <<prompt, prices, stamped, phase, todo, order, hit, inbox, history,
                          pending, ordered, ghosts>>
<1> DEFINE free == Conns \ UsedDescriptors
           fd == CHOOSE f \in free : \A g \in free : f <= g
<1>1. Len(clients) \in Nat /\ Len(clients) < MaxConns /\ MaxConns \in Nat
  BY PriceAssumption DEF Connect, ServerTypes
<1>2. NewConn \in Conns /\ NewConn > Len(clients)
  BY <1>1 DEF NewConn, Conns
<1>3. fd \in Conns
  <2>1. \E f \in free : \A g \in free : f <= g
    BY <1>1, FreeDescriptor
  <2> HIDE DEF free
  <2>2. fd \in free
    BY <2>1
  <2> QED BY <2>2 DEF free
<1>4. clients' = Append(clients, fd)
  BY DEF Connect
<1> HIDE DEF fd
<1> QED BY <1>2, <1>3, <1>4 DEF Connect, NewConn

LEMMA LastMessage ==
    ASSUME ServerTypes, prices # <<>>
    PROVE  /\ Message \in [id : stamped, value : Values]
           /\ Message.id = Len(prices) - 1 /\ Message.value = prices[Len(prices)]
           /\ Len(prices) \in 1 .. Len(prices)
<1>1. Len(prices) \in Nat \ {0}
  BY EmptySeq DEF ServerTypes
<1>2. Len(prices) \in 1 .. Len(prices) /\ Len(prices) - 1 \in 0 .. (Len(prices) - 1)
  BY <1>1
<1>3. prices[Len(prices)] \in Values
  BY <1>2 DEF ServerTypes
<1> QED BY <1>2, <1>3 DEF Message, ServerTypes, Last

LEMMA NewPriceDoes ==
    ASSUME ServerTypes, NewPrice
    PROVE  /\ \E v \in Values : prices' = Append(prices, v)
           /\ Len(prices') = Len(prices) + 1 /\ Len(prices) \in Nat
           /\ stamped' = 0 .. (Len(prices') - 1) /\ stamped \subseteq stamped'
           /\ phase = "sleep" /\ phase' = "send" /\ todo = <<>> /\ (prompt => Quiet)
           /\ todo' \in Seq(Conns) /\ Len(todo') = Len(clients)
           /\ \A i \in 1 .. Len(todo') : todo'[i] = i
           /\ UNCHANGED <<prompt, clients, handler, order, hit, inbox, outbox, clientVars, ghosts>>
<1>1. PICK v \in Values : prices' = Append(prices, v)
  BY DEF NewPrice
<1>2. Len(prices') = Len(prices) + 1 /\ Len(prices) \in Nat
  BY <1>1 DEF ServerTypes
<1>3. stamped' = 0 .. (Len(prices') - 1) /\ stamped \subseteq stamped'
  BY <1>2 DEF ServerTypes, NewPrice
<1>4. Len(clients) \in Nat /\ 1 .. Len(clients) \subseteq Conns
  BY PriceAssumption DEF ServerTypes, Conns
<1>5. /\ Indices \in Seq(Conns) /\ Len(Indices) = Len(clients)
      /\ \A i \in 1 .. Len(Indices) : Indices[i] = i
  BY <1>4 DEF Indices
<1>6. todo' = Indices
  BY DEF NewPrice
<1> QED BY <1>1, <1>2, <1>3, <1>5, <1>6 DEF NewPrice

LEMMA SendNextDoes ==
    ASSUME ServerTypes, SendNext
    PROVE  /\ phase = "send" /\ todo # <<>> /\ Len(todo) \in Nat \ {0}
           /\ inbox' = [c \in Conns |-> IF c \in Reached(todo[1])
                                        THEN Append(inbox[c], Message) ELSE inbox[c]]
           /\ todo' \in Seq(Conns) /\ Len(todo') = Len(todo) - 1
           /\ \A i \in 1 .. Len(todo') : todo'[i] = todo[i + 1]
           /\ UNCHANGED <<prompt, prices, stamped, phase, clients, handler, order, hit, outbox,
                          clientVars, ghosts>>
<1>1. todo \in Seq(Conns) /\ todo # <<>>
  BY DEF ServerTypes, SendNext
<1>2. /\ Tail(todo) \in Seq(Conns) /\ Len(Tail(todo)) = Len(todo) - 1
      /\ \A i \in 1 .. Len(Tail(todo)) : Tail(todo)[i] = todo[i + 1]
  BY <1>1, HeadTailProperties
<1>3. Len(todo) \in Nat \ {0} /\ Head(todo) = todo[1]
  BY <1>1, EmptySeq
<1>4. todo' = Tail(todo)
  BY DEF SendNext
<1> QED BY <1>1, <1>2, <1>3, <1>4 DEF SendNext

\* A recv takes at least one message.
LEMMA Received ==
    ASSUME NEW S, NEW box \in Seq(S), NEW n \in 1 .. Len(box)
    PROVE  /\ box # <<>> /\ Head(box) = box[1] /\ box[1] \in S
           /\ SubSeq(box, n + 1, Len(box)) \in Seq(S)
           /\ Len(SubSeq(box, n + 1, Len(box))) = Len(box) - n
           /\ \A i \in 1 .. Len(box) - n : SubSeq(box, n + 1, Len(box))[i] = box[n + i]
<1>1. Len(box) \in Nat /\ n \in Nat /\ n <= Len(box) /\ 1 \in 1 .. Len(box)
  OBVIOUS
<1>2. box # <<>> /\ box[1] \in S
  BY <1>1, EmptySeq
<1>3. Head(box) = box[1]
  BY <1>2
<1>4. \A i \in (n + 1) .. Len(box) : box[i] \in S
  BY <1>1
<1> DEFINE r == SubSeq(box, n + 1, Len(box))
<1>5. /\ r \in Seq(S)
      /\ Len(r) = IF n + 1 <= Len(box) THEN Len(box) - (n + 1) + 1 ELSE 0
      /\ \A i \in 1 .. Len(box) - (n + 1) + 1 : r[i] = box[n + 1 + i - 1]
  BY <1>1, <1>4, SubSeqProperties
<1> HIDE DEF r
<1>6. \A l \in Nat : n <= l =>
          /\ (IF n + 1 <= l THEN l - (n + 1) + 1 ELSE 0) = l - n
          /\ \A i \in 1 .. l - n : i \in 1 .. l - (n + 1) + 1 /\ n + 1 + i - 1 = n + i
  OBVIOUS
<1> QED BY <1>1, <1>2, <1>3, <1>5, <1>6 DEF r

LEMMA WiderSequence ==
    ASSUME NEW S, NEW T, S \subseteq T, NEW q \in Seq(S)
    PROVE  q \in Seq(T)
OBVIOUS

LEMMA ServerTypesKept ==
    ASSUME PriceTypes, PriceNext
    PROVE  ServerTypes'
<1> USE DEF PriceTypes
<1>1. CASE Connect
  <2> DEFINE c == NewConn
  <2>1. /\ c \in Conns
        /\ \E fd \in Conns : clients' = Append(clients, fd)
        /\ handler' = [handler EXCEPT ![c] = "name"]
        /\ UNCHANGED <<prices, stamped, phase, todo, order>>
    BY <1>1, ConnectDoes DEF ghosts
  <2>2. clients' \in Seq(Conns) /\ Len(clients') <= MaxConns
    <3>1. PICK fd \in Conns : clients' = Append(clients, fd)
      BY <2>1
    <3>2. clients \in Seq(Conns) /\ Len(clients) \in Nat /\ Len(clients) < MaxConns /\ MaxConns \in Nat
      BY <1>1, PriceAssumption DEF ServerTypes, Connect
    <3>3. clients' \in Seq(Conns) /\ Len(clients') = Len(clients) + 1
      BY <3>1, <3>2
    <3> QED BY <3>2, <3>3
  <2> QED BY <2>1, <2>2 DEF ServerTypes, HandlerSteps
<1>2. CASE NewPrice
  <2>1. /\ stamped' = 0 .. (Len(prices') - 1) /\ phase' = "send" /\ todo' \in Seq(Conns)
        /\ UNCHANGED <<clients, handler, order>>
    BY <1>2, NewPriceDoes
  <2>2. prices' \in Seq(Values)
    <3>1. PICK v \in Values : prices' = Append(prices, v)
      BY <1>2, NewPriceDoes
    <3> QED BY <3>1 DEF ServerTypes
  <2> QED BY <2>1, <2>2 DEF ServerTypes
<1>3. CASE SendNext
  BY <1>3, SendNextDoes DEF ServerTypes
<1>4. CASE EndBroadcast
  BY <1>4 DEF ServerTypes, EndBroadcast
<1>5. CASE \E c \in Conns : Handler(c)
  <2> SUFFICES ASSUME NEW c \in Conns, Handler(c) PROVE ServerTypes'
    BY <1>5
  <2>1. UNCHANGED <<prices, stamped, phase, todo, clients>>
    BY DEF Handler, RecvName, RecvOrder, Decide, Disconnected
  <2>2. handler' \in [Conns -> HandlerSteps]
    BY DEF Handler, RecvName, RecvOrder, Decide, Disconnected, ServerTypes, HandlerSteps
  <2>3. order' = [d \in Conns |-> order'[d]]
    BY DEF Handler, RecvName, RecvOrder, Decide, Disconnected, ServerTypes
  <2> QED BY <2>1, <2>2, <2>3 DEF ServerTypes
<1>6. CASE \E c \in Conns : Client(c)
  <2>1. UNCHANGED serverVars
    BY <1>6 DEF Client, RecvPrice, SendOrder, Leave
  <2> QED BY <2>1 DEF ServerTypes, serverVars
<1> QED BY <1>1, <1>2, <1>3, <1>4, <1>5, <1>6 DEF PriceNext, Broadcaster

LEMMA QueueTypesKept ==
    ASSUME PriceTypes, InTheLoop, PriceNext
    PROVE  QueueTypes'
<1> USE DEF PriceTypes
<1>1. CASE Connect
  <2> DEFINE c == NewConn
  <2>1. outbox' = [outbox EXCEPT ![c] = <<None>>] /\ UNCHANGED <<inbox, stamped>>
    BY <1>1, ConnectDoes DEF ghosts
  <2>2. <<None>> \in Seq(stamped \cup {None})
    OBVIOUS
  <2> QED BY <2>1, <2>2 DEF QueueTypes
<1>2. CASE NewPrice
  <2>1. stamped \subseteq stamped' /\ UNCHANGED <<inbox, outbox>>
    BY <1>2, NewPriceDoes
  <2>2. /\ [id : stamped, value : Values] \subseteq [id : stamped', value : Values]
        /\ stamped \cup {None} \subseteq stamped' \cup {None}
    BY <2>1
  <2>3. ASSUME NEW c \in Conns
        PROVE  /\ inbox[c] \in Seq([id : stamped', value : Values])
               /\ outbox[c] \in Seq(stamped' \cup {None})
    <3>1. /\ inbox[c] \in Seq([id : stamped, value : Values])
          /\ outbox[c] \in Seq(stamped \cup {None})
      BY DEF QueueTypes
    <3> DEFINE M(ids) == [id : ids, value : Values]
               O(ids) == ids \cup {None}
    <3>2. M(stamped) \subseteq M(stamped') /\ O(stamped) \subseteq O(stamped')
      BY <2>2
    <3>3. inbox[c] \in Seq(M(stamped)) /\ outbox[c] \in Seq(O(stamped))
      BY <3>1
    <3> HIDE DEF M, O
    <3>4. inbox[c] \in Seq(M(stamped')) /\ outbox[c] \in Seq(O(stamped'))
      BY <3>2, <3>3, WiderSequence
    <3> QED BY <3>4 DEF M, O
  <2> QED BY <2>1, <2>3 DEF QueueTypes
<1>3. CASE SendNext
  <2>1. /\ inbox' = [c \in Conns |-> IF c \in Reached(todo[1])
                                     THEN Append(inbox[c], Message) ELSE inbox[c]]
        /\ UNCHANGED <<stamped, outbox>> /\ phase = "send"
    BY <1>3, SendNextDoes
  <2>2. Message \in [id : stamped, value : Values]
    BY <2>1, LastMessage DEF InTheLoop
  <2>3. \A c \in Conns : Append(inbox[c], Message) \in Seq([id : stamped, value : Values])
    <3> DEFINE M == [id : stamped, value : Values]
    <3>1. \A c \in Conns : inbox[c] \in Seq(M)
      BY DEF QueueTypes
    <3>2. Message \in M
      BY <2>2
    <3> HIDE DEF M
    <3>3. \A c \in Conns : Append(inbox[c], Message) \in Seq(M)
      BY <3>1, <3>2
    <3> QED BY <3>3 DEF M
  <2> QED BY <2>1, <2>3 DEF QueueTypes
<1>4. CASE EndBroadcast
  BY <1>4 DEF QueueTypes, EndBroadcast
<1>5. CASE \E c \in Conns : Handler(c)
  <2> PICK c \in Conns : Handler(c)
    BY <1>5
  <2>1. UNCHANGED <<stamped, inbox>>
    BY DEF Handler, RecvName, RecvOrder, Decide, Disconnected
  <2>2. outbox' = outbox \/ \E n \in 1 .. Len(outbox[c]) :
            outbox' = [outbox EXCEPT ![c] = SubSeq(@, n + 1, Len(@))]
    BY DEF Handler, RecvName, RecvOrder, Decide, Disconnected
  <2>3. \A n \in 1 .. Len(outbox[c]) :
            SubSeq(outbox[c], n + 1, Len(outbox[c])) \in Seq(stamped \cup {None})
    <3>1. outbox[c] \in Seq(stamped \cup {None})
      BY DEF QueueTypes
    <3> QED BY <3>1, Received
  <2> QED BY <2>1, <2>2, <2>3 DEF QueueTypes
<1>6. CASE \E c \in Conns : Client(c)
  <2> PICK c \in Conns : Client(c)
    BY <1>6
  <2>1. CASE RecvPrice(c)
    <3>1. PICK n \in 1 .. Len(inbox[c]) : inbox' = [inbox EXCEPT ![c] = SubSeq(@, n + 1, Len(@))]
      BY <2>1 DEF RecvPrice
    <3>2. UNCHANGED <<stamped, outbox>>
      BY <2>1 DEF RecvPrice, serverVars
    <3>3. inbox[c] \in Seq([id : stamped, value : Values])
      BY DEF QueueTypes
    <3>4. SubSeq(inbox[c], n + 1, Len(inbox[c])) \in Seq([id : stamped, value : Values])
      BY <3>3, Received
    <3> QED BY <3>1, <3>2, <3>4 DEF QueueTypes
  <2>2. CASE SendOrder(c)
    <3>1. outbox' = [outbox EXCEPT ![c] = Append(@, pending[c])] /\ UNCHANGED <<stamped, inbox>>
      BY <2>2 DEF SendOrder, serverVars
    <3>2. Append(outbox[c], pending[c]) \in Seq(stamped \cup {None})
      BY DEF QueueTypes, ClientTypes
    <3> QED BY <3>1, <3>2 DEF QueueTypes
  <2>3. CASE Leave(c)
    <3>1. inbox' = [inbox EXCEPT ![c] = <<>>] /\ UNCHANGED <<stamped, outbox>>
      BY <2>3 DEF Leave, serverVars
    <3>2. <<>> \in Seq([id : stamped, value : Values])
      BY EmptySeq
    <3> QED BY <3>1, <3>2 DEF QueueTypes
  <2> QED BY <2>1, <2>2, <2>3 DEF Client
<1> QED BY <1>1, <1>2, <1>3, <1>4, <1>5, <1>6 DEF PriceNext, Broadcaster

First(c) == inbox[c][1]

Noted(c) == LastThree(Append(history[c], First(c).value))

LEMMA RecvPriceDoes ==
    ASSUME PriceTypes, NEW c \in Conns, RecvPrice(c)
    PROVE  /\ live[c] /\ pending[c] = None /\ inbox[c] # <<>> /\ 1 \in 1 .. Len(inbox[c])
           /\ First(c) \in [id : stamped, value : Values] /\ Noted(c) \in Seq(Values)
           /\ \E n \in 1 .. Len(inbox[c]) : inbox' = [inbox EXCEPT ![c] = SubSeq(@, n + 1, Len(@))]
           /\ history' = [history EXCEPT ![c] = Noted(c)]
           /\ pending' = [pending EXCEPT ![c] = IF Momentum(Noted(c)) THEN First(c).id ELSE None]
           /\ UNCHANGED <<serverVars, outbox, live, ordered, ghosts>>
<1> DEFINE M == [id : stamped, value : Values]
<1>1. inbox[c] \in Seq(M)
  BY DEF PriceTypes, QueueTypes
<1> HIDE DEF M
<1>2. PICK n \in 1 .. Len(inbox[c]) : inbox' = [inbox EXCEPT ![c] = SubSeq(@, n + 1, Len(@))]
  BY DEF RecvPrice
<1>3. inbox[c] # <<>> /\ Head(inbox[c]) = First(c) /\ First(c) \in M
  BY <1>1, Received DEF First
<1>4. 1 \in 1 .. Len(inbox[c])
  BY <1>1
<1>5. First(c).value \in Values /\ history[c] \in Seq(Values)
  BY <1>3 DEF M, PriceTypes, ClientTypes
<1>6. Noted(c) \in Seq(Values)
  <2>1. Append(history[c], First(c).value) \in Seq(Values)
        /\ Append(history[c], First(c).value) # <<>>
    BY <1>5
  <2>2. Tail(Append(history[c], First(c).value)) \in Seq(Values)
    BY <2>1, HeadTailProperties
  <2> QED BY <2>1, <2>2 DEF Noted, LastThree
<1>7. /\ history' = [history EXCEPT ![c] = Noted(c)]
      /\ pending' = [pending EXCEPT ![c] = IF Momentum(Noted(c)) THEN First(c).id ELSE None]
  BY <1>3 DEF RecvPrice, Noted
<1>8. live[c] /\ pending[c] = None /\ UNCHANGED <<serverVars, outbox, live, ordered, ghosts>>
  BY DEF RecvPrice
<1> QED BY <1>2, <1>3, <1>4, <1>6, <1>7, <1>8 DEF M

LEMMA ClientTypesKept ==
    ASSUME PriceTypes, PriceNext
    PROVE  ClientTypes'
<1>1. CASE Connect
  <2>1. live' = [live EXCEPT ![NewConn] = TRUE] /\ UNCHANGED <<history, pending, stamped>>
    BY <1>1, ConnectDoes DEF PriceTypes
  <2> QED BY <2>1 DEF PriceTypes, ClientTypes
<1>2. CASE NewPrice
  <2>1. stamped \subseteq stamped' /\ UNCHANGED <<live, history, pending>>
    BY <1>2, NewPriceDoes DEF PriceTypes, clientVars
  <2> QED BY <2>1 DEF PriceTypes, ClientTypes
<1>3. CASE SendNext \/ EndBroadcast \/ \E c \in Conns : Handler(c)
  <2>1. UNCHANGED <<live, history, pending, stamped>>
    BY <1>3 DEF SendNext, EndBroadcast, Handler, RecvName, RecvOrder, Decide, Disconnected, clientVars
  <2> QED BY <2>1 DEF PriceTypes, ClientTypes
<1>4. CASE \E c \in Conns : Client(c)
  <2> PICK c \in Conns : Client(c)
    BY <1>4
  <2>1. CASE RecvPrice(c)
    <3>1. /\ First(c).id \in stamped /\ Noted(c) \in Seq(Values)
          /\ history' = [history EXCEPT ![c] = Noted(c)]
          /\ pending' = [pending EXCEPT ![c] = IF Momentum(Noted(c)) THEN First(c).id ELSE None]
          /\ UNCHANGED <<stamped, live>>
      BY <2>1, RecvPriceDoes DEF serverVars
    <3> QED BY <3>1 DEF PriceTypes, ClientTypes
  <2>2. CASE SendOrder(c) \/ Leave(c)
    BY <2>2 DEF SendOrder, Leave, serverVars, PriceTypes, ClientTypes
  <2> QED BY <2>1, <2>2 DEF Client
<1> QED BY <1>1, <1>2, <1>3, <1>4 DEF PriceNext, Broadcaster

LEMMA GhostTypesKept ==
    ASSUME PriceTypes, PriceNext
    PROVE  /\ ordered' \subseteq Conns \X stamped'
           /\ credits' \in Seq(Conns \X hit')
<1> USE DEF PriceTypes
<1>1. CASE \E c \in Conns : Decide(c)
  <2> PICK c \in Conns : Decide(c)
    BY <1>1
  <2>1. UNCHANGED <<ordered, stamped>>
    BY DEF Decide, clientVars
  <2>2. CASE Creditable(order[c])
    <3>1. hit' = hit \cup {order[c]} /\ credits' = Append(credits, <<c, order[c]>>)
      BY <2>2 DEF Decide
    <3>2. Conns \X hit \subseteq Conns \X hit' /\ <<c, order[c]>> \in Conns \X hit'
      BY <3>1
    <3> DEFINE P(ids) == Conns \X ids
    <3>3. P(hit) \subseteq P(hit') /\ <<c, order[c]>> \in P(hit') /\ credits \in Seq(P(hit))
      BY <3>2
    <3> HIDE DEF P
    <3>4. credits \in Seq(P(hit'))
      BY <3>3, WiderSequence
    <3>5. Append(credits, <<c, order[c]>>) \in Seq(P(hit'))
      BY <3>3, <3>4, AppendProperties
    <3>6. credits' \in Seq(P(hit'))
      BY <3>1, <3>5, Zenon
    <3> QED BY <2>1, <3>6 DEF P
  <2>3. CASE ~Creditable(order[c])
    <3>1. UNCHANGED <<hit, credits>>
      BY <2>3 DEF Decide
    <3> QED BY <2>1, <3>1
  <2> QED BY <2>2, <2>3
<1>2. CASE \E c \in Conns : SendOrder(c)
  <2> PICK c \in Conns : SendOrder(c)
    BY <1>2
  <2>1. ordered' = ordered \cup {<<c, pending[c]>>} /\ UNCHANGED <<stamped, hit, credits>>
    BY DEF SendOrder, serverVars, ghosts
  <2>2. pending[c] \in stamped
    BY DEF SendOrder, ClientTypes
  <2> QED BY <2>1, <2>2
<1>3. CASE NewPrice
  <2>1. stamped \subseteq stamped' /\ UNCHANGED <<ordered, hit, credits>>
    BY <1>3, NewPriceDoes DEF clientVars, ghosts
  <2> QED BY <2>1
<1>4. CASE \/ Connect \/ SendNext \/ EndBroadcast
           \/ \E c \in Conns : RecvName(c) \/ RecvOrder(c) \/ Disconnected(c) \/ RecvPrice(c) \/ Leave(c)
  <2>1. UNCHANGED <<ordered, stamped, hit, credits>>
    BY <1>4 DEF Connect, SendNext, EndBroadcast, RecvName, RecvOrder, Disconnected, RecvPrice, Leave,
         serverVars, clientVars, ghosts
  <2> QED BY <2>1
<1> QED BY <1>1, <1>2, <1>3, <1>4 DEF PriceNext, Broadcaster, Handler, Client

LEMMA TypesKept ==
    ASSUME PriceTypes, InTheLoop, PriceNext
    PROVE  PriceTypes'
BY ServerTypesKept, QueueTypesKept, ClientTypesKept, GhostTypesKept DEF PriceTypes

-----------------------------------------------------------------------------
LEMMA ServedKept ==
    ASSUME PriceTypes, Served, InTheLoop, PriceNext
    PROVE  Served'
<1> USE DEF PriceTypes
<1>0. Len(clients) \in Nat /\ \A c \in Conns : c \in Int
  BY DEF ServerTypes, Conns
<1>1. CASE Connect
  <2>1. /\ NewConn \in Conns
        /\ handler' = [handler EXCEPT ![NewConn] = "name"]
        /\ outbox' = [outbox EXCEPT ![NewConn] = <<None>>]
        /\ live' = [live EXCEPT ![NewConn] = TRUE]
        /\ UNCHANGED <<inbox, history, pending>>
    BY <1>1, ConnectDoes
  <2>2. Len(clients') = Len(clients) + 1
    <3>1. \E fd \in Conns : clients' = Append(clients, fd)
      BY <1>1, ConnectDoes
    <3> QED BY <3>1 DEF ServerTypes
  <2>3. ASSUME NEW c \in Conns
        PROVE  /\ c > Len(clients') => /\ handler'[c] = "none" /\ ~live'[c]
                                       /\ inbox'[c] = <<>> /\ outbox'[c] = <<>>
                                       /\ history'[c] = <<>> /\ pending'[c] = None
               /\ live'[c] => handler'[c] \in {"name", "recv", "decide"}
    <3>1. CASE c = NewConn
      BY <1>0, <2>1, <2>2, <3>1 DEF ServerTypes, NewConn
    <3>2. CASE c # NewConn
      <4>1. handler'[c] = handler[c] /\ outbox'[c] = outbox[c] /\ live'[c] = live[c]
        BY <2>1, <3>2 DEF ServerTypes, QueueTypes, ClientTypes
      <4>2. c > Len(clients') => c > Len(clients)
        BY <1>0, <2>2
      <4> QED BY <2>1, <4>1, <4>2 DEF Served, Serves
    <3> QED BY <3>1, <3>2
  <2> QED BY <2>3 DEF Served, Serves
<1>2. CASE NewPrice \/ EndBroadcast
  <2>1. UNCHANGED <<clients, handler, live, inbox, outbox, history, pending>>
    BY <1>2 DEF NewPrice, EndBroadcast, clientVars
  <2> QED BY <2>1 DEF Served, Serves
<1>3. CASE SendNext
  <2>1. /\ UNCHANGED <<clients, handler, live, outbox, history, pending>>
        /\ inbox' = [c \in Conns |-> IF c \in Reached(todo[1])
                                     THEN Append(inbox[c], Message) ELSE inbox[c]]
    BY <1>3, SendNextDoes DEF clientVars
  <2>2. ASSUME NEW c \in Conns, c > Len(clients) PROVE inbox'[c] = inbox[c]
    <3>1. DOMAIN clients = 1 .. Len(clients)
      BY DEF ServerTypes
    <3>2. c \notin Reached(todo[1])
      BY <1>0, <2>2, <3>1 DEF Reached
    <3> QED BY <2>1, <3>2
  <2> QED BY <2>1, <2>2 DEF Served, Serves
<1>4. CASE \E c \in Conns : Handler(c) \/ Client(c)
  <2> PICK c \in Conns : Handler(c) \/ Client(c)
    BY <1>4
  <2>1. /\ UNCHANGED clients
        /\ \A d \in Conns : d # c => /\ handler'[d] = handler[d] /\ live'[d] = live[d]
                                     /\ inbox'[d] = inbox[d] /\ outbox'[d] = outbox[d]
                                     /\ history'[d] = history[d] /\ pending'[d] = pending[d]
    BY DEF Handler, Client, RecvName, RecvOrder, Decide, Disconnected, RecvPrice, SendOrder, Leave,
         ServerTypes, QueueTypes, ClientTypes, serverVars, clientVars
  <2>2. handler[c] # "none"
    BY DEF Handler, Client, RecvName, RecvOrder, Decide, Disconnected, RecvPrice, SendOrder, Leave,
         Served, Serves
  <2>3. ~(c > Len(clients))
    BY <2>2 DEF Served
  <2>4. live'[c] => Serves(c)'
    BY DEF Handler, Client, RecvName, RecvOrder, Decide, Disconnected, RecvPrice, SendOrder, Leave,
         ServerTypes, ClientTypes, serverVars, clientVars, Served, Serves
  <2> QED BY <2>1, <2>3, <2>4 DEF Served, Serves
<1> QED BY <1>1, <1>2, <1>3, <1>4 DEF PriceNext, Broadcaster

LEMMA AppendFirst ==
    ASSUME NEW S, NEW q \in Seq(S), NEW e \in S
    PROVE  Append(q, e) # <<>> /\ (q # <<>> => Append(q, e)[1] = q[1])
<1>1. q # <<>> => 1 \in 1 .. Len(q)
  BY EmptySeq
<1> QED BY <1>1, AppendProperties

LEMMA FirstAlone ==
    ASSUME NEW S, NEW q \in Seq(S), 1 \in 1 .. Len(q)
    PROVE  SubSeq(q, 1, 1) = <<q[1]>>
<1>1. Len(q) \in Nat /\ Len(q) >= 1 /\ q[1] \in S
  OBVIOUS
<1> DEFINE s == SubSeq(q, 1, 1)
<1>2. s \in Seq(S) /\ Len(s) = 1 /\ s[1] = q[1]
  BY <1>1
<1>3. <<q[1]>> \in Seq(S) /\ Len(<<q[1]>>) = 1 /\ <<q[1]>>[1] = q[1]
  BY <1>1
<1> HIDE DEF s
<1>4. \A i \in 1 .. 1 : i = 1
  OBVIOUS
<1>5. s = <<q[1]>>
  BY <1>2, <1>3, <1>4, SeqEqual
<1> QED BY <1>5 DEF s

LEMMA NameFirstKept ==
    ASSUME PriceTypes, Served, NameFirst, PriceNext
    PROVE  NameFirst'
<1> USE DEF PriceTypes
<1>1. CASE Connect
  <2>1. /\ handler' = [handler EXCEPT ![NewConn] = "name"] /\ NewConn \in Conns
        /\ outbox' = [outbox EXCEPT ![NewConn] = <<None>>]
    BY <1>1, ConnectDoes
  <2>2. <<None>> # <<>> /\ <<None>>[1] = None
    OBVIOUS
  <2> QED BY <2>1, <2>2 DEF NameFirst, ServerTypes, QueueTypes
<1>2. CASE Broadcaster \/ \E c \in Conns : RecvPrice(c) \/ Leave(c)
  <2>1. UNCHANGED <<handler, outbox>>
    BY <1>2 DEF Broadcaster, NewPrice, SendNext, EndBroadcast, RecvPrice, Leave, serverVars
  <2> QED BY <2>1 DEF NameFirst
<1>3. CASE \E c \in Conns : Handler(c)
  <2> PICK c \in Conns : Handler(c)
    BY <1>3
  <2>1. /\ handler'[c] # "name"
        /\ \A d \in Conns : d # c => handler'[d] = handler[d] /\ outbox'[d] = outbox[d]
    BY DEF Handler, RecvName, RecvOrder, Decide, Disconnected, ServerTypes, QueueTypes
  <2> QED BY <2>1 DEF NameFirst
<1>4. CASE \E c \in Conns : SendOrder(c)
  <2> PICK c \in Conns : SendOrder(c)
    BY <1>4
  <2>1. outbox' = [outbox EXCEPT ![c] = Append(@, pending[c])] /\ UNCHANGED handler
    BY DEF SendOrder, serverVars
  <2>2. /\ Append(outbox[c], pending[c]) # <<>>
        /\ outbox[c] # <<>> => Append(outbox[c], pending[c])[1] = outbox[c][1]
    <3>1. outbox[c] \in Seq(stamped \cup {None}) /\ pending[c] \in stamped \cup {None}
      BY DEF QueueTypes, ClientTypes
    <3> QED BY <3>1, AppendFirst
  <2> QED BY <2>1, <2>2 DEF NameFirst, QueueTypes
<1> QED BY <1>1, <1>2, <1>3, <1>4 DEF PriceNext, Handler, Client

LEMMA InTheLoopKept ==
    ASSUME PriceTypes, InTheLoop, PriceNext
    PROVE  InTheLoop'
<1> USE DEF PriceTypes
<1>0. Len(clients) \in Nat /\ Len(todo) \in Nat
  BY DEF ServerTypes
<1>1. CASE Connect
  <2>1. UNCHANGED <<phase, todo, prices>> /\ phase = "sleep"
    BY <1>1, ConnectDoes
  <2>2. Len(clients') = Len(clients) + 1
    <3>1. \E fd \in Conns : clients' = Append(clients, fd)
      BY <1>1, ConnectDoes
    <3> QED BY <3>1 DEF ServerTypes
  <2>3. todo = <<>> /\ Len(todo) = 0
    BY <2>1, EmptySeq DEF InTheLoop
  <2> QED BY <1>0, <2>1, <2>2, <2>3 DEF InTheLoop
<1>2. CASE NewPrice
  <2>1. /\ Len(todo') = Len(clients) /\ \A i \in 1 .. Len(todo') : todo'[i] = i
        /\ UNCHANGED clients /\ phase' = "send"
    BY <1>2, NewPriceDoes
  <2>2. prices' # <<>>
    <3>1. PICK v \in Values : prices' = Append(prices, v)
      BY <1>2, NewPriceDoes
    <3>2. prices \in Seq(Values)
      BY DEF ServerTypes
    <3>3. Append(prices, v) # <<>>
      BY <3>2, AppendProperties
    <3> QED BY <3>1, <3>3
  <2> QED BY <1>0, <2>1, <2>2 DEF InTheLoop
<1>3. CASE SendNext
  <2>1. /\ Len(todo) \in Nat \ {0} /\ Len(todo') = Len(todo) - 1 /\ phase = "send"
        /\ \A i \in 1 .. Len(todo') : todo'[i] = todo[i + 1]
        /\ UNCHANGED <<clients, phase, prices>>
    BY <1>3, SendNextDoes
  <2>2. ASSUME NEW i \in 1 .. Len(todo') PROVE todo'[i] = Len(clients) - Len(todo') + i
    <3>1. i + 1 \in 1 .. Len(todo)
      BY <2>1
    <3>2. todo[i + 1] = Len(clients) - Len(todo) + (i + 1)
      BY <3>1 DEF InTheLoop
    <3> QED BY <1>0, <2>1, <3>2
  <2>3. Len(todo') <= Len(clients)
    BY <1>0, <2>1 DEF InTheLoop
  <2> QED BY <2>1, <2>2, <2>3 DEF InTheLoop
<1>4. CASE EndBroadcast
  BY <1>4 DEF EndBroadcast, InTheLoop
<1>5. CASE \E c \in Conns : Handler(c) \/ Client(c)
  <2>1. UNCHANGED <<phase, todo, prices, clients>>
    BY <1>5 DEF Handler, Client, RecvName, RecvOrder, Decide, Disconnected, RecvPrice, SendOrder,
         Leave, serverVars
  <2> QED BY <2>1 DEF InTheLoop
<1> QED BY <1>1, <1>2, <1>3, <1>4, <1>5 DEF PriceNext, Broadcaster

\* The credits name different prices, all of them hit.
LEMMA OneCreditKept ==
    ASSUME PriceTypes, OneCreditPerPrice, PriceNext
    PROVE  OneCreditPerPrice'
<1>1. CASE \E c \in Conns : Decide(c) /\ Creditable(order[c])
  <2> PICK c \in Conns : Decide(c) /\ Creditable(order[c])
    BY <1>1
  <2>1. credits' = Append(credits, <<c, order[c]>>) /\ order[c] \notin hit
    BY DEF Decide, Creditable
  <2> DEFINE new == <<c, order[c]>>
             n == Len(credits)
  <2>2. n \in Nat /\ \A i \in 1 .. n : credits[i][2] \in hit
    BY DEF PriceTypes
  <2>3. DOMAIN credits = 1 .. n
    BY DEF PriceTypes
  <2>4. /\ DOMAIN credits' = 1 .. (n + 1) /\ credits'[n + 1] = new
        /\ \A i \in 1 .. n : credits'[i] = credits[i]
    BY <2>1 DEF PriceTypes
  <2>5. new[2] \notin hit
    BY <2>1
  <2> HIDE DEF new, n
  <2>6. ASSUME NEW i \in 1 .. (n + 1), NEW j \in 1 .. (n + 1), credits'[i][2] = credits'[j][2]
        PROVE  i = j
    <3>1. \A k \in 1 .. (n + 1) : k \in 1 .. n \/ k = n + 1
      BY <2>2
    <3>2. \A k \in 1 .. n : credits'[k][2] = credits[k][2] /\ credits'[k][2] \in hit
      BY <2>2, <2>4
    <3>3. credits'[n + 1][2] \notin hit
      BY <2>4, <2>5
    <3>4. CASE i \in 1 .. n /\ j \in 1 .. n
      BY <2>3, <2>6, <3>2, <3>4 DEF OneCreditPerPrice
    <3> QED BY <2>6, <3>1, <3>2, <3>3, <3>4
  <2> QED BY <2>4, <2>6 DEF OneCreditPerPrice
<1>2. CASE ~\E c \in Conns : Decide(c) /\ Creditable(order[c])
  <2>1. UNCHANGED credits
    BY <1>2 DEF PriceNext, Connect, Broadcaster, NewPrice, SendNext, EndBroadcast, Handler, Client,
         RecvName, RecvOrder, Decide, Disconnected, RecvPrice, SendOrder, Leave, ghosts
  <2> QED BY <2>1 DEF OneCreditPerPrice
<1> QED BY <1>1, <1>2

Decided(o) == o[2] \in hit \/ o \in runTogether \/ Waits(o[1], o[2])

\* An order stays in its place.
LEMMA WaitsStays ==
    ASSUME PriceTypes, NEW c \in Conns, NEW i, Waits(c, i),
           outbox'[c] = outbox[c], handler'[c] = handler[c], order'[c] = order[c]
    PROVE  Waits(c, i)'
BY DEF Waits

LEMMA OrdersDecidedKept ==
    ASSUME PriceTypes, Served, NameFirst, PriceNext, \A o \in ordered : Decided(o)
    PROVE  \A o \in ordered' : Decided(o)'
<1> USE DEF PriceTypes
<1>1. ASSUME NEW o \in ordered
      PROVE  /\ o[1] \in Conns /\ o[2] \in stamped /\ o = <<o[1], o[2]>>
             /\ o[2] # None /\ o[2] \in Int /\ Decided(o)
  BY <1>1 DEF ServerTypes, None
<1>2. CASE Connect
  <2> SUFFICES ASSUME NEW o \in ordered PROVE Decided(o)'
    BY <1>2, ConnectDoes
  <2>1. /\ UNCHANGED <<hit, order, runTogether>> /\ NewConn \in Conns /\ NewConn > Len(clients)
        /\ handler' = [handler EXCEPT ![NewConn] = "name"]
        /\ outbox' = [outbox EXCEPT ![NewConn] = <<None>>]
    BY <1>2, ConnectDoes DEF ghosts
  <2>2. CASE o[1] = NewConn
    <3>1. outbox[NewConn] = <<>> /\ handler[NewConn] = "none"
      BY <2>1 DEF Served
    <3>2. ~Waits(o[1], o[2])
      BY <2>2, <3>1 DEF Waits
    <3> QED BY <1>1, <2>1, <3>2 DEF Decided
  <2>3. CASE o[1] # NewConn
    <3>1. outbox'[o[1]] = outbox[o[1]] /\ handler'[o[1]] = handler[o[1]] /\ order'[o[1]] = order[o[1]]
      BY <1>1, <2>1, <2>3 DEF ServerTypes, QueueTypes
    <3> QED BY <1>1, <2>1, <3>1, WaitsStays DEF Decided
  <2> QED BY <2>2, <2>3
<1>3. CASE Broadcaster \/ \E c \in Conns : RecvPrice(c) \/ Leave(c)
  <2>1. UNCHANGED <<ordered, hit, order, runTogether, handler, outbox>>
    BY <1>3 DEF Broadcaster, NewPrice, SendNext, EndBroadcast, RecvPrice, Leave, serverVars,
         clientVars, ghosts
  <2> QED BY <1>1, <2>1, WaitsStays DEF Decided
<1>4. CASE \E c \in Conns : RecvName(c) \/ RecvOrder(c)
  <2> PICK c \in Conns : RecvName(c) \/ RecvOrder(c)
    BY <1>4
  <2>1. PICK n \in 1 .. Len(outbox[c]) :
            /\ outbox' = [outbox EXCEPT ![c] = SubSeq(@, n + 1, Len(@))]
            /\ \/ RecvName(c) /\ runTogether' = runTogether \cup {<<c, outbox[c][k]>> : k \in 2 .. n}
               \/ /\ RecvOrder(c)
                  /\ order' = [order EXCEPT ![c] = RunOn(SubSeq(outbox[c], 1, n))]
                  /\ runTogether' = IF n = 1 THEN runTogether
                                    ELSE runTogether \cup {<<c, outbox[c][k]>> : k \in 1 .. n}
    BY DEF RecvName, RecvOrder
  <2>2. /\ UNCHANGED <<ordered, hit>> /\ handler[c] \in {"name", "recv"}
        /\ runTogether \subseteq runTogether'
        /\ \A d \in Conns : d # c => /\ outbox'[d] = outbox[d] /\ handler'[d] = handler[d]
                                     /\ order'[d] = order[d]
    BY <2>1 DEF RecvName, RecvOrder, ServerTypes, QueueTypes, clientVars
  <2> SUFFICES ASSUME NEW o \in ordered, o[1] = c, Waits(c, o[2]) PROVE Decided(o)'
    BY <1>1, <2>2, WaitsStays DEF Decided
  <2> DEFINE box == outbox[c]
  <2>3. box \in Seq(stamped \cup {None}) /\ stamped \cup {None} \subseteq Int
    BY DEF QueueTypes, ServerTypes, None
  <2>4. PICK k \in 1 .. Len(box) : box[k] = o[2]
    <3>1. \E k \in DOMAIN outbox[c] : outbox[c][k] = o[2]
      BY <2>2 DEF Waits
    <3>2. DOMAIN box = 1 .. Len(box)
      BY <2>3
    <3> QED BY <3>1, <3>2
  <2>5. /\ outbox'[c] = SubSeq(box, n + 1, Len(box))
        /\ Len(outbox'[c]) = Len(box) - n /\ outbox'[c] \in Seq(stamped \cup {None})
        /\ \A i \in 1 .. Len(box) - n : outbox'[c][i] = box[n + i]
    <3>1. outbox'[c] = SubSeq(box, n + 1, Len(box))
      BY <2>1 DEF QueueTypes
    <3>2. n \in 1 .. Len(box)
      OBVIOUS
    <3> HIDE DEF box
    <3>3. /\ SubSeq(box, n + 1, Len(box)) \in Seq(stamped \cup {None})
          /\ Len(SubSeq(box, n + 1, Len(box))) = Len(box) - n
          /\ \A i \in 1 .. Len(box) - n : SubSeq(box, n + 1, Len(box))[i] = box[n + i]
      BY <2>3, <3>2, Received
    <3> QED BY <3>1, <3>3, Zenon
  <2>6. CASE k > n
    <3>1. Len(box) \in Nat
      BY <2>3
    <3>2. k - n \in 1 .. Len(box) - n /\ n + (k - n) = k
      BY <2>6, <3>1
    <3>3. outbox'[c][k - n] = o[2] /\ k - n \in DOMAIN outbox'[c]
      <4>1. outbox'[c][k - n] = box[n + (k - n)]
        BY <2>5, <3>2
      <4>2. k - n \in 1 .. Len(outbox'[c])
        BY <2>5, <3>2
      <4> HIDE DEF box
      <4>3. k - n \in DOMAIN outbox'[c]
        BY <2>5, <4>2
      <4> QED BY <2>4, <3>2, <4>1, <4>3
    <3>4. Waits(c, o[2])'
      BY <3>3 DEF Waits
    <3> QED BY <3>4 DEF Decided
  <2>7. CASE k <= n
    <3>1. o = <<c, box[k]>>
      BY <1>1, <2>4
    <3>2. CASE RecvName(c)
      <4>1. k # 1
        BY <1>1, <2>4, <3>2 DEF RecvName, NameFirst
      <4>2. runTogether' = runTogether \cup {<<c, outbox[c][j]>> : j \in 2 .. n}
        BY <2>1, <3>2 DEF RecvName, RecvOrder
      <4>3. k \in 2 .. n
        BY <2>7, <4>1
      <4> QED BY <3>1, <4>2, <4>3 DEF Decided
    <3>3. CASE RecvOrder(c)
      <4>1. /\ order' = [order EXCEPT ![c] = RunOn(SubSeq(outbox[c], 1, n))]
            /\ runTogether' = IF n = 1 THEN runTogether
                              ELSE runTogether \cup {<<c, outbox[c][j]>> : j \in 1 .. n}
        BY <2>1, <3>3 DEF RecvName, RecvOrder
      <4>2. CASE n # 1
        <5>1. k \in 1 .. n
          BY <2>7
        <5> QED BY <3>1, <4>1, <4>2, <5>1 DEF Decided
      <4>3. CASE n = 1
        <5>1. k = 1 /\ 1 \in 1 .. Len(box)
          BY <2>7, <4>3
        <5>2. SubSeq(box, 1, 1) = <<box[1]>>
          <6> HIDE DEF box
          <6> QED BY <2>3, <5>1, FirstAlone
        <5>3. RunOn(SubSeq(box, 1, 1)) = o[2]
          BY <1>1, <2>4, <5>1, <5>2, RunOnOne
        <5>4. order'[c] = o[2] /\ handler'[c] = "decide"
          BY <3>3, <4>1, <4>3, <5>3 DEF RecvOrder, ServerTypes
        <5> QED BY <5>4 DEF Decided, Waits
      <4> QED BY <4>2, <4>3
    <3> QED BY <3>2, <3>3
  <2> QED BY <2>3, <2>6, <2>7
<1>5. CASE \E c \in Conns : Decide(c)
  <2> PICK c \in Conns : Decide(c)
    BY <1>5
  <2> SUFFICES ASSUME NEW o \in ordered PROVE Decided(o)'
    BY DEF Decide, clientVars
  <2>1. /\ hit \subseteq hit' /\ UNCHANGED <<runTogether, outbox>>
        /\ \A d \in Conns : d # c => handler'[d] = handler[d] /\ order'[d] = order[d]
    BY DEF Decide, ServerTypes, ghosts
  <2>2. CASE o[1] = c /\ order[c] = o[2]
    BY <1>1, <2>1, <2>2 DEF Decide, Creditable, Decided
  <2>3. CASE o[1] = c /\ order[c] # o[2]
    BY <1>1, <2>1, <2>3 DEF Decided, Waits
  <2>4. CASE o[1] # c
    BY <1>1, <2>1, <2>4, WaitsStays DEF Decided
  <2> QED BY <2>2, <2>3, <2>4
<1>6. CASE \E c \in Conns : Disconnected(c)
  <2> PICK c \in Conns : Disconnected(c)
    BY <1>6
  <2>1. /\ UNCHANGED <<ordered, hit, runTogether, outbox, order>> /\ handler[c] # "decide"
        /\ \A d \in Conns : d # c => handler'[d] = handler[d]
    BY DEF Disconnected, ServerTypes, clientVars, ghosts
  <2> SUFFICES ASSUME NEW o \in ordered PROVE Decided(o)'
    BY <2>1
  <2>2. CASE o[1] = c
    BY <1>1, <2>1, <2>2 DEF Decided, Waits
  <2>3. CASE o[1] # c
    BY <1>1, <2>1, <2>3, WaitsStays DEF Decided
  <2> QED BY <2>2, <2>3
<1>7. CASE \E c \in Conns : SendOrder(c)
  <2> PICK c \in Conns : SendOrder(c)
    BY <1>7
  <2>1. /\ UNCHANGED <<hit, runTogether, order, handler>>
        /\ outbox' = [outbox EXCEPT ![c] = Append(@, pending[c])]
        /\ ordered' = ordered \cup {<<c, pending[c]>>}
    BY DEF SendOrder, serverVars, ghosts
  <2> DEFINE box == Append(outbox[c], pending[c])
  <2>2. /\ outbox[c] \in Seq(stamped \cup {None}) /\ pending[c] \in stamped \cup {None}
    BY DEF QueueTypes, ClientTypes
  <2>3. /\ DOMAIN outbox[c] = 1 .. Len(outbox[c]) /\ Len(outbox[c]) \in Nat
        /\ DOMAIN box = 1 .. (Len(outbox[c]) + 1)
        /\ box[Len(outbox[c]) + 1] = pending[c]
        /\ \A i \in 1 .. Len(outbox[c]) : box[i] = outbox[c][i]
    BY <2>2
  <2> HIDE DEF box
  <2>4. outbox'[c] = box /\ \A d \in Conns : d # c => outbox'[d] = outbox[d]
    BY <2>1 DEF QueueTypes, box
  <2>5. ASSUME NEW o \in ordered PROVE Decided(o)'
    <3>1. CASE o[1] = c
      <4>1. ASSUME NEW k \in DOMAIN outbox[c], outbox[c][k] = o[2]
            PROVE  \E j \in DOMAIN outbox'[c] : outbox'[c][j] = o[2]
        <5>1. k \in DOMAIN box /\ box[k] = outbox[c][k]
          BY <2>3
        <5> QED BY <2>4, <4>1, <5>1
      <4>2. Waits(c, o[2]) => Waits(c, o[2])'
        BY <2>1, <4>1 DEF Waits
      <4> QED BY <1>1, <2>1, <3>1, <4>2 DEF Decided
    <3>2. CASE o[1] # c
      BY <1>1, <2>1, <2>4, <3>2, WaitsStays DEF Decided
    <3> QED BY <3>1, <3>2
  <2>6. ASSUME NEW i, i = pending[c] PROVE Decided(<<c, i>>)'
    <3>1. Len(outbox[c]) + 1 \in DOMAIN box
      BY <2>3
    <3>2. \E k \in DOMAIN outbox'[c] : outbox'[c][k] = i
      BY <2>3, <2>4, <2>6, <3>1
    <3> QED BY <3>2 DEF Decided, Waits
  <2> QED BY <2>1, <2>5, <2>6
<1> QED BY <1>2, <1>3, <1>4, <1>5, <1>6, <1>7 DEF PriceNext, Handler, Client

-----------------------------------------------------------------------------
\* The clients, when every reaction is prompt.

LEMMA Rest ==
    ASSUME NEW S, NEW box \in Seq(S), NEW n \in 1 .. Len(box), NEW m, \A i \in 1 .. Len(box) : box[i] = m
    PROVE  \A i \in 1 .. Len(SubSeq(box, n + 1, Len(box))) : SubSeq(box, n + 1, Len(box))[i] = m
<1> DEFINE r == SubSeq(box, n + 1, Len(box))
<1>1. Len(r) = Len(box) - n /\ \A i \in 1 .. Len(box) - n : r[i] = box[n + i]
  BY Received
<1>2. Len(box) \in Nat /\ \A i \in 1 .. Len(box) - n : n + i \in 1 .. Len(box)
  OBVIOUS
<1> HIDE DEF r
<1>3. \A i \in 1 .. Len(r) : r[i] = m
  BY <1>1, <1>2
<1> QED BY <1>3 DEF r

LEMMA OneMore ==
    ASSUME NEW S, NEW box \in Seq(S), NEW m \in S, \A i \in 1 .. Len(box) : box[i] = m
    PROVE  \A i \in 1 .. Len(Append(box, m)) : Append(box, m)[i] = m
<1> DEFINE b == Append(box, m)
<1>1. Len(b) = Len(box) + 1 /\ b[Len(box) + 1] = m /\ \A i \in 1 .. Len(box) : b[i] = box[i]
  BY AppendProperties
<1>2. Len(box) \in Nat
  OBVIOUS
<1> HIDE DEF b
<1>3. \A i \in 1 .. Len(b) : i \in 1 .. Len(box) \/ i = Len(box) + 1
  BY <1>1, <1>2
<1>4. \A i \in 1 .. Len(b) : b[i] = m
  BY <1>1, <1>3
<1> QED BY <1>4 DEF b

LEMMA OnlyLastKept ==
    ASSUME PriceTypes, Served, InTheLoop, prompt, OnlyLast, PriceNext
    PROVE  OnlyLast'
<1> USE DEF PriceTypes
<1>0. Len(<<>>) = 0
  BY EmptySeq
<1>1. CASE Connect
  <2>1. UNCHANGED <<inbox, prices>> /\ live' = [live EXCEPT ![NewConn] = TRUE]
        /\ NewConn \in Conns /\ NewConn > Len(clients)
    BY <1>1, ConnectDoes
  <2>2. inbox[NewConn] = <<>>
    BY <2>1 DEF Served
  <2>3. Message' = Message
    BY <2>1 DEF Message
  <2>4. ASSUME NEW c \in Conns, live'[c], NEW i \in 1 .. Len(inbox[c]) PROVE inbox[c][i] = Message
    <3>1. c # NewConn
      BY <1>0, <2>2, <2>4
    <3>2. live[c]
      BY <2>1, <2>4, <3>1 DEF ClientTypes
    <3> QED BY <2>4, <3>2 DEF OnlyLast
  <2> QED BY <2>1, <2>3, <2>4 DEF OnlyLast
<1>2. CASE NewPrice
  <2>1. Quiet /\ UNCHANGED <<live, inbox>>
    BY <1>2, NewPriceDoes DEF clientVars
  <2> QED BY <1>0, <2>1 DEF OnlyLast, Quiet
<1>3. CASE SendNext
  <2>1. /\ inbox' = [c \in Conns |-> IF c \in Reached(todo[1])
                                     THEN Append(inbox[c], Message) ELSE inbox[c]]
        /\ UNCHANGED <<prices, live>> /\ phase = "send"
    BY <1>3, SendNextDoes DEF clientVars
  <2>2. Message' = Message
    BY <2>1 DEF Message
  <2>3. Message \in [id : stamped, value : Values]
    BY <2>1, LastMessage DEF InTheLoop
  <2>4. ASSUME NEW c \in Conns, live[c], NEW i \in 1 .. Len(inbox'[c]) PROVE inbox'[c][i] = Message
    <3>1. inbox[c] \in Seq([id : stamped, value : Values])
      BY DEF QueueTypes
    <3>2. \A j \in 1 .. Len(inbox[c]) : inbox[c][j] = Message
      BY <2>4 DEF OnlyLast
    <3>3. \A j \in 1 .. Len(Append(inbox[c], Message)) : Append(inbox[c], Message)[j] = Message
      BY <2>3, <3>1, <3>2, OneMore
    <3>4. inbox'[c] = Append(inbox[c], Message) \/ inbox'[c] = inbox[c]
      BY <2>1
    <3> QED BY <2>4, <3>2, <3>3, <3>4
  <2> QED BY <2>1, <2>2, <2>4 DEF OnlyLast
<1>4. CASE EndBroadcast \/ \E c \in Conns : Handler(c) \/ SendOrder(c)
  <2>1. UNCHANGED <<prices, inbox, live>>
    BY <1>4 DEF EndBroadcast, Handler, RecvName, RecvOrder, Decide, Disconnected, SendOrder,
         serverVars, clientVars
  <2> QED BY <2>1 DEF OnlyLast, Message
<1>5. CASE \E c \in Conns : RecvPrice(c)
  <2> PICK c \in Conns : RecvPrice(c)
    BY <1>5
  <2>1. PICK n \in 1 .. Len(inbox[c]) : inbox' = [inbox EXCEPT ![c] = SubSeq(@, n + 1, Len(@))]
    BY RecvPriceDoes
  <2>2. UNCHANGED <<prices, live>>
    BY RecvPriceDoes DEF serverVars
  <2>3. Message' = Message
    BY <2>2 DEF Message
  <2>4. live[c]
    BY RecvPriceDoes
  <2>5. \A i \in 1 .. Len(inbox'[c]) : inbox'[c][i] = Message
    <3>1. inbox[c] \in Seq([id : stamped, value : Values])
      BY DEF QueueTypes
    <3>2. \A j \in 1 .. Len(inbox[c]) : inbox[c][j] = Message
      BY <2>4 DEF OnlyLast
    <3>3. inbox'[c] = SubSeq(inbox[c], n + 1, Len(inbox[c]))
      BY <2>1 DEF QueueTypes
    <3>4. \A i \in 1 .. Len(SubSeq(inbox[c], n + 1, Len(inbox[c]))) :
              SubSeq(inbox[c], n + 1, Len(inbox[c]))[i] = Message
      BY <3>1, <3>2, Rest
    <3> QED BY <3>3, <3>4, Zenon
  <2>6. \A d \in Conns : d # c => inbox'[d] = inbox[d]
    BY <2>1 DEF QueueTypes
  <2> QED BY <2>2, <2>3, <2>5, <2>6 DEF OnlyLast
<1>6. CASE \E c \in Conns : Leave(c)
  <2> PICK c \in Conns : Leave(c)
    BY <1>6
  <2>1. UNCHANGED prices /\ ~live'[c]
        /\ \A d \in Conns : d # c => inbox'[d] = inbox[d] /\ live'[d] = live[d]
    BY DEF Leave, serverVars, QueueTypes, ClientTypes
  <2> QED BY <2>1 DEF OnlyLast, Message
<1> QED BY <1>1, <1>2, <1>3, <1>4, <1>5, <1>6 DEF PriceNext, Broadcaster, Client

LEMMA NotesNothing == ASSUME NEW ps, NEW n PROVE Notes(<<>>, ps, n)
<1> DEFINE at == [i \in 1 .. 0 |-> i]
<1>1. at \in [1 .. Len(<<>>) -> 1 .. Len(ps)] /\ Len(<<>>) = 0
  BY EmptySeq
<1>2. (\A i \in 1 .. Len(<<>>) : FALSE) /\ (\A i \in 1 .. Len(<<>>) - 1 : FALSE)
  BY <1>1
<1> HIDE DEF at
<1> QED BY <1>1, <1>2 DEF Notes

\* What UpToDate says of one client.
HasLast(c) ==
    /\ Len(history[c]) <= 3
    /\ \/ Notes(history[c], prices, Len(prices))
       \/ /\ Notes(history[c], prices, Len(prices) - 1)
          /\ inbox[c] # <<>> \/ \E i \in 1 .. Len(todo) : todo[i] = c

LEMMA UpToDateKept ==
    ASSUME PriceTypes, Served, InTheLoop, prompt, OnlyLast, UpToDate, PriceNext
    PROVE  UpToDate'
<1> USE DEF PriceTypes
<1> SUFFICES ASSUME NEW c \in Conns, live'[c] PROVE HasLast(c)'
  BY DEF UpToDate, HasLast
<1>0. live[c] => HasLast(c) /\ handler[c] \in {"name", "recv", "decide"} /\ c \in 1 .. Len(clients)
  BY DEF UpToDate, HasLast, Served, Serves, Conns, ServerTypes
<1>1. CASE Connect
  <2>1. /\ UNCHANGED <<inbox, prices, history, todo>> /\ live' = [live EXCEPT ![NewConn] = TRUE]
        /\ NewConn \in Conns /\ NewConn > Len(clients)
    BY <1>1, ConnectDoes
  <2>2. CASE c = NewConn
    <3>1. history[c] = <<>>
      BY <2>1, <2>2 DEF Served
    <3> QED BY <2>1, <3>1, NotesNothing, EmptySeq DEF HasLast
  <2>3. CASE c # NewConn
    BY <1>0, <2>1, <2>3 DEF ClientTypes, HasLast
  <2> QED BY <2>2, <2>3
<1>2. CASE NewPrice
  <2>1. /\ Quiet /\ UNCHANGED <<live, inbox, history>> /\ todo = <<>>
        /\ Len(prices') = Len(prices) + 1 /\ Len(prices) \in Nat
        /\ Len(todo') = Len(clients) /\ \A i \in 1 .. Len(todo') : todo'[i] = i
    BY <1>2, NewPriceDoes DEF clientVars
  <2>2. inbox[c] = <<>> /\ live[c]
    BY <2>1 DEF Quiet
  <2>3. Notes(history[c], prices, Len(prices)) /\ Len(history[c]) <= 3
    BY <1>0, <2>1, <2>2, EmptySeq DEF HasLast
  <2>4. PICK v \in Values : prices' = Append(prices, v)
    BY <1>2, NewPriceDoes
  <2>5. Notes(history[c], prices', Len(prices))
    <3>1. prices \in Seq(Values) /\ history[c] \in Seq(Values) /\ Len(prices) \in Int
      BY <2>1 DEF ServerTypes, ClientTypes
    <3> QED BY <2>3, <2>4, <3>1, NotesMore
  <2>6. Len(prices') - 1 = Len(prices)
    BY <2>1
  <2>7. \E i \in 1 .. Len(todo') : todo'[i] = c
    BY <1>0, <2>1, <2>2
  <2> QED BY <2>1, <2>3, <2>5, <2>6, <2>7 DEF HasLast
<1>3. CASE SendNext
  <2>1. /\ inbox' = [d \in Conns |-> IF d \in Reached(todo[1])
                                     THEN Append(inbox[d], Message) ELSE inbox[d]]
        /\ UNCHANGED <<prices, live, history>> /\ phase = "send" /\ Len(todo) \in Nat \ {0}
        /\ Len(todo') = Len(todo) - 1 /\ \A i \in 1 .. Len(todo') : todo'[i] = todo[i + 1]
    BY <1>3, SendNextDoes DEF clientVars
  <2>2. /\ inbox[c] \in Seq([id : stamped, value : Values])
        /\ Message \in [id : stamped, value : Values]
    BY <2>1, LastMessage DEF InTheLoop, QueueTypes
  <2>3. Append(inbox[c], Message) # <<>>
    <3> DEFINE M == [id : stamped, value : Values]
    <3>1. inbox[c] \in Seq(M) /\ Message \in M
      BY <2>2
    <3> HIDE DEF M
    <3> QED BY <3>1, AppendProperties
  <2>4. inbox[c] # <<>> => inbox'[c] # <<>>
    BY <2>1, <2>3
  <2>5. ASSUME NEW i \in 1 .. Len(todo), todo[i] = c
        PROVE  inbox'[c] # <<>> \/ \E j \in 1 .. Len(todo') : todo'[j] = c
    <3>1. CASE i = 1
      <4>1. c \in Reached(todo[1])
        BY <1>0, <2>1, <2>5, <3>1 DEF Reached, Serves, ServerTypes
      <4> QED BY <2>1, <2>3, <4>1
    <3>2. CASE i # 1
      <4>1. i - 1 \in 1 .. Len(todo') /\ i - 1 + 1 = i
        BY <2>1, <3>2
      <4>2. todo'[i - 1] = c
        BY <2>1, <2>5, <4>1
      <4> QED BY <4>1, <4>2
    <3> QED BY <3>1, <3>2
  <2> QED BY <1>0, <2>1, <2>4, <2>5 DEF HasLast
<1>4. CASE EndBroadcast \/ \E d \in Conns : Handler(d) \/ SendOrder(d)
  <2>1. UNCHANGED <<prices, inbox, live, history, todo>>
    BY <1>4 DEF EndBroadcast, Handler, RecvName, RecvOrder, Decide, Disconnected, SendOrder,
         serverVars, clientVars
  <2> QED BY <1>0, <2>1 DEF HasLast
<1>5. CASE \E d \in Conns : RecvPrice(d)
  <2> PICK d \in Conns : RecvPrice(d)
    BY <1>5
  <2>1. /\ live[d] /\ inbox[d] # <<>> /\ 1 \in 1 .. Len(inbox[d])
        /\ history' = [history EXCEPT ![d] = Noted(d)] /\ Noted(d) \in Seq(Values)
        /\ First(d) \in [id : stamped, value : Values]
        /\ UNCHANGED <<prices, todo, live>>
        /\ \A e \in Conns : e # d => inbox'[e] = inbox[e]
    BY RecvPriceDoes DEF serverVars, QueueTypes
  <2>2. CASE c = d
    <3>1. First(c) = Message
      BY <2>1, <2>2 DEF OnlyLast, First
    <3>2. stamped # {}
      BY <2>1
    <3>3. prices # <<>>
      BY <3>2, EmptySeq DEF ServerTypes
    <3>4. /\ Len(prices) \in 1 .. Len(prices) /\ First(c).value = prices[Len(prices)]
      BY <3>1, <3>3, LastMessage
    <3>5. prices \in Seq(Values) /\ history[c] \in Seq(Values)
      BY DEF ServerTypes, ClientTypes
    <3>6. PICK n \in {Len(prices), Len(prices) - 1} : Notes(history[c], prices, n)
      BY <1>0, <2>1, <2>2 DEF HasLast
    <3>7. Len(history[c]) <= 3
      BY <1>0, <2>1, <2>2 DEF HasLast
    <3>8. n \in Int /\ Len(prices) \in {n, n + 1}
      BY <3>4
    <3>9. Notes(Noted(c), prices, Len(prices)) /\ Len(Noted(c)) <= 3
      BY <3>4, <3>5, <3>6, <3>7, <3>8, NotesNext DEF Noted
    <3>10. history'[c] = Noted(c)
      BY <2>1, <2>2 DEF ClientTypes
    <3> QED BY <2>1, <3>9, <3>10 DEF HasLast
  <2>3. CASE c # d
    <3>1. history'[c] = history[c] /\ inbox'[c] = inbox[c] /\ live[c]
      BY <2>1, <2>3 DEF ClientTypes
    <3> QED BY <1>0, <2>1, <3>1 DEF HasLast
  <2> QED BY <2>2, <2>3
<1>6. CASE \E d \in Conns : Leave(d)
  <2> PICK d \in Conns : Leave(d)
    BY <1>6
  <2>1. UNCHANGED <<prices, todo, history>> /\ ~live'[d]
        /\ \A e \in Conns : e # d => inbox'[e] = inbox[e] /\ live'[e] = live[e]
    BY DEF Leave, serverVars, QueueTypes, ClientTypes
  <2> QED BY <1>0, <2>1 DEF HasLast
<1> QED BY <1>1, <1>2, <1>3, <1>4, <1>5, <1>6 DEF PriceNext, Broadcaster, Client

LEMMA OnlyRealKept ==
    ASSUME PriceTypes, prompt, OnlyLast, UpToDate, OnlyReal, PriceNext
    PROVE  OnlyReal'
<1> USE DEF PriceTypes
<1>1. CASE NewPrice
  <2>1. UNCHANGED <<pending, ordered>>
    BY <1>1, NewPriceDoes DEF clientVars
  <2>2. PICK v \in Values : prices' = Append(prices, v)
    BY <1>1, NewPriceDoes
  <2>3. ASSUME NEW id \in stamped, IsReal(prices, id) PROVE IsReal(prices', id)
    <3>1. prices \in Seq(Values) /\ id \in 0 .. (Len(prices) - 1)
      BY DEF ServerTypes
    <3> QED BY <2>2, <2>3, <3>1, RealStays
  <2>4. ASSUME NEW c \in Conns, pending[c] # None PROVE IsReal(prices', pending[c])
    <3>1. pending[c] \in stamped
      BY <2>4 DEF ClientTypes
    <3> QED BY <2>3, <2>4, <3>1 DEF OnlyReal
  <2>5. ASSUME NEW o \in ordered PROVE IsReal(prices', o[2])
    <3>1. o[2] \in stamped
      OBVIOUS
    <3> QED BY <2>3, <3>1 DEF OnlyReal
  <2> QED BY <2>1, <2>4, <2>5 DEF OnlyReal
<1>2. CASE Connect \/ SendNext \/ EndBroadcast \/ \E c \in Conns : Handler(c)
  <2>1. UNCHANGED <<prices, pending, ordered>>
    BY <1>2 DEF Connect, SendNext, EndBroadcast, Handler, RecvName, RecvOrder, Decide, Disconnected,
         clientVars
  <2> QED BY <2>1 DEF OnlyReal
<1>3. CASE \E c \in Conns : RecvPrice(c)
  <2> PICK c \in Conns : RecvPrice(c)
    BY <1>3
  <2>1. /\ live[c] /\ 1 \in 1 .. Len(inbox[c]) /\ First(c) \in [id : stamped, value : Values]
        /\ history' = [history EXCEPT ![c] = Noted(c)] /\ Noted(c) \in Seq(Values)
        /\ pending' = [pending EXCEPT ![c] = IF Momentum(Noted(c)) THEN First(c).id ELSE None]
        /\ UNCHANGED <<prices, ordered, live>>
    BY RecvPriceDoes DEF serverVars
  <2>2. CASE Momentum(Noted(c))
    <3>1. First(c) = Message
      BY <2>1 DEF OnlyLast, First
    <3>2. stamped # {}
      BY <2>1
    <3>3. prices # <<>>
      BY <3>2, EmptySeq DEF ServerTypes
    <3>4. Len(prices) \in 1 .. Len(prices) /\ First(c).id = Len(prices) - 1
          /\ First(c).value = prices[Len(prices)]
      BY <3>1, <3>3, LastMessage
    <3>5. prices \in Seq(Values) /\ history[c] \in Seq(Values) /\ Values \subseteq Int
      BY PriceAssumption DEF ServerTypes, ClientTypes
    <3>6. Len(history[c]) <= 3 /\ \E n \in {Len(prices), Len(prices) - 1} : Notes(history[c], prices, n)
      BY <2>1 DEF UpToDate
    <3>7. PICK n \in {Len(prices), Len(prices) - 1} : Notes(history[c], prices, n)
      BY <3>6
    <3>8. n \in Int /\ Len(prices) \in {n, n + 1}
      BY <3>4
    <3>9. Notes(Noted(c), prices, Len(prices))
      BY <3>4, <3>5, <3>6, <3>7, <3>8, NotesNext DEF Noted
    <3>10. prices \in Seq(Int) /\ Noted(c) \in Seq(Int)
      BY <2>1, <3>5, WiderSequence
    <3>11. IsReal(prices, Len(prices) - 1)
      BY <2>2, <3>4, <3>9, <3>10, NotedIsReal
    <3> QED BY <2>1, <2>2, <3>4, <3>11 DEF OnlyReal, ClientTypes
  <2>3. CASE ~Momentum(Noted(c))
    BY <2>1, <2>3 DEF OnlyReal, ClientTypes
  <2> QED BY <2>2, <2>3
<1>4. CASE \E c \in Conns : SendOrder(c) \/ Leave(c)
  <2>1. UNCHANGED prices
    BY <1>4 DEF SendOrder, Leave, serverVars
  <2>2. PICK c \in Conns : SendOrder(c) \/ Leave(c)
    BY <1>4
  <2>3. pending' = [pending EXCEPT ![c] = None]
    BY <2>2 DEF SendOrder, Leave
  <2>4. ordered' = ordered \/ (ordered' = ordered \cup {<<c, pending[c]>>} /\ pending[c] # None)
    BY <2>2 DEF SendOrder, Leave
  <2>5. \A d \in Conns : pending'[d] # None => pending'[d] = pending[d] /\ IsReal(prices, pending'[d])
    BY <2>3 DEF OnlyReal, ClientTypes
  <2>6. ASSUME NEW o \in ordered' PROVE IsReal(prices, o[2])
    <3>1. CASE o \in ordered
      BY <3>1 DEF OnlyReal
    <3>2. CASE o \notin ordered
      <4>1. o = <<c, pending[c]>> /\ pending[c] # None
        BY <2>4, <2>6, <3>2
      <4>2. o[2] = pending[c]
        BY <4>1
      <4> QED BY <4>1, <4>2 DEF OnlyReal
    <3> QED BY <3>1, <3>2
  <2> QED BY <2>1, <2>5, <2>6 DEF OnlyReal
<1> QED BY <1>1, <1>2, <1>3, <1>4 DEF PriceNext, Broadcaster, Client

-----------------------------------------------------------------------------
LEMMA PriceInitially == ASSUME PriceInit PROVE PriceInv
<1> USE DEF PriceInit
<1>0. None \notin 0 .. -1 /\ Len(<<>>) = 0
  BY EmptySeq DEF None
<1>1. ServerTypes
  BY <1>0, PriceAssumption DEF ServerTypes, HandlerSteps
<1>2. QueueTypes
  BY EmptySeq DEF QueueTypes
<1>3. ClientTypes
  BY DEF ClientTypes
<1>4. PriceTypes
  BY <1>1, <1>2, <1>3 DEF PriceTypes
<1>5. Served /\ NameFirst
  BY DEF Served, NameFirst
<1>6. InTheLoop
  BY <1>0 DEF InTheLoop
<1>7. OrdersAreDecided
  BY DEF OrdersAreDecided, OneCreditPerPrice
<1>8. OnlyLast /\ UpToDate /\ OnlyReal
  BY DEF OnlyLast, UpToDate, OnlyReal
<1> QED BY <1>4, <1>5, <1>6, <1>7, <1>8 DEF PriceInv

LEMMA PriceStays == ASSUME PriceInv, UNCHANGED priceVars PROVE PriceInv'
<1> USE DEF priceVars, serverVars, clientVars, ghosts
<1>1. PriceTypes'
  BY DEF PriceInv, PriceTypes, ServerTypes, QueueTypes, ClientTypes
<1>2. Served' /\ NameFirst' /\ InTheLoop'
  BY DEF PriceInv, Served, Serves, NameFirst, InTheLoop
<1>3. OrdersAreDecided'
  BY DEF PriceInv, OrdersAreDecided, OneCreditPerPrice, Waits
<1>4. (prompt => OnlyLast /\ UpToDate /\ OnlyReal)'
  BY DEF PriceInv, OnlyLast, Message, UpToDate, OnlyReal
<1> QED BY <1>1, <1>2, <1>3, <1>4 DEF PriceInv

\* The tables, the queues and the threads, for any number of connections and
\* prices and any values.
THEOREM PriceInvariance == PriceSpec => []PriceInv
<1>1. ASSUME PriceInv, PriceNext PROVE PriceInv'
  <2>1. /\ PriceTypes /\ Served /\ NameFirst /\ InTheLoop /\ OrdersAreDecided
        /\ prompt => OnlyLast /\ UpToDate /\ OnlyReal
    BY <1>1 DEF PriceInv
  <2>2. PriceTypes' /\ Served' /\ NameFirst' /\ InTheLoop'
    BY <1>1, <2>1, TypesKept, ServedKept, NameFirstKept, InTheLoopKept
  <2>3. OrdersAreDecided'
    <3>1. OneCreditPerPrice'
      BY <1>1, <2>1, OneCreditKept DEF OrdersAreDecided
    <3>2. \A o \in ordered : Decided(o)
      BY <2>1 DEF OrdersAreDecided, Decided
    <3>3. \A o \in ordered' : Decided(o)'
      BY <1>1, <2>1, <3>2, OrdersDecidedKept
    <3> QED BY <3>1, <3>3 DEF OrdersAreDecided, Decided
  <2>4. prompt' = prompt
    BY <1>1 DEF PriceNext, Connect, Broadcaster, NewPrice, SendNext, EndBroadcast, Handler, Client,
         RecvName, RecvOrder, Decide, Disconnected, RecvPrice, SendOrder, Leave, serverVars
  <2>5. prompt => OnlyLast' /\ UpToDate' /\ OnlyReal'
    BY <1>1, <2>1, OnlyLastKept, UpToDateKept, OnlyRealKept
  <2> QED BY <2>2, <2>3, <2>4, <2>5 DEF PriceInv
<1> QED BY <1>1, PriceInitially, PriceStays, PTL DEF PriceSpec

\* handleClient of phase2: one credit per price, and no order lost or turned
\* down as unknown, whatever the threads and however slow the clients.
THEOREM OrdersDecided == PriceSpec => []OrdersAreDecided
BY PriceInvariance, PTL DEF PriceInv

\* receiveAndRespond of phase2, where every client has reacted before the next
\* price: what it orders follows a rise or a fall of three prices in a row.
THEOREM MomentumHolds == PriceSpec => []MomentumIsReal
<1>1. PriceInv => MomentumIsReal
  BY DEF PriceInv, OnlyReal, IsReal, MomentumIsReal
<1> QED BY <1>1, PriceInvariance, PTL

-----------------------------------------------------------------------------
(***************************************************************************)
(* Strategy.  That a quote is given once needs only that an id is below    *)
(* next_id_: then what is placed gets ids nobody has had, and the check    *)
(* of the active orders before it sees all there are.                      *)
(***************************************************************************)

Sides == {"Sell", "Buy"}
Order == [side : Sides, price : Prices, filled : Nat]

TraderTypes ==
    /\ bids \subseteq Prices /\ IsFiniteSet(bids)
    /\ asks \subseteq Prices /\ IsFiniteSet(asks)
    /\ nextId \in Nat \ {0}
    /\ orders \in [DOMAIN orders -> Order] /\ DOMAIN orders \subseteq 1 .. (nextId - 1)

TraderInv == TraderTypes /\ OneOrderPerQuote

LEMMA BestPrice ==
    ASSUME NEW S, S \subseteq Prices, IsFiniteSet(S), S # {}
    PROVE  Max(S) \in Prices /\ Min(S) \in Prices
<1>1. S \in SUBSET Int
  BY TraderAssumption
<1>2. PICK m \in S : \A j \in S : j <= m
  BY <1>1, GreatestNumber
<1>3. PICK n \in S : \A j \in S : n <= j
  BY <1>1, LeastNumber
<1>4. Max(S) \in S
  BY <1>1, <1>2 DEF Max
<1>5. Min(S) \in S
  BY <1>1, <1>3 DEF Min
<1> QED BY <1>4, <1>5

LEMMA TwoInOrder == ASSUME NEW s, NEW t PROVE <<s>> \o <<t>> = <<s, t>>
<1> DEFINE q == <<s>> \o <<t>>
<1>1. <<s>> \in Seq({s, t}) /\ <<t>> \in Seq({s, t}) /\ <<s, t>> \in Seq({s, t})
  OBVIOUS
<1>2. Len(<<s>>) = 1 /\ Len(<<t>>) = 1 /\ Len(<<s, t>>) = 2
  OBVIOUS
<1>3. q \in Seq({s, t}) /\ Len(q) = 2
  BY <1>1, <1>2
<1>4. q[1] = s /\ q[2] = t
  OBVIOUS
<1>5. \A i \in 1 .. 2 : i = 1 \/ i = 2
  OBVIOUS
<1> HIDE DEF q
<1>6. \A i \in 1 .. 2 : q[i] = <<s, t>>[i]
  BY <1>4, <1>5
<1>7. q = <<s, t>>
  BY <1>1, <1>2, <1>3, <1>6, SeqEqual
<1> QED BY <1>7 DEF q

\* What run_strategy places is new at its price, and at most one on a side.
LEMMA WantedIs ==
    ASSUME TraderTypes, NEW b, b \subseteq Prices, IsFiniteSet(b),
           NEW a, a \subseteq Prices, IsFiniteSet(a)
    PROVE  LET w == Wanted(b, a)
           IN  /\ w \in Seq(Order)
               /\ \A k \in 1 .. Len(w) : ~HasActiveAt(w[k].price, w[k].side)
               /\ \A j, k \in 1 .. Len(w) : w[j].side = w[k].side => j = k
               /\ b # {} /\ Max(b) >= SellThreshold =>
                      \/ HasActiveAt(Max(b), "Sell")
                      \/ \E k \in 1 .. Len(w) : w[k].price = Max(b) /\ w[k].side = "Sell"
               /\ a # {} /\ Min(a) <= BuyThreshold =>
                      \/ HasActiveAt(Min(a), "Buy")
                      \/ \E k \in 1 .. Len(w) : w[k].price = Min(a) /\ w[k].side = "Buy"
<1> DEFINE sell == b # {} /\ Max(b) >= SellThreshold /\ ~HasActiveAt(Max(b), "Sell")
           buy == a # {} /\ Min(a) <= BuyThreshold /\ ~HasActiveAt(Min(a), "Buy")
           s == NewOrder("Sell", Max(b))
           t == NewOrder("Buy", Min(a))
           w == Wanted(b, a)
<1>1. w = (IF sell THEN <<s>> ELSE <<>>) \o (IF buy THEN <<t>> ELSE <<>>)
  BY DEF Wanted
<1>2. /\ sell => s \in Order /\ s.side = "Sell" /\ s.price = Max(b)
      /\ buy => t \in Order /\ t.side = "Buy" /\ t.price = Min(a)
      /\ sell => ~HasActiveAt(Max(b), "Sell")
      /\ buy => ~HasActiveAt(Min(a), "Buy")
      /\ b # {} /\ Max(b) >= SellThreshold => HasActiveAt(Max(b), "Sell") \/ sell
      /\ a # {} /\ Min(a) <= BuyThreshold => HasActiveAt(Min(a), "Buy") \/ buy
  BY BestPrice DEF NewOrder, Order, Sides
<1> HIDE DEF s, t, w, sell, buy
<1>3. CASE sell /\ buy
  <2>1. w = <<s, t>>
    <3>1. <<s>> \o <<t>> = <<s, t>>
      BY TwoInOrder
    <3> QED BY <1>1, <1>3, <3>1
  <2>2. Len(w) = 2 /\ w[1] = s /\ w[2] = t /\ w \in Seq(Order)
    BY <1>2, <1>3, <2>1
  <2>3. \A k \in 1 .. 2 : k = 1 \/ k = 2
    OBVIOUS
  <2> QED BY <1>2, <1>3, <2>2, <2>3 DEF w
<1>4. CASE sell /\ ~buy
  <2>1. w = <<s>>
    BY <1>1, <1>4
  <2>2. Len(w) = 1 /\ w[1] = s /\ w \in Seq(Order)
    BY <1>2, <1>4, <2>1
  <2>3. \A k \in 1 .. 1 : k = 1
    OBVIOUS
  <2> QED BY <1>2, <1>4, <2>2, <2>3 DEF w
<1>5. CASE ~sell /\ buy
  <2>1. w = <<t>>
    BY <1>1, <1>5
  <2>2. Len(w) = 1 /\ w[1] = t /\ w \in Seq(Order)
    BY <1>2, <1>5, <2>1
  <2>3. \A k \in 1 .. 1 : k = 1
    OBVIOUS
  <2> QED BY <1>2, <1>5, <2>2, <2>3 DEF w
<1>6. CASE ~sell /\ ~buy
  <2>1. w = <<>>
    BY <1>1, <1>6
  <2>2. Len(w) = 0 /\ w \in Seq(Order)
    BY <2>1, EmptySeq
  <2>3. \A k \in 1 .. Len(w) : FALSE
    BY <2>2
  <2> QED BY <1>2, <1>6, <2>2, <2>3 DEF w
<1> QED BY <1>3, <1>4, <1>5, <1>6

LEMMA PlacedIs ==
    ASSUME TraderTypes, NEW w \in Seq(Order)
    PROVE  /\ Placed(w) \in [DOMAIN Placed(w) -> Order]
           /\ DOMAIN Placed(w) = DOMAIN orders \cup {nextId + k - 1 : k \in 1 .. Len(w)}
           /\ \A i \in DOMAIN orders : Placed(w)[i] = orders[i] /\ i < nextId
           /\ \A k \in 1 .. Len(w) : Placed(w)[nextId + k - 1] = w[k]
<1> DEFINE new == {nextId + k - 1 : k \in 1 .. Len(w)}
           p == Placed(w)
<1>1. DOMAIN w = 1 .. Len(w) /\ Len(w) \in Nat /\ nextId \in Nat
  BY DEF TraderTypes
<1>2. p = [i \in DOMAIN orders \cup new |-> IF i \in DOMAIN orders THEN orders[i] ELSE w[i - nextId + 1]]
  BY <1>1 DEF Placed
<1>3. \A i \in DOMAIN orders : i \in Int /\ i < nextId /\ orders[i] \in Order
  BY <1>1 DEF TraderTypes
<1>4. \A k \in 1 .. Len(w) : /\ nextId + k - 1 \in new /\ nextId + k - 1 \notin DOMAIN orders
                            /\ (nextId + k - 1) - nextId + 1 = k /\ w[k] \in Order
  BY <1>1, <1>3
<1> HIDE DEF p
<1>5. DOMAIN p = DOMAIN orders \cup new
  BY <1>2
<1>6. \A i \in DOMAIN orders : p[i] = orders[i]
  BY <1>2
<1>7. \A k \in 1 .. Len(w) : p[nextId + k - 1] = w[k]
  BY <1>2, <1>4
<1>8. \A i \in DOMAIN p : p[i] \in Order
  BY <1>3, <1>4, <1>5, <1>6, <1>7
<1>9. p \in [DOMAIN p -> Order]
  BY <1>2, <1>5, <1>8
<1> QED BY <1>3, <1>5, <1>6, <1>7, <1>9 DEF p

\* A market update, and the strategy that runs after it.
Update(b, a) ==
    /\ b \subseteq Prices /\ IsFiniteSet(b) /\ a \subseteq Prices /\ IsFiniteSet(a)
    /\ bids' = b /\ asks' = a /\ RunStrategy(b, a)

LEMMA TraderSteps ==
    ASSUME TraderTypes, TraderNext
    PROVE  \/ \E b, a : Update(b, a)
           \/ \E i \in 1 .. MaxOrders, qty \in Fills : Execution(i, qty)
<1>1. ASSUME NEW p \in Prices, NEW gone \in BOOLEAN, UpdateBid(p, gone) PROVE Update(bids', asks')
  <2> DEFINE b == IF gone THEN bids \ {p} ELSE bids \cup {p}
  <2>1. bids' = b /\ asks' = asks /\ RunStrategy(b, asks)
    BY <1>1 DEF UpdateBid
  <2>2. b \subseteq Prices /\ IsFiniteSet(b)
    BY FS_AddElement, FS_RemoveElement DEF TraderTypes
  <2> QED BY <2>1, <2>2 DEF Update, TraderTypes
<1>2. ASSUME NEW p \in Prices, NEW gone \in BOOLEAN, UpdateAsk(p, gone) PROVE Update(bids', asks')
  <2> DEFINE a == IF gone THEN asks \ {p} ELSE asks \cup {p}
  <2>1. asks' = a /\ bids' = bids /\ RunStrategy(bids, a)
    BY <1>2 DEF UpdateAsk
  <2>2. a \subseteq Prices /\ IsFiniteSet(a)
    BY FS_AddElement, FS_RemoveElement DEF TraderTypes
  <2> QED BY <2>1, <2>2 DEF Update, TraderTypes
<1> QED BY <1>1, <1>2 DEF TraderNext

LEMMA UpdateKeeps ==
    ASSUME TraderInv, NEW b, NEW a, Update(b, a)
    PROVE  /\ TraderInv'
           /\ \A i \in 1 .. nextId - 1 : i \notin DOMAIN orders => i \notin DOMAIN orders'
           /\ b # {} /\ Max(b) >= SellThreshold => RestsAt(orders', Max(b), "Sell")
           /\ a # {} /\ Min(a) <= BuyThreshold => RestsAt(orders', Min(a), "Buy")
<1> DEFINE w == Wanted(b, a)
<1>1. TraderTypes /\ OneOrderPerQuote /\ nextId \in Nat \ {0}
  BY DEF TraderInv, TraderTypes
<1>2. /\ w \in Seq(Order)
      /\ \A k \in 1 .. Len(w) : ~HasActiveAt(w[k].price, w[k].side)
      /\ \A j, k \in 1 .. Len(w) : w[j].side = w[k].side => j = k
      /\ b # {} /\ Max(b) >= SellThreshold =>
             \/ HasActiveAt(Max(b), "Sell")
             \/ \E k \in 1 .. Len(w) : w[k].price = Max(b) /\ w[k].side = "Sell"
      /\ a # {} /\ Min(a) <= BuyThreshold =>
             \/ HasActiveAt(Min(a), "Buy")
             \/ \E k \in 1 .. Len(w) : w[k].price = Min(a) /\ w[k].side = "Buy"
  BY <1>1, WantedIs DEF Update
<1>3. orders' = Placed(w) /\ nextId' = nextId + Len(w) /\ bids' = b /\ asks' = a
  BY DEF Update, RunStrategy
<1> HIDE DEF w
<1>4. Len(w) \in Nat
  BY <1>2
<1>5. /\ orders' \in [DOMAIN orders' -> Order]
      /\ DOMAIN orders' = DOMAIN orders \cup {nextId + k - 1 : k \in 1 .. Len(w)}
      /\ \A i \in DOMAIN orders : orders'[i] = orders[i] /\ i < nextId
      /\ \A k \in 1 .. Len(w) : orders'[nextId + k - 1] = w[k]
  BY <1>1, <1>2, <1>3, PlacedIs
<1>6. TraderTypes'
  <2>1. \A k \in 1 .. Len(w) : nextId + k - 1 \in 1 .. (nextId + Len(w) - 1)
    BY <1>1, <1>4
  <2>2. \A i \in DOMAIN orders : i \in 1 .. (nextId + Len(w) - 1)
    BY <1>1, <1>4 DEF TraderTypes
  <2>3. DOMAIN orders' \subseteq 1 .. (nextId' - 1)
    <3>1. nextId' - 1 = nextId + Len(w) - 1
      BY <1>1, <1>3, <1>4
    <3>2. \A i \in DOMAIN orders' : i \in 1 .. (nextId + Len(w) - 1)
      BY <1>5, <2>1, <2>2
    <3> QED BY <3>1, <3>2
  <2>4. nextId' \in Nat \ {0}
    BY <1>1, <1>3, <1>4
  <2> QED BY <1>3, <1>5, <2>3, <2>4 DEF TraderTypes, Update
<1>7. ASSUME NEW i \in DOMAIN orders'
      PROVE  \/ i \in DOMAIN orders /\ orders'[i] = orders[i]
             \/ \E k \in 1 .. Len(w) : i = nextId + k - 1 /\ orders'[i] = w[k]
  BY <1>5
<1>8. OneOrderPerQuote'
  <2> SUFFICES ASSUME NEW i \in DOMAIN orders', NEW j \in DOMAIN orders',
                      orders'[i].side = orders'[j].side, orders'[i].price = orders'[j].price
               PROVE  i = j
    BY DEF OneOrderPerQuote
  <2>1. CASE i \in DOMAIN orders /\ j \in DOMAIN orders
    BY <1>1, <1>5, <2>1 DEF OneOrderPerQuote
  <2>2. CASE i \in DOMAIN orders /\ j \notin DOMAIN orders
    <3>1. PICK k \in 1 .. Len(w) : orders'[j] = w[k]
      BY <1>7, <2>2
    <3>2. orders[i].side = w[k].side /\ orders[i].price = w[k].price
      BY <1>5, <2>2, <3>1
    <3> QED BY <1>2, <2>2, <3>2 DEF HasActiveAt
  <2>3. CASE i \notin DOMAIN orders /\ j \in DOMAIN orders
    <3>1. PICK k \in 1 .. Len(w) : orders'[i] = w[k]
      BY <1>7, <2>3
    <3>2. orders[j].side = w[k].side /\ orders[j].price = w[k].price
      BY <1>5, <2>3, <3>1
    <3> QED BY <1>2, <2>3, <3>2 DEF HasActiveAt
  <2>4. CASE i \notin DOMAIN orders /\ j \notin DOMAIN orders
    BY <1>2, <1>7, <2>4
  <2> QED BY <2>1, <2>2, <2>3, <2>4
<1>9. \A i \in 1 .. nextId - 1 : i \notin DOMAIN orders => i \notin DOMAIN orders'
  <2>1. \A k \in 1 .. Len(w) : nextId + k - 1 \notin 1 .. nextId - 1
    BY <1>1, <1>4
  <2> QED BY <1>5, <2>1
<1>10. ASSUME NEW p, NEW s,
              \/ HasActiveAt(p, s)
              \/ \E k \in 1 .. Len(w) : w[k].price = p /\ w[k].side = s
       PROVE  RestsAt(orders', p, s)
  <2>1. ASSUME HasActiveAt(p, s) PROVE RestsAt(orders', p, s)
    BY <1>5, <2>1 DEF HasActiveAt, RestsAt
  <2>2. ASSUME NEW k \in 1 .. Len(w), w[k].price = p, w[k].side = s PROVE RestsAt(orders', p, s)
    BY <1>5, <2>2 DEF RestsAt
  <2> QED BY <1>10, <2>1, <2>2
<1> QED BY <1>2, <1>6, <1>8, <1>9, <1>10 DEF TraderInv

LEMMA ExecutionKeeps ==
    ASSUME TraderInv, NEW i \in 1 .. MaxOrders, NEW qty \in Fills, Execution(i, qty)
    PROVE  /\ TraderInv' /\ UNCHANGED <<bids, asks>>
           /\ DOMAIN orders' \subseteq DOMAIN orders
<1>1. TraderTypes /\ OneOrderPerQuote /\ i \in DOMAIN orders /\ qty \in Nat
  BY TraderAssumption DEF TraderInv, Execution
<1>2. orders[i] \in Order
  BY <1>1 DEF TraderTypes
<1>3. /\ orders' \in [DOMAIN orders' -> Order] /\ DOMAIN orders' \subseteq DOMAIN orders
      /\ \A j \in DOMAIN orders' :
             orders'[j].side = orders[j].side /\ orders'[j].price = orders[j].price
  <2>1. CASE orders[i].filled + qty >= OrderQty
    <3>1. orders' = [j \in DOMAIN orders \ {i} |-> orders[j]]
      BY <2>1 DEF Execution, Filled
    <3> QED BY <1>1, <3>1 DEF TraderTypes
  <2>2. CASE ~(orders[i].filled + qty >= OrderQty)
    <3> DEFINE o == [orders[i] EXCEPT !.filled = @ + qty]
    <3>1. orders' = [orders EXCEPT ![i] = o]
      BY <2>2 DEF Execution, Filled
    <3>2. o \in Order /\ o.side = orders[i].side /\ o.price = orders[i].price
      BY <1>1, <1>2 DEF Order
    <3> HIDE DEF o
    <3>3. DOMAIN orders' = DOMAIN orders
      BY <3>1
    <3> QED BY <1>1, <3>1, <3>2, <3>3 DEF TraderTypes
  <2> QED BY <2>1, <2>2
<1>4. UNCHANGED <<bids, asks, nextId>>
  BY DEF Execution
<1>5. TraderTypes'
  BY <1>1, <1>3, <1>4 DEF TraderTypes
<1>6. OneOrderPerQuote'
  BY <1>1, <1>3 DEF OneOrderPerQuote
<1> QED BY <1>3, <1>4, <1>5, <1>6 DEF TraderInv

\* run_strategy, on_market_update and handle_fill of phase3, for any prices,
\* thresholds and fills: one active order for a price on a side, ids that are
\* never used again, and a quote at every good best price.
THEOREM QuotesOnce == TraderSpec => QuotesEachGoodPriceOnce
<1>1. TraderInit => TraderInv
  <2> SUFFICES ASSUME TraderInit PROVE TraderInv
    OBVIOUS
  <2>1. IsFiniteSet({}) /\ DOMAIN orders = {}
    BY FS_EmptySet DEF TraderInit
  <2> QED BY <2>1 DEF TraderInit, TraderInv, TraderTypes, OneOrderPerQuote
<1> DEFINE Gone == \A i \in 1 .. nextId - 1 : i \notin DOMAIN orders => i \notin DOMAIN orders'
           Quoted == <<bids', asks'>> # <<bids, asks>> =>
              /\ bids' # {} /\ Max(bids') >= SellThreshold => RestsAt(orders', Max(bids'), "Sell")
              /\ asks' # {} /\ Min(asks') <= BuyThreshold => RestsAt(orders', Min(asks'), "Buy")
<1>2. ASSUME TraderInv, TraderNext PROVE TraderInv' /\ Gone /\ Quoted
  <2>1. ASSUME NEW b, NEW a, Update(b, a) PROVE TraderInv' /\ Gone /\ Quoted
    <3>1. bids' = b /\ asks' = a
      BY <2>1 DEF Update
    <3> QED BY <1>2, <2>1, <3>1, UpdateKeeps
  <2>2. ASSUME NEW i \in 1 .. MaxOrders, NEW qty \in Fills, Execution(i, qty)
        PROVE  TraderInv' /\ Gone /\ Quoted
    BY <1>2, <2>2, ExecutionKeeps
  <2>3. TraderTypes
    BY <1>2 DEF TraderInv
  <2> QED BY <1>2, <2>1, <2>2, <2>3, TraderSteps
<1>3. ASSUME TraderInv, UNCHANGED traderVars PROVE TraderInv'
  BY <1>3 DEF traderVars, TraderInv, TraderTypes, OneOrderPerQuote
<1>4. TraderInv => OneOrderPerQuote
  BY DEF TraderInv
<1>5. TraderSpec => []TraderInv
  BY <1>1, <1>2, <1>3, PTL DEF TraderSpec
<1>6. TraderSpec => GoneStaysGone
  <2>1. TraderInv /\ [TraderNext]_traderVars => [Gone]_traderVars
    BY <1>2
  <2> QED BY <1>5, <2>1, PTL DEF TraderSpec, GoneStaysGone
<1>7. TraderSpec => QuotedAfterUpdate
  <2>1. TraderInv /\ [TraderNext]_traderVars => [Quoted]_traderVars
    BY <1>2
  <2> QED BY <1>5, <2>1, PTL DEF TraderSpec, QuotedAfterUpdate
<1> QED BY <1>4, <1>5, <1>6, <1>7, PTL DEF QuotesEachGoodPriceOnce

-----------------------------------------------------------------------------
(***************************************************************************)
(* MockServer.  What credits a client is counted by where it is: in the    *)
(* entries, in the current latencies, and in a handler's hands (Accounted).*)
(* While answers are in time and each ClientInfo has a socket number of    *)
(* its own, a client's answer to the current challenge is in one place: in *)
(* the loop over the sockets, with the client, in its connection, with its *)
(* handler, or credited; nothing else is anywhere (InPlace).  So what is   *)
(* credited is the answer that was read, with the time at which it was.    *)
(***************************************************************************)

Msgs == Challenges \cup {Name}
Registrations == Clients \X Seq(Msgs)
Latencies == UNION {[S -> Int] : S \in SUBSET Registrations}
Heard == Nat \cup {NoAnswer}
Sockets == Nat \ {0}

BroadcasterTypes ==
    /\ paced \in BOOLEAN /\ clock \in Nat
    /\ cid \in 0 .. MaxChallenges /\ start \in Nat
    /\ latencies \in Latencies
    /\ stage \in {"sending", "sleeping", "logging"}
    /\ infos \in Seq(Sockets) /\ unsent \in Seq(Sockets)
    /\ log \in Seq([cid : Nat, responses : Latencies])

ConnectionTypes ==
    /\ socket \in [Clients -> Nat]
    /\ answers \in [Clients -> Seq(Msgs)]
    /\ behind \in [Clients -> Seq(Msgs)]
    /\ left \subseteq Clients
    /\ reader \in [Clients -> {"none", "naming", "reading", "crediting"}]
    /\ readAt \in [Clients -> Nat]
    /\ unanswered \in [Clients -> Seq(Challenges)]
    /\ heard \in [Clients -> [Challenges -> Heard]]
    /\ reads \in [Clients -> Nat]

\* The challenge that is being sent, if any, is a challenge.
UnderWay == stage # "logging" => cid \in Challenges

\* A socket in use is that of a ClientInfo.
Known == \A c \in Clients : socket[c] # 0 => \E i \in DOMAIN infos : infos[i] = socket[c]

MockTypes == BroadcasterTypes /\ ConnectionTypes /\ UnderWay /\ Known

-----------------------------------------------------------------------------
\* What a client is credited with, or has been or will be.
Credited(c) == {k \in DOMAIN log : c \in Players(log[k])}

\* Under one of the names it may be registered with.
Has(c) == \E n \in DOMAIN latencies : n[1] = c

Current(c) == IF Has(c) /\ stage # "logging" THEN 1 ELSE 0

InHand(c) == IF reader[c] = "crediting" THEN 1 ELSE 0

Accounted == \A c \in Clients : Cardinality(Credited(c)) + Current(c) + InHand(c) <= reads[c]

-----------------------------------------------------------------------------
\* Where the one answer of client c to the current challenge is.
Mine == cid

Opening(c) == IF reader[c] = "naming" THEN <<Name>> ELSE <<>>

Awaits(c) == \E i \in DOMAIN unsent : unsent[i] = socket[c]

Holds(c) == c \notin left /\ unanswered[c] # <<>>

Sent(c) == answers[c] = Append(Opening(c), Mine)

Crediting(c) == reader[c] = "crediting"

\* In one of these places, if in any.
OnePlace(c) ==
    /\ Awaits(c) => ~Holds(c) /\ ~Sent(c) /\ ~Crediting(c) /\ ~Has(c)
    /\ Holds(c) => ~Sent(c) /\ ~Crediting(c) /\ ~Has(c)
    /\ Sent(c) => ~Crediting(c) /\ ~Has(c)
    /\ Crediting(c) => ~Has(c)

\* Nothing else is on its way.
NoneElse(c) ==
    /\ answers[c] = Opening(c) \/ Sent(c)
    /\ Holds(c) => unanswered[c] = <<cid>>
    /\ reader[c] = "none" => socket[c] = 0 /\ ~Holds(c) /\ answers[c] = <<>>

HeardWhenRead(c) ==
    /\ \A n \in Challenges : n > cid => heard[c][n] = NoAnswer
    /\ cid \in Challenges => (heard[c][cid] # NoAnswer <=> Crediting(c) \/ Has(c))
    /\ Crediting(c) => heard[c][cid] = readAt[c]
    /\ \A n \in DOMAIN latencies : n[1] = c => heard[c][cid] = latencies[n] + start

Over(c) == stage = "logging" => ~Holds(c) /\ ~Sent(c) /\ ~Crediting(c)

InPlace(c) == OnePlace(c) /\ NoneElse(c) /\ HeardWhenRead(c) /\ Over(c)

\* The entry of a challenge has the clients whose answers were read, each with
\* the time of its answer since some instant.
Faithful(e, n) ==
    /\ Players(e) = HeardOn(n)
    /\ \E s \in Nat : \A m \in DOMAIN e.responses : heard[m[1]][n] = e.responses[m] + s

LogIsFaithful ==
    /\ Len(log) = (IF stage = "logging" THEN cid ELSE cid - 1)
    /\ \A k \in DOMAIN log : log[k].cid = k /\ Faithful(log[k], k)

SentOnceEach ==
    /\ stage # "sending" => unsent = <<>>
    /\ \A i, j \in DOMAIN unsent : unsent[i] = unsent[j] => i = j

InTime ==
    /\ SentOnceEach
    /\ \A c \in Clients : InPlace(c)
    /\ LogIsFaithful

MockInv == MockTypes /\ Accounted /\ (paced /\ NoneReused => InTime)

-----------------------------------------------------------------------------
LEMMA FreeSocketExists ==
    ASSUME MockTypes, Len(infos) < MaxConnects[paced]
    PROVE  FreeSocket \in Sockets
<1> DEFINE m == MaxConnects[paced]
           Used == {infos[i] : i \in DOMAIN infos}
           Free == {n \in 1 .. m : \A c \in Clients : socket[c] # n}
<1>1. m \in Nat /\ Len(infos) \in Nat /\ DOMAIN infos = 1 .. Len(infos)
  BY MockAssumption DEF MockTypes, BroadcasterTypes
<1>2. \A n \in Nat : IsFiniteSet(1 .. n) /\ Cardinality(1 .. n) = n
  BY FS_Interval
<1>3. IsFiniteSet(Used) /\ Cardinality(Used) <= Len(infos)
  <2> DEFINE f == [i \in DOMAIN infos |-> infos[i]]
  <2>1. f \in Surjection(DOMAIN infos, Used)
    BY DEF Surjection
  <2> HIDE DEF f, Used
  <2> QED BY <1>1, <1>2, <2>1, FS_Surjection
<1>4. \E n \in 1 .. m : n \notin Used
  <2>1. ASSUME 1 .. m \subseteq Used PROVE FALSE
    <3> HIDE DEF Used
    <3>1. Cardinality(1 .. m) <= Cardinality(Used)
      BY <1>3, <2>1, FS_Subset
    <3>2. Cardinality(Used) \in Nat
      BY <1>3, FS_CardinalityType
    <3> QED BY <1>1, <1>2, <1>3, <3>1, <3>2
  <2> QED BY <2>1
<1>5. Free # {}
  <2>1. PICK n \in 1 .. m : n \notin Used
    BY <1>4
  <2>2. \A c \in Clients : socket[c] # n
    BY <1>1, <2>1 DEF MockTypes, Known
  <2> QED BY <2>1, <2>2
<1>6. Free \in SUBSET (1 .. m)
  OBVIOUS
<1>7. PICK n \in Free : \A j \in Free : n <= j
  <2> HIDE DEF Free, m
  <2> QED BY <1>1, <1>5, <1>6, LeastPosition
<1>8. \A j \in 1 .. n - 1 : \E c \in Clients : socket[c] = j
  <2>1. ASSUME NEW j \in 1 .. n - 1, \A c \in Clients : socket[c] # j PROVE FALSE
    <3>1. j \in 1 .. m /\ j < n
      BY <1>1, <1>7, <2>1
    <3>2. j \in Free
      BY <2>1, <3>1
    <3>3. n <= j
      BY <1>7, <3>2
    <3> HIDE DEF Free
    <3> QED BY <1>1, <1>6, <1>7, <3>1, <3>3
  <2> QED BY <2>1
<1>9. FreeSocket \in 1 .. m
  BY <1>7, <1>8 DEF FreeSocket
<1> QED BY <1>1, <1>9 DEF Sockets

-----------------------------------------------------------------------------
\* What the steps do to the types.

LEMMA JoinTypes ==
    ASSUME MockTypes, NEW c \in Clients, Join(c)
    PROVE  MockTypes'
<1>1. FreeSocket \in Sockets
  BY FreeSocketExists DEF Join
<1>2. BroadcasterTypes'
  <2>1. infos' \in Seq(Sockets)
    BY <1>1 DEF Join, MockTypes, BroadcasterTypes
  <2> QED BY <2>1 DEF Join, MockTypes, BroadcasterTypes
<1>3. ConnectionTypes'
  <2>1. socket' \in [Clients -> Nat]
    BY <1>1 DEF Join, MockTypes, ConnectionTypes, Sockets
  <2>2. <<Name>> \in Seq(Msgs) /\ <<>> \in Seq(Challenges) /\ <<>> \in Seq(Msgs)
    BY DEF Msgs
  <2>3. answers' \in [Clients -> Seq(Msgs)]
    BY <2>2 DEF Join, MockTypes, ConnectionTypes
  <2>4. unanswered' \in [Clients -> Seq(Challenges)]
    BY <2>2 DEF Join, MockTypes, ConnectionTypes
  <2>5. heard' \in [Clients -> [Challenges -> Heard]] /\ reads' \in [Clients -> Nat]
    BY DEF Join, MockTypes, ConnectionTypes, ghost
  <2>6. behind' \in [Clients -> Seq(Msgs)]
    BY <2>2 DEF Join, MockTypes, ConnectionTypes
  <2> QED BY <2>1, <2>3, <2>4, <2>5, <2>6 DEF Join, MockTypes, ConnectionTypes
<1>4. UnderWay'
  BY DEF Join, MockTypes, UnderWay
<1>5. Known'
  <2>1. Len(infos) \in Nat /\ infos \in Seq(Sockets)
    BY DEF MockTypes, BroadcasterTypes
  <2>2. /\ infos' = Append(infos, FreeSocket) /\ Len(infos') = Len(infos) + 1
        /\ infos'[Len(infos) + 1] = FreeSocket
        /\ \A i \in DOMAIN infos : i \in DOMAIN infos' /\ infos'[i] = infos[i]
        /\ Len(infos) + 1 \in DOMAIN infos'
    BY <1>1, <2>1 DEF Join
  <2>3. ASSUME NEW d \in Clients, socket'[d] # 0 PROVE \E i \in DOMAIN infos' : infos'[i] = socket'[d]
    <3>1. CASE d = c
      <4>1. socket'[d] = FreeSocket
        BY <3>1 DEF Join, MockTypes, ConnectionTypes
      <4> QED BY <2>2, <4>1
    <3>2. CASE d # c
      <4>1. socket'[d] = socket[d]
        BY <3>2 DEF Join, MockTypes, ConnectionTypes
      <4> QED BY <2>2, <2>3, <4>1 DEF MockTypes, Known
    <3> QED BY <3>1, <3>2
  <2> QED BY <2>3 DEF Known
<1> QED BY <1>2, <1>3, <1>4, <1>5 DEF MockTypes

LEMMA TailsOf ==
    ASSUME NEW S, NEW s \in Seq(S), NEW k \in 1 .. Len(s)
    PROVE  SubSeq(s, k + 1, Len(s)) \in Seq(S) /\ SubSeq(s, 2, k) \in Seq(S)
<1>1. (\A i \in k + 1 .. Len(s) : s[i] \in S) /\ (\A i \in 2 .. k : s[i] \in S)
  OBVIOUS
<1> QED BY <1>1, SubSeqProperties

LEMMA NestedType ==
    ASSUME NEW S, NEW T, NEW V, NEW f \in [S -> [T -> V]], NEW c \in S, NEW n, NEW v \in V
    PROVE  [f EXCEPT ![c][n] = v] \in [S -> [T -> V]]
<1>1. [f[c] EXCEPT ![n] = v] \in [T -> V]
  OBVIOUS
<1>2. [f EXCEPT ![c][n] = v] = [f EXCEPT ![c] = [f[c] EXCEPT ![n] = v]]
  OBVIOUS
<1> QED BY <1>1, <1>2

LEMMA RecvTypes ==
    ASSUME MockTypes, NEW c \in Clients, ReadName(c) \/ RecvAnswer(c)
    PROVE  MockTypes'
<1>1. PICK k \in 1 .. Len(answers[c]) : answers' = [answers EXCEPT ![c] = SubSeq(@, k + 1, Len(@))]
  <2>1. answers[c] \in Seq(Msgs) /\ answers[c] # <<>>
    BY DEF ReadName, RecvAnswer, MockTypes, ConnectionTypes
  <2>2. 1 \in 1 .. Len(answers[c])
    BY <2>1
  <2>3. Together(c) \subseteq 1 .. Len(answers[c])
    BY <2>2 DEF Together
  <2>4. \E k \in Together(c) : answers' = [answers EXCEPT ![c] = SubSeq(@, k + 1, Len(@))]
    BY DEF ReadName, RecvAnswer
  <2> QED BY <2>3, <2>4
<1>2. answers' \in [Clients -> Seq(Msgs)]
  <2>1. SubSeq(answers[c], k + 1, Len(answers[c])) \in Seq(Msgs)
    BY TailsOf DEF MockTypes, ConnectionTypes
  <2> QED BY <1>1, <2>1 DEF MockTypes, ConnectionTypes
<1>3. behind' \in [Clients -> Seq(Msgs)]
  <2>1. answers[c] \in Seq(Msgs) /\ behind \in [Clients -> Seq(Msgs)]
    BY DEF MockTypes, ConnectionTypes
  <2>2. \A j \in 1 .. Len(answers[c]) : SubSeq(answers[c], 2, j) \in Seq(Msgs)
    BY <2>1, TailsOf
  <2>3. \/ behind' = behind
        \/ \E j \in 1 .. Len(answers[c]) : behind' = [behind EXCEPT ![c] = SubSeq(answers[c], 2, j)]
    BY DEF ReadName, RecvAnswer, Together
  <2> QED BY <2>1, <2>2, <2>3
<1>4. heard' \in [Clients -> [Challenges -> Heard]]
  <2>1. CASE ReadName(c)
    BY <2>1 DEF ReadName, MockTypes, ConnectionTypes, ghost
  <2>2. CASE RecvAnswer(c)
    <3>1. clock \in Nat
      BY DEF MockTypes, BroadcasterTypes
    <3> DEFINE n == Head(answers[c])
    <3>2. clock \in Heard /\ heard \in [Clients -> [Challenges -> Heard]]
      BY <3>1 DEF Heard, MockTypes, ConnectionTypes
    <3>3. heard' = heard \/ heard' = [heard EXCEPT ![c][n] = clock]
      BY <2>2 DEF RecvAnswer
    <3> HIDE DEF n
    <3>4. [heard EXCEPT ![c][n] = clock] \in [Clients -> [Challenges -> Heard]]
      BY <3>2, NestedType
    <3> QED BY <3>2, <3>3, <3>4
  <2> QED BY <2>1, <2>2
<1>5. reads' \in [Clients -> Nat] /\ readAt' \in [Clients -> Nat]
  <2>1. /\ reads \in [Clients -> Nat] /\ readAt \in [Clients -> Nat]
        /\ clock \in Nat
    BY DEF MockTypes, ConnectionTypes, BroadcasterTypes
  <2>2. /\ reads' = reads \/ reads' = [reads EXCEPT ![c] = @ + 1]
        /\ readAt' = readAt \/ readAt' = [readAt EXCEPT ![c] = clock]
    BY DEF ReadName, RecvAnswer, ghost
  <2>3. reads' \in [Clients -> Nat]
    BY <2>1, <2>2
  <2>4. readAt' \in [Clients -> Nat]
    BY <2>1, <2>2
  <2> QED BY <2>3, <2>4
<1>6. reader' \in [Clients -> {"none", "naming", "reading", "crediting"}]
  BY DEF ReadName, RecvAnswer, MockTypes, ConnectionTypes
<1>7. UNCHANGED <<paced, clock, infos, cid, start, latencies, stage, unsent, log, socket, left, unanswered>>
  BY DEF ReadName, RecvAnswer, serverSide
<1>8. BroadcasterTypes' /\ UnderWay' /\ Known'
  BY <1>7 DEF MockTypes, BroadcasterTypes, UnderWay, Known
<1>9. ConnectionTypes'
  BY <1>2, <1>3, <1>4, <1>5, <1>6, <1>7 DEF MockTypes, ConnectionTypes
<1> QED BY <1>8, <1>9 DEF MockTypes

LEMMA AnswerTypes ==
    ASSUME MockTypes, NEW c \in Clients, Answer(c)
    PROVE  MockTypes'
<1>1. unanswered[c] \in Seq(Challenges) /\ unanswered[c] # <<>> /\ answers[c] \in Seq(Msgs)
  BY DEF Answer, MockTypes, ConnectionTypes
<1>2. Head(unanswered[c]) \in Challenges /\ Tail(unanswered[c]) \in Seq(Challenges)
  BY <1>1
<1>3. answers' = [answers EXCEPT ![c] = Append(@, Head(unanswered[c]))]
  BY DEF Answer
<1>4. Head(unanswered[c]) \in Msgs
  BY <1>2 DEF Msgs
<1>5. Append(answers[c], Head(unanswered[c])) \in Seq(Msgs)
  BY <1>1, <1>4
<1>6. answers' \in [Clients -> Seq(Msgs)]
  BY <1>3, <1>5 DEF MockTypes, ConnectionTypes
<1>7. unanswered' \in [Clients -> Seq(Challenges)]
  BY <1>2 DEF Answer, MockTypes, ConnectionTypes
<1>8. UNCHANGED <<paced, clock, infos, cid, start, latencies, stage, unsent, log, socket, left, reader,
                  readAt, behind, heard, reads>>
  BY DEF Answer, serverSide, ghost
<1>9. BroadcasterTypes' /\ UnderWay' /\ Known'
  BY <1>8 DEF MockTypes, BroadcasterTypes, UnderWay, Known
<1>10. ConnectionTypes'
  BY <1>6, <1>7, <1>8 DEF MockTypes, ConnectionTypes
<1> QED BY <1>9, <1>10 DEF MockTypes

LEMMA LatenciesAre ==
    ASSUME NEW f \in Latencies
    PROVE  DOMAIN f \subseteq Registrations /\ f \in [DOMAIN f -> Int]
<1>1. PICK S \in SUBSET Registrations : f \in [S -> Int]
  BY DEF Latencies
<1> QED BY <1>1

LEMMA CreditTypes ==
    ASSUME MockTypes, NEW c \in Clients, Credit(c)
    PROVE  MockTypes'
<1>1. Latency(readAt[c]) \in Int
  BY DEF Latency, MockTypes, BroadcasterTypes, ConnectionTypes
<1>2. latencies' \in Latencies
  <2> DEFINE S == DOMAIN latencies \union {Registered(c)}
  <2>1. behind[c] \in Seq(Msgs) /\ latencies \in Latencies
    BY DEF MockTypes, BroadcasterTypes, ConnectionTypes
  <2>2. Registered(c) \in Registrations
    BY <2>1 DEF Registered, Registrations
  <2>3. latencies \in [DOMAIN latencies -> Int] /\ S \subseteq Registrations
    BY <2>1, <2>2, LatenciesAre
  <2>4. latencies' = [n \in S |-> IF n = Registered(c) THEN Latency(readAt[c]) ELSE latencies[n]]
    BY DEF Credit
  <2> HIDE DEF Registered
  <2>5. latencies' \in [S -> Int]
    BY <1>1, <2>3, <2>4
  <2> HIDE DEF S
  <2> QED BY <2>3, <2>5 DEF Latencies
<1>3. readAt' \in [Clients -> Nat]
  BY DEF Credit, MockTypes, ConnectionTypes
<1>4. reader' \in [Clients -> {"none", "naming", "reading", "crediting"}]
  BY DEF Credit, MockTypes, ConnectionTypes
<1>5. UNCHANGED <<paced, clock, infos, cid, start, stage, unsent, log, socket, left, answers,
                  unanswered, behind, heard, reads>>
  BY DEF Credit, ghost
<1>6. BroadcasterTypes' /\ UnderWay' /\ Known'
  BY <1>2, <1>5 DEF MockTypes, BroadcasterTypes, UnderWay, Known
<1>7. ConnectionTypes'
  BY <1>3, <1>4, <1>5 DEF MockTypes, ConnectionTypes
<1> QED BY <1>6, <1>7 DEF MockTypes

LEMMA ClosedTypes ==
    ASSUME MockTypes, NEW c \in Clients, Closed(c)
    PROVE  MockTypes'
<1>1. reader' \in [Clients -> {"none", "naming", "reading", "crediting"}]
  BY DEF Closed, MockTypes, ConnectionTypes
<1>2. socket' \in [Clients -> Nat] /\ \A d \in Clients : socket'[d] \in {0, socket[d]}
  BY DEF Closed, MockTypes, ConnectionTypes
<1>3. UNCHANGED <<paced, clock, infos, cid, start, latencies, stage, unsent, log, left, answers,
                  readAt, unanswered, behind, heard, reads>>
  BY DEF Closed, serverSide, ghost
<1>4. BroadcasterTypes' /\ UnderWay' /\ Known'
  BY <1>2, <1>3 DEF MockTypes, BroadcasterTypes, UnderWay, Known
<1>5. ConnectionTypes'
  BY <1>1, <1>2, <1>3 DEF MockTypes, ConnectionTypes
<1> QED BY <1>4, <1>5 DEF MockTypes

LEMMA QuitTypes ==
    ASSUME MockTypes, NEW c \in Clients, Quit(c)
    PROVE  MockTypes'
<1>1. left' \subseteq Clients
  BY DEF Quit, MockTypes, ConnectionTypes
<1>2. UNCHANGED <<paced, clock, infos, cid, start, latencies, stage, unsent, log, socket, answers,
                  reader, readAt, unanswered, behind, heard, reads>>
  BY DEF Quit, serverSide, ghost
<1>3. BroadcasterTypes' /\ UnderWay' /\ Known'
  BY <1>2 DEF MockTypes, BroadcasterTypes, UnderWay, Known
<1>4. ConnectionTypes'
  BY <1>1, <1>2 DEF MockTypes, ConnectionTypes
<1> QED BY <1>3, <1>4 DEF MockTypes

LEMMA NoneInLatencies == NoLatencies \in Latencies /\ DOMAIN NoLatencies = {}
<1>1. NoLatencies \in [{} -> Int] /\ DOMAIN NoLatencies = {}
  BY DEF NoLatencies
<1>2. {} \in SUBSET Registrations
  OBVIOUS
<1> QED BY <1>1, <1>2 DEF Latencies

LEMMA BroadcasterKeepsTypes ==
    ASSUME MockTypes, Tick \/ NewChallenge \/ SendOne \/ Sleep \/ LogResult
    PROVE  MockTypes'
<1>1. /\ UNCHANGED <<paced, infos, socket, answers, left, reader, readAt, behind, heard, reads>>
      /\ clock' \in Nat
  <2>1. clock \in Nat
    BY DEF MockTypes, BroadcasterTypes
  <2> QED BY <2>1 DEF Tick, NewChallenge, SendOne, Sleep, LogResult, serverSide, ghost
<1>2. unanswered' \in [Clients -> Seq(Challenges)]
  <2>1. unanswered \in [Clients -> Seq(Challenges)]
    BY DEF MockTypes, ConnectionTypes
  <2>2. CASE SendOne
    <3>1. cid \in Challenges
      BY <2>2 DEF SendOne, MockTypes, UnderWay
    <3>2. \A c \in Clients : Append(unanswered[c], cid) \in Seq(Challenges)
      BY <2>1, <3>1
    <3> QED BY <2>1, <2>2, <3>2 DEF SendOne
  <2>3. CASE ~SendOne
    BY <2>1, <2>3 DEF Tick, NewChallenge, Sleep, LogResult
  <2> QED BY <2>2, <2>3
<1>3. cid' \in 0 .. MaxChallenges /\ (stage' # "logging" => cid' \in Challenges)
  <2>1. MaxChallenges \in Nat /\ cid \in 0 .. MaxChallenges /\ (stage # "logging" => cid \in Challenges)
    BY MockAssumption DEF MockTypes, BroadcasterTypes, UnderWay
  <2>2. \/ UNCHANGED cid /\ (stage' = stage \/ stage # "logging" \/ stage' = "logging")
        \/ cid' = cid + 1 /\ cid < MaxChallenges
    BY DEF Tick, NewChallenge, SendOne, Sleep, LogResult, serverSide
  <2> QED BY <2>1, <2>2 DEF Challenges
<1>4. start' \in Nat /\ stage' \in {"sending", "sleeping", "logging"}
  BY DEF Tick, NewChallenge, SendOne, Sleep, LogResult, serverSide, MockTypes, BroadcasterTypes
<1>5. latencies' \in Latencies
  <2>1. NoLatencies \in Latencies
    BY NoneInLatencies
  <2> QED BY <2>1 DEF Tick, NewChallenge, SendOne, Sleep, LogResult, serverSide, MockTypes, BroadcasterTypes
<1>6. unsent' \in Seq(Sockets)
  <2>1. unsent \in Seq(Sockets) /\ infos \in Seq(Sockets)
    BY DEF MockTypes, BroadcasterTypes
  <2>2. UNCHANGED unsent \/ unsent' = infos \/ (unsent # <<>> /\ unsent' = Tail(unsent))
    BY DEF Tick, NewChallenge, SendOne, Sleep, LogResult, serverSide
  <2> QED BY <2>1, <2>2
<1>7. log' \in Seq([cid : Nat, responses : Latencies])
  <2> DEFINE E == [cid : Nat, responses : Latencies]
             e == [cid |-> cid, responses |-> latencies]
  <2>1. log \in Seq(E) /\ cid \in Nat /\ latencies \in Latencies
    BY DEF MockTypes, BroadcasterTypes
  <2>2. e \in E
    BY <2>1
  <2>3. UNCHANGED log \/ log' = Append(log, e)
    BY DEF Tick, NewChallenge, SendOne, Sleep, LogResult, serverSide
  <2> HIDE DEF E, e
  <2>4. log' \in Seq(E)
    BY <2>1, <2>2, <2>3, AppendProperties
  <2> QED BY <2>4 DEF E
<1>8. BroadcasterTypes'
  BY <1>1, <1>3, <1>4, <1>5, <1>6, <1>7 DEF MockTypes, BroadcasterTypes
<1>9. ConnectionTypes'
  BY <1>1, <1>2 DEF MockTypes, ConnectionTypes
<1>10. UnderWay' /\ Known'
  BY <1>1, <1>3 DEF MockTypes, UnderWay, Known
<1> QED BY <1>8, <1>9, <1>10 DEF MockTypes

LEMMA MockTypesKept ==
    ASSUME MockTypes, MockNext
    PROVE  MockTypes'
<1>1. CASE Tick \/ NewChallenge \/ SendOne \/ Sleep \/ LogResult
  BY <1>1, BroadcasterKeepsTypes
<1>2. ASSUME NEW c \in Clients,
             \/ Join(c) \/ Answer(c) \/ Quit(c)
             \/ ReadName(c) \/ RecvAnswer(c) \/ Credit(c) \/ Closed(c)
      PROVE  MockTypes'
  BY <1>2, JoinTypes, AnswerTypes, QuitTypes, RecvTypes, CreditTypes, ClosedTypes
<1> QED BY <1>1, <1>2 DEF MockNext

-----------------------------------------------------------------------------
\* What is counted in Accounted is a number, and an entry adds what the
\* current challenge stood for.

LEMMA CountIsNatural ==
    ASSUME MockTypes, NEW c \in Clients
    PROVE  /\ Credited(c) \subseteq 1 .. Len(log) /\ IsFiniteSet(Credited(c))
           /\ Cardinality(Credited(c)) \in Nat
           /\ Current(c) \in {0, 1} /\ InHand(c) \in {0, 1}
<1>1. Credited(c) \subseteq 1 .. Len(log) /\ Len(log) \in Nat
  BY DEF Credited, MockTypes, BroadcasterTypes
<1>2. IsFiniteSet(1 .. Len(log))
  BY <1>1, FS_Interval
<1>3. IsFiniteSet(Credited(c))
  BY <1>1, <1>2, FS_Subset
<1>4. Cardinality(Credited(c)) \in Nat
  BY <1>3, FS_CardinalityType
<1> QED BY <1>1, <1>3, <1>4 DEF Current, InHand

LEMMA EntryCounts ==
    ASSUME MockTypes, LogResult, NEW c \in Clients
    PROVE  Cardinality(Credited(c))' = Cardinality(Credited(c)) + Current(c)
<1> DEFINE n == Len(log)
           e == [cid |-> cid, responses |-> latencies]
           After == {k \in 1 .. n + 1 : c \in Players(log'[k])}
<1>1. n \in Nat /\ log \in Seq([cid : Nat, responses : Latencies])
  BY DEF MockTypes, BroadcasterTypes
<1>2. log' = Append(log, e) /\ DOMAIN log = 1 .. n
  BY <1>1 DEF LogResult
<1>3. /\ DOMAIN log' = 1 .. n + 1
      /\ log'[n + 1] = e
      /\ \A k \in 1 .. n : log'[k] = log[k]
  <2>1. Len(log') = n + 1 /\ log'[n + 1] = e /\ \A k \in 1 .. n : log'[k] = log[k]
    BY <1>1, <1>2
  <2>2. DOMAIN log' = 1 .. n + 1
    BY <1>1, <1>2
  <2> QED BY <2>1, <2>2
<1>4. After = IF Has(c) THEN Credited(c) \cup {n + 1} ELSE Credited(c)
  <2>1. c \in Players(e) <=> Has(c)
    BY DEF Players, Has
  <2>2. \A k \in 1 .. n + 1 : k \in 1 .. n \/ k = n + 1
    BY <1>1
  <2>3. \A k \in 1 .. n : k \in 1 .. n + 1
    BY <1>1
  <2>4. n + 1 \in 1 .. n + 1 /\ n + 1 \notin 1 .. n
    BY <1>1
  <2>5. \A k \in 1 .. n : k \in After <=> k \in Credited(c)
    <3> HIDE DEF n
    <3> QED BY <1>2, <1>3, <2>3 DEF Credited
  <2>6. n + 1 \in After <=> Has(c)
    <3> HIDE DEF n, e
    <3> QED BY <1>3, <2>1, <2>4
  <2>7. Credited(c) \subseteq 1 .. n /\ After \subseteq 1 .. n + 1
    BY <1>2 DEF Credited
  <2> HIDE DEF After, n
  <2>8. CASE Has(c)
    <3>1. \A k \in After : k \in Credited(c) \cup {n + 1}
      BY <2>2, <2>5, <2>7
    <3>2. \A k \in Credited(c) \cup {n + 1} : k \in After
      BY <2>5, <2>6, <2>7, <2>8
    <3> QED BY <2>8, <3>1, <3>2
  <2>9. CASE ~Has(c)
    <3>1. \A k \in After : k \in Credited(c)
      BY <2>2, <2>5, <2>6, <2>7, <2>9
    <3>2. \A k \in Credited(c) : k \in After
      BY <2>5, <2>7
    <3> QED BY <2>9, <3>1, <3>2
  <2> QED BY <2>8, <2>9
<1>5. Credited(c)' = After
  BY <1>3 DEF Credited
<1>6. Credited(c) \subseteq 1 .. n /\ IsFiniteSet(Credited(c)) /\ Cardinality(Credited(c)) \in Nat
  BY CountIsNatural
<1>7. n + 1 \notin Credited(c)
  BY <1>1, <1>6
<1>8. Cardinality(Credited(c) \cup {n + 1}) = Cardinality(Credited(c)) + 1
  <2> HIDE DEF n
  <2> QED BY <1>6, <1>7, FS_AddElement
<1>9. Current(c) = IF Has(c) THEN 1 ELSE 0
  BY DEF Current, LogResult
<1>10. Cardinality(Credited(c))' = Cardinality(After)
  BY <1>5
<1> HIDE DEF After, n, e
<1> QED BY <1>4, <1>6, <1>8, <1>9, <1>10

\* What was counted in two of the three terms before is counted in one.
LEMMA SmallSums ==
    ASSUME NEW n \in Nat, NEW a \in {0, 1}, NEW b \in {0, 1}, NEW r \in Nat, n + a + b <= r,
           NEW m, NEW p, NEW q, NEW t,
           \/ m = n + a /\ p = 0 /\ q = b /\ t = r
           \/ m = n /\ p \in {0, a} /\ q \in {0, b} /\ t = r
           \/ m = n /\ p = a /\ q = 1 /\ b = 0 /\ t = r + 1
           \/ m = n /\ p \in {0, 1} /\ q = 0 /\ b = 1 /\ t = r
    PROVE  m + p + q <= t
  OBVIOUS

LEMMA AccountedKept ==
    ASSUME MockTypes, Accounted, MockNext
    PROVE  Accounted'
<1>0. SUFFICES ASSUME NEW d \in Clients
               PROVE  Cardinality(Credited(d))' + Current(d)' + InHand(d)' <= reads'[d]
  BY DEF Accounted
<1> DEFINE n == Cardinality(Credited(d))
<1>1. n \in Nat /\ Current(d) \in {0, 1} /\ InHand(d) \in {0, 1} /\ reads[d] \in Nat
  BY CountIsNatural DEF MockTypes, ConnectionTypes
<1>2. n + Current(d) + InHand(d) <= reads[d]
  BY DEF Accounted
<1>3. CASE LogResult
  <2>1. n' = n + Current(d)
    BY <1>3, EntryCounts
  <2>2. Current(d)' = 0 /\ InHand(d)' = InHand(d) /\ reads' = reads
    BY <1>3 DEF LogResult, Current, InHand, ghost
  <2> QED BY <1>1, <1>2, <2>1, <2>2, SmallSums
<1>4. CASE ~LogResult
  <2>1. UNCHANGED log
    BY <1>4 DEF MockNext, Tick, NewChallenge, SendOne, Sleep, Join, Answer, Quit, ReadName,
                RecvAnswer, Credit, Closed, serverSide
  <2>2. n' = n
    BY <2>1 DEF Credited
  <2>3. CASE NewChallenge
    <3>1. Current(d)' = 0 /\ InHand(d)' = InHand(d) /\ reads' = reads
      BY <2>3, NoneInLatencies DEF NewChallenge, Current, InHand, Has, ghost
    <3> QED BY <1>1, <1>2, <2>2, <3>1, SmallSums
  <2>4. CASE Tick \/ SendOne \/ Sleep
    <3>1. Current(d)' = Current(d) /\ InHand(d)' = InHand(d) /\ reads' = reads
      BY <2>4 DEF Tick, SendOne, Sleep, Current, InHand, Has, serverSide, ghost
    <3> QED BY <1>1, <1>2, <2>2, <3>1, SmallSums
  <2>5. ASSUME NEW c \in Clients, Join(c) \/ Answer(c) \/ Quit(c) \/ ReadName(c) \/ Closed(c)
        PROVE  Current(d)' = Current(d) /\ InHand(d)' <= InHand(d) /\ InHand(d)' \in {0, 1}
               /\ reads' = reads
    <3>1. UNCHANGED <<latencies, stage, reads>>
      BY <2>5 DEF Join, Answer, Quit, ReadName, Closed, serverSide, ghost
    <3>2. reader'[d] # reader[d] => reader'[d] # "crediting"
      BY <2>5 DEF Join, Answer, Quit, ReadName, Closed, MockTypes, ConnectionTypes
    <3> QED BY <3>1, <3>2 DEF Current, InHand, Has
  <2>6. ASSUME NEW c \in Clients, RecvAnswer(c)
        PROVE  /\ Current(d)' = Current(d)
               /\ IF d = c THEN InHand(d)' = 1 /\ InHand(d) = 0 /\ reads'[d] = reads[d] + 1
                  ELSE InHand(d)' = InHand(d) /\ reads'[d] = reads[d]
    BY <2>6 DEF RecvAnswer, Current, InHand, Has, MockTypes, ConnectionTypes, serverSide
  <2>7. ASSUME NEW c \in Clients, Credit(c)
        PROVE  /\ reads' = reads
               /\ IF d = c THEN InHand(d)' = 0 /\ InHand(d) = 1 /\ Current(d)' \in {0, 1}
                  ELSE InHand(d)' = InHand(d) /\ Current(d)' = Current(d)
    <3>1. reads' = reads /\ stage' = stage
      BY <2>7 DEF Credit, ghost
    <3>2. IF d = c THEN reader'[d] = "reading" /\ reader[d] = "crediting" ELSE reader'[d] = reader[d]
      BY <2>7 DEF Credit, MockTypes, ConnectionTypes
    <3>3. d # c => Has(d)' = Has(d)
      <4>1. DOMAIN latencies' = DOMAIN latencies \union {<<c, behind[c]>>}
        BY <2>7 DEF Credit, Registered
      <4> QED BY <4>1 DEF Has
    <3> QED BY <3>1, <3>2, <3>3 DEF Current, InHand
  <2>8. ASSUME NEW c \in Clients, Join(c) \/ Answer(c) \/ Quit(c) \/ ReadName(c) \/ Closed(c)
        PROVE  n' + Current(d)' + InHand(d)' <= reads'[d]
    <3> QED BY <1>1, <1>2, <2>2, <2>5, <2>8, SmallSums
  <2>9. ASSUME NEW c \in Clients, RecvAnswer(c)
        PROVE  n' + Current(d)' + InHand(d)' <= reads'[d]
    <3> QED BY <1>1, <1>2, <2>2, <2>6, <2>9, SmallSums
  <2>10. ASSUME NEW c \in Clients, Credit(c)
         PROVE  n' + Current(d)' + InHand(d)' <= reads'[d]
    <3> QED BY <1>1, <1>2, <2>2, <2>7, <2>10, SmallSums
  <2> QED BY <1>4, <2>3, <2>4, <2>8, <2>9, <2>10 DEF MockNext
<1> QED BY <1>3, <1>4

-----------------------------------------------------------------------------
\* The steps while answers are in time and no socket number comes back.

LEMMA OneMember == ASSUME NEW S, NEW e \in S PROVE <<e>> \in Seq(S)
  OBVIOUS

LEMMA ShortSequences ==
    ASSUME NEW a, NEW b
    PROVE  /\ Append(<<>>, b) = <<b>> /\ Append(<<a>>, b) = <<a, b>>
           /\ <<b>> # <<>> /\ <<a>> # <<a, b>> /\ <<a, b>> # <<>>
           /\ SubSeq(<<a>>, 2, Len(<<a>>)) = <<>>
           /\ SubSeq(<<a, b>>, 2, Len(<<a, b>>)) = <<b>>
           /\ SubSeq(<<a, b>>, 3, Len(<<a, b>>)) = <<>>
           /\ Len(<<a>>) = 1 /\ Len(<<a, b>>) = 2
           /\ Head(<<b>>) = b /\ Tail(<<b>>) = <<>>
<1>1. Append(<<>>, b) = <<b>> /\ <<b>> # <<>> /\ Head(<<b>>) = b /\ Tail(<<b>>) = <<>>
  <2>1. <<b>> # <<>> /\ Head(<<b>>) = b
    OBVIOUS
  <2>2. Tail(<<b>>) = <<>>
    OBVIOUS
  <2>3. Append(<<>>, b) = <<b>>
    <3>1. <<>> \in Seq({b})
      BY EmptySeq
    <3>2. <<b>> \in Seq({b})
      BY b \in {b}, OneMember
    <3>3. Append(<<>>, b) = <<>> \o <<b>>
      BY <3>1, AppendIsConcat
    <3> QED BY <3>2, <3>3, ConcatEmptySeq
  <2> QED BY <2>1, <2>2, <2>3
<1>2. Append(<<a>>, b) = <<a, b>> /\ <<a>> # <<a, b>> /\ <<a, b>> # <<>>
  <2> DEFINE S == {a, b}
             s == Append(<<a>>, b)
             t == <<a, b>>
  <2>1. <<a>> \in Seq(S) /\ b \in S
    BY a \in S, OneMember
  <2>2. Len(<<a>>) = 1 /\ <<a>>[1] = a
    OBVIOUS
  <2>3. Len(t) = 2 /\ t[1] = a /\ t[2] = b
    OBVIOUS
  <2>4. t \in Seq(S)
    BY a \in S, b \in S
  <2> HIDE DEF S
  <2>5. s \in Seq(S) /\ Len(s) = 2 /\ s[1] = a /\ s[2] = b
    BY <2>1, <2>2, AppendProperties
  <2>6. \A i \in 1 .. 2 : i = 1 \/ i = 2
    OBVIOUS
  <2> HIDE DEF s, t
  <2>7. \A i \in 1 .. 2 : s[i] = t[i]
    BY <2>3, <2>5, <2>6
  <2>8. s = t
    BY <2>3, <2>4, <2>5, <2>7, SeqEqual
  <2>9. t # <<a>> /\ t # <<>>
    BY <2>2, <2>3, EmptySeq
  <2> QED BY <2>8, <2>9 DEF s, t
<1>3. Len(<<a>>) = 1 /\ Len(<<a, b>>) = 2
  OBVIOUS
<1>4. SubSeq(<<a>>, 2, 1) = <<>> /\ SubSeq(<<a, b>>, 3, 2) = <<>>
  BY SubSeqEmpty
<1>5. SubSeq(<<a, b>>, 2, 2) = <<b>>
  <2> DEFINE q == <<a, b>>
             s == SubSeq(q, 2, 2)
  <2>1. q[2] = b /\ \A i \in 2 .. 2 : q[i] \in {b}
    OBVIOUS
  <2>2. s \in Seq({b}) /\ Len(s) = 1 /\ s[1] = b
    <3> HIDE DEF q
    <3>1. /\ s \in Seq({b})
          /\ Len(s) = IF 2 <= 2 THEN 2 - 2 + 1 ELSE 0
          /\ \A i \in 1 .. 2 - 2 + 1 : s[i] = q[2 + i - 1]
      BY <2>1, SubSeqProperties
    <3> HIDE DEF s
    <3> QED BY <2>1, <3>1
  <2>3. <<b>> \in Seq({b}) /\ Len(<<b>>) = 1 /\ <<b>>[1] = b
    BY b \in {b}, OneMember
  <2> HIDE DEF s, q
  <2>4. \A i \in 1 .. 1 : s[i] = <<b>>[i]
    BY <2>2, <2>3
  <2>5. s = <<b>>
    BY <2>2, <2>3, <2>4, SeqEqual
  <2> QED BY <2>5 DEF s, q
<1> QED BY <1>1, <1>2, <1>3, <1>4, <1>5

LEMMA ReuseStays ==
    ASSUME MockTypes, MockNext
    PROVE  paced' = paced /\ (NoneReused' => NoneReused)
<1>1. infos \in Seq(Sockets)
  BY DEF MockTypes, BroadcasterTypes
<1>2. paced' = paced /\ (UNCHANGED infos \/ \E n : infos' = Append(infos, n))
  BY DEF MockNext, Tick, NewChallenge, SendOne, Sleep, LogResult, Join, Answer, Quit, ReadName,
         RecvAnswer, Credit, Closed, serverSide
<1>3. \A i \in DOMAIN infos : i \in DOMAIN infos' /\ infos'[i] = infos[i]
  BY <1>1, <1>2
<1> QED BY <1>2, <1>3 DEF NoneReused

\* A client that a step leaves alone stays in its place.
SameLatencies(c) ==
    /\ \A n \in DOMAIN latencies :
          n[1] = c => n \in DOMAIN latencies' /\ latencies'[n] = latencies[n]
    /\ \A n \in DOMAIN latencies' : n[1] = c => n \in DOMAIN latencies

Same(c) ==
    /\ socket'[c] = socket[c] /\ answers'[c] = answers[c] /\ (c \in left' <=> c \in left)
    /\ reader'[c] = reader[c] /\ readAt'[c] = readAt[c] /\ unanswered'[c] = unanswered[c]
    /\ SameLatencies(c) /\ heard'[c] = heard[c]

LEMMA Undisturbed ==
    ASSUME NEW c \in Clients, InPlace(c), Same(c), UNCHANGED <<cid, start, stage, unsent>>
    PROVE  InPlace(c)'
<1>1. Opening(c)' = Opening(c) /\ Mine' = Mine
  BY DEF Same, Opening, Mine
<1>2. /\ Awaits(c)' = Awaits(c) /\ Holds(c)' = Holds(c) /\ Sent(c)' = Sent(c)
      /\ Crediting(c)' = Crediting(c) /\ Has(c)' = Has(c)
  BY <1>1 DEF Same, SameLatencies, Awaits, Holds, Sent, Crediting, Has
<1>3. OnePlace(c)'
  BY <1>2 DEF InPlace, OnePlace
<1>4. NoneElse(c)'
  BY <1>1, <1>2 DEF InPlace, NoneElse, Same
<1>5. HeardWhenRead(c)'
  BY <1>2 DEF InPlace, HeardWhenRead, Same, SameLatencies
<1>6. Over(c)'
  BY <1>2 DEF InPlace, Over
<1> QED BY <1>3, <1>4, <1>5, <1>6 DEF InPlace

LEMMA LogStaysFaithful ==
    ASSUME MockTypes, LogIsFaithful, UNCHANGED <<log, cid>>,
           (stage' = "logging") <=> (stage = "logging"),
           \A k \in DOMAIN log, c \in Clients : heard'[c][k] = heard[c][k]
    PROVE  LogIsFaithful'
<1>1. ASSUME NEW k \in DOMAIN log PROVE Faithful(log[k], k)'
  <2>1. Players(log[k]) = HeardOn(k) /\ HeardOn(k)' = HeardOn(k)
    BY DEF LogIsFaithful, Faithful, HeardOn
  <2>2. \A m \in DOMAIN log[k].responses : heard'[m[1]][k] = heard[m[1]][k]
    BY <2>1 DEF Players, HeardOn
  <2>3. PICK s \in Nat : \A m \in DOMAIN log[k].responses : heard[m[1]][k] = log[k].responses[m] + s
    BY DEF LogIsFaithful, Faithful
  <2>4. \A m \in DOMAIN log'[k].responses : heard'[m[1]][k] = log'[k].responses[m] + s
    BY <2>2, <2>3
  <2>5. Players(log[k])' = HeardOn(k)'
    BY <2>1 DEF Players
  <2> QED BY <2>4, <2>5 DEF Faithful
<1>2. \A k \in DOMAIN log' : log'[k].cid = k /\ Faithful(log[k], k)'
  BY <1>1 DEF LogIsFaithful
<1> QED BY <1>2 DEF LogIsFaithful

\* A step of client c and its handler.
LEMMA ClientStep ==
    ASSUME MockTypes, InTime, NEW c \in Clients, InPlace(c)',
           \A d \in Clients \ {c} : Same(d),
           UNCHANGED <<cid, start, stage, unsent, log>>,
           \A k \in DOMAIN log : heard'[c][k] = heard[c][k]
    PROVE  InTime'
<1>1. \A d \in Clients : InPlace(d)'
  BY Undisturbed DEF InTime
<1>2. \A k \in DOMAIN log, d \in Clients : heard'[d][k] = heard[d][k]
  BY DEF Same
<1>3. LogIsFaithful'
  BY <1>2, LogStaysFaithful DEF InTime
<1>4. SentOnceEach'
  BY DEF InTime, SentOnceEach
<1> QED BY <1>1, <1>3, <1>4 DEF InTime

LEMMA TickInTime == ASSUME MockTypes, InTime, Tick PROVE InTime'
<1>1. UNCHANGED <<cid, start, stage, unsent, log, latencies, heard>> /\ \A d \in Clients : Same(d)
  BY DEF Tick, serverSide, ghost, Same, SameLatencies
<1>2. \A d \in Clients : InPlace(d)'
  BY <1>1, Undisturbed DEF InTime
<1>3. LogIsFaithful'
  BY <1>1, LogStaysFaithful DEF InTime
<1> QED BY <1>1, <1>2, <1>3 DEF InTime, SentOnceEach

LEMMA JoinInTime == ASSUME MockTypes, InTime, NEW c \in Clients, Join(c) PROVE InTime'
<1>1. InPlace(c)
  BY DEF InTime
<1>2. \A d \in Clients \ {c} : Same(d)
  BY DEF Join, Same, SameLatencies, MockTypes, ConnectionTypes, ghost
<1>3. UNCHANGED <<cid, start, stage, unsent, log, heard, latencies, readAt>>
  BY DEF Join, ghost
<1>4. /\ answers'[c] = <<Name>> /\ reader'[c] = "naming" /\ unanswered'[c] = <<>> /\ reader[c] = "none"
      /\ unsent = <<>> /\ stage # "sending"
  BY DEF Join, MockTypes, ConnectionTypes, InTime, SentOnceEach
<1>5. Opening(c)' = <<Name>> /\ Mine' = Mine
  BY <1>3, <1>4 DEF Opening, Mine, Name
<1>6. ~Awaits(c)' /\ ~Holds(c)' /\ ~Crediting(c)' /\ ~Crediting(c) /\ Has(c)' = Has(c)
  BY <1>3, <1>4, EmptySeq DEF Awaits, Holds, Crediting, Has
<1>7. ~Sent(c)'
  BY <1>4, <1>5, ShortSequences DEF Sent
<1>8. OnePlace(c)' /\ Over(c)'
  BY <1>6, <1>7 DEF OnePlace, Over
<1>9. NoneElse(c)'
  BY <1>4, <1>5, <1>6 DEF NoneElse
<1>10. HeardWhenRead(c)'
  BY <1>1, <1>3, <1>6 DEF InPlace, HeardWhenRead
<1> QED BY <1>2, <1>3, <1>8, <1>9, <1>10, ClientStep DEF InPlace

LEMMA AnswerInTime ==
    ASSUME MockTypes, InTime, NEW c \in Clients, Answer(c)
    PROVE  InTime'
<1>1. InPlace(c) /\ Holds(c)
  BY DEF InTime, Answer, Holds
<1>2. \A d \in Clients \ {c} : Same(d)
  BY DEF Answer, Same, SameLatencies, MockTypes, ConnectionTypes, serverSide, ghost
<1>3. UNCHANGED <<cid, start, stage, unsent, log, heard, latencies, readAt, socket, left, reader>>
     
  BY DEF Answer, serverSide, ghost
<1>4. unanswered[c] = <<cid>> /\ answers[c] = Opening(c) /\ reader[c] # "none"
  BY <1>1 DEF InPlace, NoneElse, OnePlace
<1>5. unanswered'[c] = <<>> /\ answers'[c] = Append(answers[c], Mine)
  <2>1. answers' = [answers EXCEPT ![c] = Append(@, Head(unanswered[c]))]
    BY DEF Answer
  <2>2. unanswered' = [unanswered EXCEPT ![c] = Tail(@)]
    BY DEF Answer
  <2>3. Head(unanswered[c]) = cid /\ Tail(unanswered[c]) = <<>>
    BY <1>4, ShortSequences
  <2>4. answers'[c] = Append(answers[c], cid)
    BY <2>1, <2>3 DEF MockTypes, ConnectionTypes
  <2>5. unanswered'[c] = <<>>
    BY <2>2, <2>3 DEF MockTypes, ConnectionTypes
  <2> QED BY <2>4, <2>5 DEF Mine
<1>6. Opening(c)' = Opening(c) /\ Mine' = Mine
  BY <1>3 DEF Opening, Mine
<1>7. /\ ~Awaits(c)' /\ ~Holds(c)' /\ Sent(c)' /\ ~Crediting(c)' /\ ~Has(c)'
      /\ ~Crediting(c) /\ ~Has(c) /\ stage' # "logging"
  <2>1. ~Awaits(c) /\ ~Crediting(c) /\ ~Has(c) /\ stage # "logging"
    BY <1>1 DEF InPlace, OnePlace, Over
  <2>2. Sent(c)'
    BY <1>4, <1>5, <1>6 DEF Sent
  <2>3. ~Awaits(c)' /\ ~Crediting(c)' /\ ~Has(c)' /\ ~Holds(c)'
    BY <1>3, <1>5, <2>1 DEF Awaits, Crediting, Has, Holds
  <2> QED BY <1>3, <2>1, <2>2, <2>3
<1>8. OnePlace(c)' /\ Over(c)'
  BY <1>7 DEF OnePlace, Over
<1>9. NoneElse(c)'
  BY <1>3, <1>4, <1>7 DEF NoneElse
<1>10. HeardWhenRead(c)'
  BY <1>1, <1>3, <1>7 DEF InPlace, HeardWhenRead
<1> QED BY <1>2, <1>3, <1>8, <1>9, <1>10, ClientStep DEF InPlace

LEMMA QuitInTime == ASSUME MockTypes, InTime, NEW c \in Clients, Quit(c) PROVE InTime'
<1>1. InPlace(c)
  BY DEF InTime
<1>2. \A d \in Clients \ {c} : Same(d)
  BY DEF Quit, Same, SameLatencies, MockTypes, ConnectionTypes, serverSide, ghost
<1>3. UNCHANGED <<cid, start, stage, unsent, log, heard, latencies, readAt, socket, answers, reader,
                  unanswered>>
      /\ c \in left'
  BY DEF Quit, serverSide, ghost
<1>4. Opening(c)' = Opening(c) /\ Mine' = Mine
  BY <1>3 DEF Opening, Mine
<1>5. /\ Awaits(c)' = Awaits(c) /\ ~Holds(c)' /\ Sent(c)' = Sent(c)
      /\ Crediting(c)' = Crediting(c) /\ Has(c)' = Has(c)
  BY <1>3, <1>4 DEF Awaits, Holds, Sent, Crediting, Has
<1>6. OnePlace(c)' /\ Over(c)'
  BY <1>1, <1>3, <1>5 DEF InPlace, OnePlace, Over
<1>7. NoneElse(c)'
  BY <1>1, <1>3, <1>4, <1>5 DEF InPlace, NoneElse
<1>8. HeardWhenRead(c)'
  BY <1>1, <1>3, <1>5 DEF InPlace, HeardWhenRead
<1> QED BY <1>2, <1>3, <1>6, <1>7, <1>8, ClientStep DEF InPlace

LEMMA ReadNameInTime ==
    ASSUME MockTypes, paced, InTime, NEW c \in Clients, ReadName(c)
    PROVE  InTime'
<1>1. InPlace(c) /\ reader[c] = "naming"
  BY DEF InTime, ReadName
<1>2. \A d \in Clients \ {c} : Same(d)
  BY DEF ReadName, Same, SameLatencies, MockTypes, ConnectionTypes, serverSide, ghost
<1>3. UNCHANGED <<cid, start, stage, unsent, log, heard, latencies, readAt, socket, left, unanswered>>
      /\ reader'[c] = "reading"
  BY DEF ReadName, serverSide, ghost, MockTypes, ConnectionTypes
<1>4. PICK k \in 1 .. Len(answers[c]) : answers'[c] = SubSeq(answers[c], k + 1, Len(answers[c]))
  BY DEF ReadName, Together, MockTypes, ConnectionTypes
<1>5. Opening(c) = <<Name>> /\ Opening(c)' = <<>> /\ Mine' = Mine
  BY <1>1, <1>3 DEF Opening, Mine
<1>6. /\ answers[c] = <<Name>> \/ Sent(c)
      /\ Sent(c) => answers[c] = <<Name, Mine>>
  BY <1>1, <1>5, ShortSequences DEF InPlace, NoneElse, Sent
<1>7. Sent(c)' <=> answers'[c] = <<Mine>>
  BY <1>5, ShortSequences DEF Sent
<1>8. (answers'[c] = <<>> \/ Sent(c)') /\ (Sent(c)' => Sent(c))
  <2>1. CASE Sent(c)
    <3> DEFINE s == <<Name, Mine>>
    <3>1. Len(s) = 2 /\ SubSeq(s, 2, Len(s)) = <<Mine>> /\ SubSeq(s, 3, Len(s)) = <<>>
      BY ShortSequences
    <3>2. answers[c] = s
      BY <1>6, <2>1
    <3> HIDE DEF s
    <3>3. k + 1 = 2 \/ k + 1 = 3
      <4>1. Len(answers[c]) = 2
        BY <3>1, <3>2
      <4>2. k \in 1 .. 2
        BY <4>1
      <4> QED BY ONLY <4>2
    <3>4. answers'[c] = <<Mine>> \/ answers'[c] = <<>>
      BY <1>4, <3>1, <3>2, <3>3
    <3> QED BY <1>7, <2>1, <3>4
  <2>2. CASE ~Sent(c)
    <3> DEFINE s == <<Name>>
    <3>1. Len(s) = 1 /\ SubSeq(s, 2, Len(s)) = <<>>
      BY ShortSequences
    <3>2. answers[c] = s
      BY <1>6, <2>2
    <3> HIDE DEF s
    <3>3. k + 1 = 2
      <4>1. Len(answers[c]) = 1
        BY <3>1, <3>2
      <4>2. k \in 1 .. 1
        BY <4>1
      <4> QED BY ONLY <4>2
    <3>4. answers'[c] = <<>>
      BY <1>4, <3>1, <3>2, <3>3
    <3> QED BY <1>7, <3>4, ShortSequences
  <2> QED BY <2>1, <2>2
<1>9. /\ Awaits(c)' = Awaits(c) /\ Holds(c)' = Holds(c)
      /\ ~Crediting(c)' /\ ~Crediting(c) /\ Has(c)' = Has(c)
  BY <1>1, <1>3 DEF Awaits, Holds, Crediting, Has
<1>10. OnePlace(c)' /\ Over(c)'
  BY <1>1, <1>3, <1>8, <1>9 DEF InPlace, OnePlace, Over
<1>11. NoneElse(c)'
  BY <1>1, <1>3, <1>5, <1>8, <1>9 DEF InPlace, NoneElse
<1>12. HeardWhenRead(c)'
  BY <1>1, <1>3, <1>9 DEF InPlace, HeardWhenRead
<1> QED BY <1>2, <1>3, <1>10, <1>11, <1>12, ClientStep DEF InPlace

LEMMA RecvAnswerInTime ==
    ASSUME MockTypes, paced, InTime, NEW c \in Clients, RecvAnswer(c)
    PROVE  InTime'
<1>1. InPlace(c) /\ reader[c] = "reading" /\ answers[c] # <<>> /\ LogIsFaithful
  BY DEF InTime, RecvAnswer
<1>2. Opening(c) = <<>> /\ Sent(c) /\ answers[c] = <<Mine>>
  <2>1. Opening(c) = <<>>
    BY <1>1 DEF Opening
  <2>2. Sent(c)
    BY <1>1, <2>1 DEF InPlace, NoneElse
  <2> QED BY <2>1, <2>2, ShortSequences DEF Sent
<1>3. Head(answers[c]) = Mine
  BY <1>2, ShortSequences
<1>4. stage # "logging" /\ cid \in Challenges /\ heard[c][cid] = NoAnswer
      /\ ~Awaits(c) /\ ~Holds(c) /\ ~Crediting(c) /\ ~Has(c)
  BY <1>1, <1>2 DEF InPlace, Over, OnePlace, HeardWhenRead, MockTypes, UnderWay
<1>5. heard' = [heard EXCEPT ![c][cid] = clock]
  <2>1. heard' = IF heard[c][cid] # NoAnswer THEN heard ELSE [heard EXCEPT ![c][cid] = clock]
    BY <1>3 DEF RecvAnswer, Mine
  <2> QED BY <1>4, <2>1
<1>6. clock # NoAnswer /\ clock \in Heard
  BY MockAssumption DEF MockTypes, BroadcasterTypes, Heard
<1>7. /\ heard'[c][cid] = clock
      /\ \A n \in Challenges : n # cid => heard'[c][n] = heard[c][n]
      /\ \A d \in Clients \ {c} : heard'[d] = heard[d]
  <2>1. heard \in [Clients -> [Challenges -> Heard]]
    BY DEF MockTypes, ConnectionTypes
  <2> QED BY <1>4, <1>5, <2>1
<1>8. /\ reader' = [reader EXCEPT ![c] = "crediting"] /\ readAt' = [readAt EXCEPT ![c] = clock]
      /\ answers' = [answers EXCEPT ![c] = SubSeq(@, 2, Len(@))]
  <2>1. PICK k \in 1 .. Len(answers[c]) : answers' = [answers EXCEPT ![c] = SubSeq(@, k + 1, Len(@))]
    BY DEF RecvAnswer, Together
  <2>2. Len(answers[c]) = 1
    BY <1>2, ShortSequences
  <2>3. k + 1 = 2
    BY <2>2
  <2> QED BY <2>1, <2>3 DEF RecvAnswer
<1>9. /\ reader'[c] = "crediting" /\ readAt'[c] = clock
      /\ answers'[c] = SubSeq(answers[c], 2, Len(answers[c]))
  BY <1>8 DEF MockTypes, ConnectionTypes
<1>10. answers'[c] = <<>>
  BY <1>2, <1>9, ShortSequences
<1>11. UNCHANGED <<cid, start, stage, unsent, log, latencies, socket, left, unanswered>>
  BY DEF RecvAnswer, serverSide
<1>12. \A d \in Clients \ {c} : Same(d)
  <2>1. \A d \in Clients \ {c} :
            answers'[d] = answers[d] /\ reader'[d] = reader[d] /\ readAt'[d] = readAt[d]
    BY <1>8 DEF MockTypes, ConnectionTypes
  <2> QED BY <1>7, <1>11, <2>1 DEF Same, SameLatencies
<1>13. Opening(c)' = <<>> /\ Mine' = Mine
  BY <1>9, <1>11 DEF Opening, Mine
<1>14. ~Awaits(c)' /\ ~Holds(c)' /\ ~Sent(c)' /\ Crediting(c)' /\ ~Has(c)'
  <2>1. ~Awaits(c)' /\ ~Holds(c)' /\ Crediting(c)' /\ ~Has(c)'
    BY <1>4, <1>9, <1>11 DEF Awaits, Holds, Crediting, Has
  <2>2. ~Sent(c)'
    BY <1>10, <1>13, ShortSequences DEF Sent
  <2> QED BY <2>1, <2>2
<1>15. OnePlace(c)' /\ Over(c)'
  BY <1>4, <1>11, <1>14 DEF OnePlace, Over
<1>16. NoneElse(c)'
  BY <1>9, <1>10, <1>13, <1>14 DEF NoneElse
<1>17. HeardWhenRead(c)'
  <2>1. \A n \in Challenges : n > cid => heard'[c][n] = NoAnswer
    <3>1. cid \in Int /\ Challenges \subseteq Int
      BY DEF MockTypes, BroadcasterTypes, Challenges
    <3>2. \A n \in Challenges : n > cid => n # cid
      BY <3>1
    <3>3. \A n \in Challenges : n > cid => heard[c][n] = NoAnswer
      BY <1>1 DEF InPlace, HeardWhenRead
    <3> QED BY <1>7, <3>2, <3>3
  <2>2. heard'[c][cid] # NoAnswer /\ heard'[c][cid] = readAt'[c]
    BY <1>6, <1>7, <1>9
  <2> QED BY <1>11, <1>14, <2>1, <2>2 DEF HeardWhenRead, Has
<1>18. \A k \in DOMAIN log : heard'[c][k] = heard[c][k]
  <2>1. Len(log) = cid - 1 /\ DOMAIN log = 1 .. Len(log)
    BY <1>1, <1>4 DEF LogIsFaithful, MockTypes, BroadcasterTypes
  <2>2. cid \in 1 .. MaxChallenges /\ MaxChallenges \in Nat
    BY <1>4, MockAssumption DEF Challenges
  <2>3. \A k \in 1 .. cid - 1 : k \in 1 .. MaxChallenges /\ k # cid
    BY <2>2
  <2>4. \A k \in DOMAIN log : k \in Challenges /\ k # cid
    BY <2>1, <2>3 DEF Challenges
  <2> QED BY <1>7, <2>4
<1> QED BY <1>11, <1>12, <1>15, <1>16, <1>17, <1>18, ClientStep DEF InPlace

LEMMA CreditInTime ==
    ASSUME MockTypes, InTime, NEW c \in Clients, Credit(c)
    PROVE  InTime'
<1>1. InPlace(c) /\ Crediting(c)
  BY DEF InTime, Credit, Crediting
<1>2. \A d \in Clients \ {c} : Same(d)
  <2>1. \A d \in Clients \ {c} : SameLatencies(d)
    <3>1. /\ DOMAIN latencies' = DOMAIN latencies \union {Registered(c)}
          /\ \A n \in DOMAIN latencies : n # Registered(c) => latencies'[n] = latencies[n]
      BY DEF Credit
    <3>2. Registered(c)[1] = c
      BY DEF Registered
    <3> QED BY <3>1, <3>2 DEF SameLatencies
  <2>2. \A d \in Clients \ {c} :
            /\ UNCHANGED <<socket, answers, left, unanswered, heard>>
            /\ reader'[d] = reader[d] /\ readAt'[d] = readAt[d]
    BY DEF Credit, MockTypes, ConnectionTypes, ghost
  <2> QED BY <2>1, <2>2 DEF Same
<1>3. UNCHANGED <<cid, start, stage, unsent, log, heard, socket, left, answers, unanswered>>
  BY DEF Credit, ghost
<1>4. /\ reader'[c] = "reading" /\ reader[c] = "crediting"
      /\ Registered(c) \in DOMAIN latencies' /\ Registered(c)[1] = c
      /\ \A n \in DOMAIN latencies' : n[1] = c => latencies'[n] = readAt[c] - start
  <2>1. reader'[c] = "reading" /\ reader[c] = "crediting" /\ Registered(c)[1] = c
    BY DEF Credit, Registered, MockTypes, ConnectionTypes
  <2>2. \A n \in DOMAIN latencies : n[1] # c
    BY <1>1 DEF InPlace, OnePlace, Has
  <2>3. latencies' = [n \in DOMAIN latencies \union {Registered(c)} |->
                         IF n = Registered(c) THEN readAt[c] - start ELSE latencies[n]]
    BY DEF Credit, Latency
  <2> HIDE DEF Registered
  <2> QED BY <2>1, <2>2, <2>3
<1>5. readAt[c] - start \in Int /\ (readAt[c] - start) + start = readAt[c]
  BY DEF MockTypes, BroadcasterTypes, ConnectionTypes
<1>6. Opening(c)' = Opening(c) /\ Mine' = Mine
  BY <1>3, <1>4 DEF Opening, Mine
<1>7. /\ ~Awaits(c)' /\ ~Holds(c)' /\ ~Sent(c)' /\ ~Crediting(c)' /\ Has(c)'
      /\ stage' # "logging" /\ ~Sent(c)
  <2>1. ~Awaits(c) /\ ~Holds(c) /\ ~Sent(c) /\ stage # "logging"
    BY <1>1 DEF InPlace, OnePlace, Over
  <2>2. Has(c)'
    BY <1>4 DEF Has
  <2>3. ~Awaits(c)' /\ ~Holds(c)' /\ ~Sent(c)' /\ ~Crediting(c)'
    BY <1>3, <1>4, <1>6, <2>1 DEF Awaits, Holds, Sent, Crediting
  <2> QED BY <1>3, <2>1, <2>2, <2>3
<1>8. OnePlace(c)' /\ Over(c)'
  BY <1>7 DEF OnePlace, Over
<1>9. NoneElse(c)'
  BY <1>1, <1>3, <1>4, <1>6, <1>7 DEF InPlace, NoneElse
<1>10. HeardWhenRead(c)'
  <2>1. \A n \in DOMAIN latencies' : n[1] = c => heard[c][cid] = latencies'[n] + start
    BY <1>1, <1>4, <1>5 DEF InPlace, HeardWhenRead
  <2>2. cid \in Challenges => heard[c][cid] # NoAnswer
    BY <1>1 DEF InPlace, HeardWhenRead
  <2>3. \A n \in Challenges : n > cid => heard[c][n] = NoAnswer
    BY <1>1 DEF InPlace, HeardWhenRead
  <2> QED BY <1>3, <1>7, <2>1, <2>2, <2>3 DEF HeardWhenRead
<1> QED BY <1>2, <1>3, <1>8, <1>9, <1>10, ClientStep DEF InPlace

LEMMA ClosedInTime ==
    ASSUME MockTypes, InTime, NEW c \in Clients, Closed(c)
    PROVE  InTime'
<1>1. InPlace(c) /\ answers[c] = <<>> /\ c \in left /\ reader[c] \in {"naming", "reading"}
  BY DEF InTime, Closed
<1>2. \A d \in Clients \ {c} : Same(d)
  BY DEF Closed, Same, SameLatencies, MockTypes, ConnectionTypes, serverSide, ghost
<1>3. UNCHANGED <<cid, start, stage, unsent, log, heard, latencies, readAt, left, answers, unanswered>>
      /\ reader'[c] = "none" /\ socket'[c] = 0
  BY DEF Closed, serverSide, ghost, MockTypes, ConnectionTypes
<1>4. Opening(c)' = <<>> /\ Mine' = Mine
  BY <1>3 DEF Opening, Mine
<1>5. ~Awaits(c)' /\ ~Holds(c)' /\ ~Sent(c)' /\ ~Crediting(c)' /\ ~Crediting(c) /\ Has(c)' = Has(c)
  <2>1. ~Awaits(c)'
    <3>1. unsent \in Seq(Sockets)
      BY DEF MockTypes, BroadcasterTypes
    <3>2. \A i \in DOMAIN unsent : unsent[i] # 0
      BY <3>1 DEF Sockets
    <3> QED BY <1>3, <3>2 DEF Awaits
  <2>2. ~Sent(c)'
    <3>1. Append(<<>>, Mine) # <<>>
      BY ShortSequences
    <3> QED BY <1>1, <1>3, <1>4, <3>1 DEF Sent
  <2> QED BY <1>1, <1>3, <2>1, <2>2 DEF Holds, Crediting, Has
<1>6. OnePlace(c)' /\ Over(c)'
  BY <1>5 DEF OnePlace, Over
<1>7. NoneElse(c)'
  BY <1>1, <1>3, <1>4, <1>5 DEF NoneElse
<1>8. HeardWhenRead(c)'
  BY <1>1, <1>3, <1>5 DEF InPlace, HeardWhenRead
<1> QED BY <1>2, <1>3, <1>6, <1>7, <1>8, ClientStep DEF InPlace

LEMMA NewChallengeInTime ==
    ASSUME MockTypes, NoneReused, InTime, NewChallenge
    PROVE  InTime'
<1>1. /\ UNCHANGED <<infos, socket, answers, left, reader, readAt, unanswered, log, heard>>
      /\ cid' = cid + 1 /\ stage' = "sending" /\ stage = "logging" /\ unsent' = infos
      /\ latencies' = NoLatencies /\ cid < MaxChallenges
  BY DEF NewChallenge, ghost
<1>2. cid \in Nat /\ cid' \in Challenges
  BY <1>1, MockAssumption DEF MockTypes, BroadcasterTypes, Challenges
<1>3. SentOnceEach'
  BY <1>1 DEF SentOnceEach, NoneReused
<1>4. ASSUME NEW c \in Clients PROVE InPlace(c)'
  <2>1. InPlace(c) /\ ~Holds(c) /\ ~Sent(c) /\ ~Crediting(c)
    BY <1>1 DEF InTime, InPlace, Over
  <2>2. answers'[c] = Opening(c)' /\ (Opening(c)' = <<>> \/ Opening(c)' = <<Name>>)
    BY <1>1, <2>1 DEF InPlace, NoneElse, Opening
  <2>3. ~Sent(c)'
    <3> DEFINE m == Mine'
    <3> HIDE DEF m
    <3>1. Append(<<>>, m) # <<>> /\ Append(<<Name>>, m) # <<Name>>
      BY ShortSequences
    <3>2. Append(Opening(c)', m) # Opening(c)'
      BY <2>2, <3>1
    <3> QED BY <2>2, <3>2 DEF Sent, m
  <2>4. ~Holds(c)' /\ ~Crediting(c)' /\ ~Has(c)'
    BY <1>1, <2>1, NoneInLatencies DEF Holds, Crediting, Has
  <2>5. OnePlace(c)' /\ Over(c)'
    BY <1>1, <2>3, <2>4 DEF OnePlace, Over
  <2>6. NoneElse(c)'
    BY <1>1, <2>1, <2>2, <2>4 DEF InPlace, NoneElse
  <2>7. HeardWhenRead(c)'
    <3>1. \A n \in Challenges : n > cid => heard[c][n] = NoAnswer
      BY <2>1 DEF InPlace, HeardWhenRead
    <3>2. \A n \in Challenges : n \in Int
      BY DEF Challenges
    <3>3. cid' > cid /\ \A n \in Challenges : n > cid' => n > cid
      BY <1>1, <1>2, <3>2
    <3>4. heard[c][cid'] = NoAnswer
      BY <1>2, <3>1, <3>3
    <3> QED BY <1>1, <2>4, <3>1, <3>3, <3>4 DEF HeardWhenRead, Has
  <2> QED BY <2>5, <2>6, <2>7 DEF InPlace
<1>5. LogIsFaithful'
  <2>1. Len(log) = cid /\ \A k \in DOMAIN log : log[k].cid = k /\ Faithful(log[k], k)
    BY <1>1 DEF InTime, LogIsFaithful
  <2>2. \A k \in DOMAIN log : Faithful(log[k], k)'
    BY <1>1, <2>1 DEF Faithful, HeardOn, Players
  <2>3. cid = cid' - 1
    BY <1>1, <1>2
  <2> QED BY <1>1, <2>1, <2>2, <2>3 DEF LogIsFaithful
<1> QED BY <1>1, <1>3, <1>4, <1>5 DEF InTime

LEMMA SendOneInTime == ASSUME MockTypes, InTime, SendOne PROVE InTime'
<1>1. /\ UNCHANGED <<infos, socket, answers, left, reader, readAt, cid, start, latencies, stage, log,
                     heard>>
      /\ stage = "sending" /\ unsent # <<>> /\ unsent' = Tail(unsent)
      /\ unanswered' = [c \in Clients |-> IF socket[c] = Head(unsent) THEN Append(unanswered[c], cid)
                                          ELSE unanswered[c]]
  BY DEF SendOne, ghost
<1>2. unsent \in Seq(Sockets)
  BY DEF MockTypes, BroadcasterTypes
<1>3. /\ Head(unsent) = unsent[1] /\ 1 \in DOMAIN unsent
      /\ \A i \in DOMAIN unsent' : i + 1 \in DOMAIN unsent /\ unsent'[i] = unsent[i + 1] /\ i + 1 # 1
      /\ \A i, j \in DOMAIN unsent' : i + 1 = j + 1 => i = j
  BY <1>1, <1>2
<1>4. \A i, j \in DOMAIN unsent : unsent[i] = unsent[j] => i = j
  BY DEF InTime, SentOnceEach
<1>5. SentOnceEach'
  <2>1. \A i, j \in DOMAIN unsent' : unsent'[i] = unsent'[j] => i + 1 = j + 1
    BY <1>3, <1>4
  <2> QED BY <1>1, <1>3, <2>1 DEF SentOnceEach
<1>6. ASSUME NEW c \in Clients PROVE InPlace(c)'
  <2>1. InPlace(c)
    BY DEF InTime
  <2>2. Awaits(c)' => Awaits(c) /\ socket[c] # Head(unsent)
    <3>1. ASSUME NEW i \in DOMAIN unsent', unsent'[i] = socket[c]
          PROVE  Awaits(c) /\ socket[c] # Head(unsent)
      <4>1. i + 1 \in DOMAIN unsent /\ unsent[i + 1] = socket[c] /\ i + 1 # 1
        BY <1>3, <3>1
      <4>2. unsent[1] # socket[c]
        BY <1>3, <1>4, <4>1
      <4> QED BY <1>3, <4>1, <4>2 DEF Awaits
    <3> QED BY <1>1, <3>1 DEF Awaits
  <2>3. Opening(c)' = Opening(c) /\ Mine' = Mine
    BY <1>1 DEF Opening, Mine
  <2>4. Sent(c)' = Sent(c) /\ Crediting(c)' = Crediting(c) /\ Has(c)' = Has(c)
    BY <1>1, <2>3 DEF Sent, Crediting, Has
  <2>5. HeardWhenRead(c)' /\ Over(c)'
    <3>1. HeardWhenRead(c)'
      BY <1>1, <2>1, <2>4 DEF InPlace, HeardWhenRead
    <3> QED BY <1>1, <3>1 DEF Over
  <2>6. CASE socket[c] = Head(unsent)
    <3>1. Awaits(c) /\ ~Awaits(c)'
      BY <1>3, <2>2, <2>6 DEF Awaits
    <3>2. ~Holds(c) /\ ~Sent(c) /\ ~Crediting(c) /\ ~Has(c)
      BY <2>1, <3>1 DEF InPlace, OnePlace
    <3>3. OnePlace(c)'
      BY <2>4, <3>1, <3>2 DEF OnePlace
    <3>4. Holds(c)' => unanswered'[c] = <<cid>>
      <4>1. c \notin left => unanswered[c] = <<>>
        BY <3>2 DEF Holds
      <4>2. unanswered'[c] = Append(unanswered[c], cid)
        BY <1>1, <2>6
      <4> QED BY <1>1, <4>1, <4>2, ShortSequences DEF Holds
    <3>5. reader[c] # "none"
      <4>1. socket[c] # 0
        BY <1>2, <1>3, <2>6 DEF Sockets
      <4> QED BY <2>1, <4>1 DEF InPlace, NoneElse
    <3>6. NoneElse(c)'
      BY <1>1, <2>1, <2>3, <2>4, <3>4, <3>5 DEF InPlace, NoneElse
    <3> QED BY <2>5, <3>3, <3>6 DEF InPlace
  <2>7. CASE socket[c] # Head(unsent)
    <3>1. Holds(c)' = Holds(c) /\ unanswered'[c] = unanswered[c]
      BY <1>1, <2>7 DEF Holds
    <3>2. OnePlace(c)'
      BY <2>1, <2>2, <2>4, <3>1 DEF InPlace, OnePlace
    <3>3. NoneElse(c)'
      BY <1>1, <2>1, <2>3, <2>4, <3>1 DEF InPlace, NoneElse
    <3> QED BY <2>5, <3>2, <3>3 DEF InPlace
  <2> QED BY <2>6, <2>7
<1>7. LogIsFaithful'
  BY <1>1, LogStaysFaithful DEF InTime
<1> QED BY <1>1, <1>5, <1>6, <1>7 DEF InTime

\* Neither a sleep nor a log moves an answer.
LEMMA StageInTime ==
    ASSUME NEW c \in Clients, InPlace(c),
           UNCHANGED <<cid, start, unsent, socket, answers, left, reader, readAt, unanswered,
                       latencies, heard>>,
           stage' = "logging" => ~Holds(c) /\ ~Sent(c) /\ ~Crediting(c)
    PROVE  InPlace(c)'
<1>1. Opening(c)' = Opening(c) /\ Mine' = Mine
  BY DEF Opening, Mine
<1>2. /\ Awaits(c)' = Awaits(c) /\ Holds(c)' = Holds(c) /\ Sent(c)' = Sent(c)
      /\ Crediting(c)' = Crediting(c) /\ Has(c)' = Has(c)
  BY <1>1 DEF Awaits, Holds, Sent, Crediting, Has
<1>3. OnePlace(c)'
  BY <1>2 DEF InPlace, OnePlace
<1>4. NoneElse(c)'
  BY <1>1, <1>2 DEF InPlace, NoneElse
<1>5. HeardWhenRead(c)'
  BY <1>2 DEF InPlace, HeardWhenRead
<1>6. Over(c)'
  BY <1>2 DEF Over
<1> QED BY <1>3, <1>4, <1>5, <1>6 DEF InPlace

LEMMA SleepInTime == ASSUME MockTypes, InTime, Sleep PROVE InTime'
<1>1. /\ UNCHANGED <<cid, start, unsent, socket, answers, left, reader, readAt, unanswered,
                     latencies, heard, log>>
      /\ stage = "sending" /\ stage' = "sleeping" /\ unsent = <<>>
  BY DEF Sleep, ghost
<1>2. \A c \in Clients : InPlace(c)'
  BY <1>1, StageInTime DEF InTime
<1>3. LogIsFaithful'
  BY <1>1, LogStaysFaithful DEF InTime
<1> QED BY <1>1, <1>2, <1>3 DEF InTime, SentOnceEach

LEMMA LogResultInTime == ASSUME MockTypes, paced, InTime, LogResult PROVE InTime'
<1> DEFINE e == [cid |-> cid, responses |-> latencies]
<1>1. /\ UNCHANGED <<cid, start, unsent, socket, answers, left, reader, readAt, unanswered,
                     latencies, heard>>
      /\ stage = "sleeping" /\ stage' = "logging" /\ log' = Append(log, e) /\ Settled
  BY DEF LogResult, ghost
<1>2. ASSUME NEW c \in Clients PROVE ~Holds(c) /\ ~Sent(c) /\ ~Crediting(c) /\ InPlace(c)
  <2>1. (c \in left \/ unanswered[c] = <<>>) /\ answers[c] = <<>> /\ reader[c] \in {"none", "reading"}
    BY <1>1 DEF Settled
  <2>2. ~Sent(c)
    <3>1. Opening(c) = <<>> /\ Append(<<>>, Mine) # <<>>
      BY <2>1, ShortSequences DEF Opening
    <3> QED BY <2>1, <3>1 DEF Sent
  <2> QED BY <2>1, <2>2 DEF Holds, Crediting, InTime
<1>3. \A c \in Clients : InPlace(c)'
  BY <1>1, <1>2, StageInTime
<1>4. cid \in Challenges /\ start \in Nat
  BY <1>1 DEF MockTypes, BroadcasterTypes, UnderWay
<1>5. LogIsFaithful'
  <2> DEFINE n == Len(log)
  <2>1. log \in Seq([cid : Nat, responses : Latencies]) /\ n = cid - 1 /\ cid \in Nat
    BY <1>1, <1>4 DEF MockTypes, BroadcasterTypes, InTime, LogIsFaithful
  <2>2. /\ Len(log') = cid /\ DOMAIN log' = 1 .. cid /\ log'[cid] = e
        /\ \A k \in 1 .. cid : k = cid \/ (k \in DOMAIN log /\ log'[k] = log[k])
    <3>1. Len(log') = n + 1 /\ log'[n + 1] = e /\ \A k \in 1 .. n : k \in DOMAIN log /\ log'[k] = log[k]
      BY <1>1, <2>1
    <3>2. DOMAIN log' = 1 .. n + 1
      BY <1>1, <2>1
    <3>3. n + 1 = cid /\ \A k \in 1 .. cid : k = cid \/ k \in 1 .. n
      BY <2>1
    <3>4. Len(log') = cid /\ DOMAIN log' = 1 .. cid /\ log'[cid] = e
      BY <3>1, <3>2, <3>3
    <3>5. \A k \in 1 .. n : k \in DOMAIN log /\ log'[k] = log[k]
      BY <3>1
    <3> HIDE DEF n, e
    <3> QED BY <3>3, <3>4, <3>5
  <2>3. ASSUME NEW k \in DOMAIN log' PROVE log'[k].cid = k /\ Faithful(log[k], k)'
    <3>1. CASE k = cid
      <4>1. log'[k] = e /\ e.cid = k
        BY <1>1, <2>2, <3>1
      <4>2. Faithful(log[k], k)'
        <5>1. log'[k].responses = latencies
          BY <4>1
        <5>2. \A c \in Clients : heard[c][cid] # NoAnswer <=> Has(c)
          BY <1>2, <1>4 DEF InPlace, HeardWhenRead
        <5>3. DOMAIN latencies \subseteq Registrations
          BY LatenciesAre DEF MockTypes, BroadcasterTypes
        <5>4. \A m \in DOMAIN latencies : m[1] \in Clients
          BY <5>3 DEF Registrations
        <5>5. \A m \in DOMAIN latencies : heard[m[1]][cid] = latencies[m] + start
          BY <1>2, <5>4 DEF InPlace, HeardWhenRead
        <5> HIDE DEF e
        <5>6. Players(log'[k]) = {c \in Clients : heard[c][cid] # NoAnswer}
          BY <5>1, <5>2, <5>4 DEF Players, Has
        <5>7. Players(log[k])' = HeardOn(k)'
          BY <1>1, <3>1, <5>6 DEF HeardOn, Players
        <5>8. \E s \in Nat : \A m \in DOMAIN log'[k].responses : heard'[m[1]][k] = log'[k].responses[m] + s
          BY <1>1, <1>4, <3>1, <5>1, <5>5
        <5> QED BY <5>7, <5>8 DEF Faithful
      <4> QED BY <4>1, <4>2
    <3>2. CASE k # cid
      <4>1. k \in DOMAIN log /\ log'[k] = log[k]
        BY <2>2, <3>2
      <4>2. log[k].cid = k /\ Faithful(log[k], k)
        BY <4>1 DEF InTime, LogIsFaithful
      <4>3. Players(log[k])' = HeardOn(k)'
        BY <1>1, <4>1, <4>2 DEF Faithful, HeardOn, Players
      <4>4. \E s \in Nat : \A m \in DOMAIN log'[k].responses : heard'[m[1]][k] = log'[k].responses[m] + s
        BY <1>1, <4>1, <4>2 DEF Faithful
      <4> QED BY <4>1, <4>2, <4>3, <4>4 DEF Faithful
    <3> QED BY <3>1, <3>2
  <2> QED BY <1>1, <2>2, <2>3 DEF LogIsFaithful
<1>6. SentOnceEach'
  BY <1>1 DEF InTime, SentOnceEach
<1> QED BY <1>1, <1>3, <1>5, <1>6 DEF InTime

LEMMA InTimeKept ==
    ASSUME MockTypes, paced, NoneReused, InTime, MockNext
    PROVE  InTime'
<1>1. CASE Tick \/ NewChallenge \/ SendOne \/ Sleep \/ LogResult
  BY <1>1, TickInTime, NewChallengeInTime, SendOneInTime, SleepInTime, LogResultInTime
<1>2. ASSUME NEW c \in Clients,
             \/ Join(c) \/ Answer(c) \/ Quit(c)
             \/ ReadName(c) \/ RecvAnswer(c) \/ Credit(c) \/ Closed(c)
      PROVE  InTime'
  BY <1>2, JoinInTime, AnswerInTime, QuitInTime, ReadNameInTime, RecvAnswerInTime, CreditInTime,
     ClosedInTime
<1> QED BY <1>1, <1>2 DEF MockNext

-----------------------------------------------------------------------------
LEMMA MockInitially ==
    ASSUME MockInit
    PROVE  MockTypes /\ Accounted /\ InTime
<1>1. MockTypes
  <2>1. BroadcasterTypes
    <3>1. latencies \in [{} -> Int] /\ {} \in SUBSET Registrations
      BY DEF MockInit
    <3>2. latencies \in Latencies
      BY <3>1 DEF Latencies
    <3> QED BY <3>2, MockAssumption DEF MockInit, BroadcasterTypes
  <2>2. ConnectionTypes
    BY DEF MockInit, ConnectionTypes, Heard
  <2> QED BY <2>1, <2>2 DEF MockInit, MockTypes, UnderWay, Known
<1>2. log = <<>> /\ DOMAIN log = {} /\ Len(log) = 0
  BY EmptySeq DEF MockInit
<1>3. Accounted
  <2>1. ASSUME NEW c \in Clients PROVE Cardinality(Credited(c)) + Current(c) + InHand(c) <= reads[c]
    <3>1. Credited(c) = {} /\ Current(c) = 0 /\ InHand(c) = 0 /\ reads[c] = 0
      BY <1>2 DEF MockInit, Credited, Current, Has, InHand
    <3>2. Cardinality(Credited(c)) = 0
      BY <3>1, FS_EmptySet
    <3> QED BY <3>1, <3>2
  <2> QED BY <2>1 DEF Accounted
<1>4. InTime
  <2>1. SentOnceEach
    BY EmptySeq DEF MockInit, SentOnceEach
  <2>2. ASSUME NEW c \in Clients PROVE InPlace(c)
    <3>1. Opening(c) = <<>> /\ ~Awaits(c) /\ ~Holds(c) /\ ~Crediting(c) /\ ~Has(c)
      BY EmptySeq DEF MockInit, Opening, Awaits, Holds, Crediting, Has
    <3>2. ~Sent(c)
      <4>1. Append(<<>>, Mine) # <<>>
        BY ShortSequences
      <4> QED BY <3>1, <4>1 DEF MockInit, Sent
    <3>3. OnePlace(c) /\ NoneElse(c) /\ Over(c)
      BY <3>1, <3>2 DEF MockInit, OnePlace, NoneElse, Over
    <3>4. HeardWhenRead(c)
      BY <3>1 DEF MockInit, HeardWhenRead, Has
    <3> QED BY <3>3, <3>4 DEF InPlace
  <2>3. LogIsFaithful
    BY <1>2 DEF MockInit, LogIsFaithful
  <2> QED BY <2>1, <2>2, <2>3 DEF InTime
<1> QED BY <1>1, <1>3, <1>4

LEMMA MockUnchanged ==
    ASSUME UNCHANGED mockVars
    PROVE  /\ MockTypes => MockTypes'
           /\ Accounted => Accounted'
           /\ paced' = paced /\ NoneReused' = NoneReused
           /\ InTime => InTime'
<1>1. UNCHANGED <<paced, clock, infos, socket, answers, left, reader, readAt, unanswered, cid, start,
                  latencies, stage, unsent, log, behind, heard, reads>>
  BY DEF mockVars
<1>2. MockTypes => MockTypes'
  BY <1>1 DEF MockTypes, BroadcasterTypes, ConnectionTypes, UnderWay, Known
<1>3. Accounted => Accounted'
  BY <1>1 DEF Accounted, Credited, Current, Has, InHand
<1>4. InTime => InTime'
  <2>1. \A c \in Clients : Same(c)
    BY <1>1 DEF Same, SameLatencies
  <2>2. InTime => \A c \in Clients : InPlace(c)'
    BY <1>1, <2>1, Undisturbed DEF InTime
  <2>3. \A k \in DOMAIN log : Faithful(log[k], k) => Faithful(log[k], k)'
    BY <1>1 DEF Faithful, HeardOn
  <2>4. LogIsFaithful => LogIsFaithful'
    BY <1>1, <2>3 DEF LogIsFaithful
  <2> QED BY <1>1, <2>2, <2>4 DEF InTime, SentOnceEach
<1> QED BY <1>1, <1>2, <1>3, <1>4 DEF NoneReused

(***************************************************************************)
(* Whatever runs together, is late or comes back, no client is credited    *)
(* with more challenges than answers were read from it.                    *)
(***************************************************************************)
THEOREM CreditsAccounted == MockSpec => []CreditsAreAnswers
<1>1. MockInit => MockTypes /\ Accounted
  BY MockInitially
<1>2. MockTypes /\ Accounted /\ [MockNext]_mockVars => (MockTypes /\ Accounted)'
  BY MockTypesKept, AccountedKept, MockUnchanged
<1>3. MockTypes /\ Accounted => CreditsAreAnswers
  <2>1. ASSUME MockTypes, Accounted, NEW c \in Clients
        PROVE  Cardinality({k \in DOMAIN log : c \in Players(log[k])}) <= reads[c]
    <3>1. {k \in DOMAIN log : c \in Players(log[k])} = Credited(c)
      BY DEF Credited
    <3>2. /\ Cardinality(Credited(c)) \in Nat /\ Current(c) \in {0, 1} /\ InHand(c) \in {0, 1}
          /\ Cardinality(Credited(c)) + Current(c) + InHand(c) <= reads[c] /\ reads[c] \in Nat
      BY <2>1, CountIsNatural DEF Accounted, MockTypes, ConnectionTypes
    <3>3. Cardinality(Credited(c)) <= reads[c]
      BY <3>2
    <3> QED BY <3>1, <3>3
  <2> QED BY <2>1 DEF CreditsAreAnswers
<1> QED BY <1>1, <1>2, <1>3, PTL DEF MockSpec

LEMMA FirstInFaithfulLogs ==
    ASSUME MockTypes, LogIsFaithful, NEW k \in DOMAIN log
    PROVE  /\ Players(log[k]) = HeardOn(log[k].cid)
           /\ \A w \in Winners(log[k]) : \A c \in HeardOn(log[k].cid) :
                 heard[w[1]][log[k].cid] <= heard[c][log[k].cid]
<1> DEFINE r == log[k].responses
<1>1. log[k].cid = k /\ Players(log[k]) = HeardOn(k)
  BY DEF LogIsFaithful, Faithful
<1>2. \A m \in DOMAIN r : r[m] \in Int
  <2> DEFINE E == [cid : Nat, responses : Latencies]
  <2>1. log \in Seq(E)
    BY DEF MockTypes, BroadcasterTypes
  <2>2. log[k] \in E
    <3> HIDE DEF E
    <3> QED BY <2>1
  <2>3. r \in Latencies
    BY <2>2
  <2> HIDE DEF r
  <2> QED BY <2>3, LatenciesAre
<1>3. PICK s \in Nat : \A m \in DOMAIN r : heard[m[1]][k] = r[m] + s
  BY DEF LogIsFaithful, Faithful
<1>4. ASSUME NEW w \in Winners(log[k]), NEW c \in HeardOn(k)
      PROVE  heard[w[1]][k] <= heard[c][k]
  <2>1. w \in DOMAIN r /\ \A m \in DOMAIN r : r[w] <= r[m]
    BY DEF Winners
  <2>2. PICK m \in DOMAIN r : m[1] = c
    BY <1>1, <1>4 DEF Players
  <2>3. r[w] \in Int /\ r[m] \in Int /\ r[w] <= r[m]
        /\ heard[w[1]][k] = r[w] + s /\ heard[c][k] = r[m] + s
    BY <1>2, <1>3, <2>1, <2>2
  <2> HIDE DEF r
  <2> QED BY <2>3
<1> QED BY <1>1, <1>4

(***************************************************************************)
(* The entries of the mock server's results file, over any clients and any *)
(* connections of theirs: where every challenge outlasts the answers to it *)
(* and no socket number comes back, an entry has all clients whose answers *)
(* were read and no others, and the one read first wins.  Names garbled by *)
(* an answer are included; whether an answer is right nothing looks at.    *)
(***************************************************************************)
THEOREM FirstReadIsLogged == MockSpec => []FirstReadWins
<1> DEFINE Inv == MockTypes /\ (paced /\ NoneReused => InTime)
<1>1. MockInit => Inv
  BY MockInitially
<1>2. Inv /\ [MockNext]_mockVars => Inv'
  <2>1. ASSUME Inv, MockNext PROVE Inv'
    <3>1. MockTypes' /\ paced' = paced /\ (NoneReused' => NoneReused)
      BY <2>1, MockTypesKept, ReuseStays
    <3>2. ASSUME paced', NoneReused' PROVE InTime'
      BY <2>1, <3>1, <3>2, InTimeKept
    <3> QED BY <3>1, <3>2
  <2>2. ASSUME Inv, UNCHANGED mockVars PROVE Inv'
    BY <2>2, MockUnchanged
  <2> QED BY <2>1, <2>2
<1>3. Inv => FirstReadWins
  BY FirstInFaithfulLogs DEF FirstReadWins, InTime
<1> QED BY <1>1, <1>2, <1>3, PTL DEF MockSpec


-----------------------------------------------------------------------------
(***************************************************************************)
(* BlastRounds.  The server's log is that of a fair contest.  What makes   *)
(* it so is the order of two things: a challenge becomes current before it *)
(* is queued for any client, so that nobody can have answered it when it   *)
(* starts, and ids are drawn in order, so that no entry of the log is a    *)
(* challenge that is still to be opened, of a round or of a burst.  What   *)
(* ties an answer to its challenge is the id in front of it: an answer     *)
(* without one is tied to nothing, and is bound only to come in while the  *)
(* round it counts for is under way.                                       *)
(***************************************************************************)

BroadcasterSteps == {"draw", "publish", "push", "window", "log", "burst", "burstLog"}
AnswerIds == Nat \union {Bare}
CreditHandlers == [pc : {"recv", "credit"}, cid : AnswerIds, now : Nat]

IsBroadcaster(b) ==
    b = [pc |-> b.pc, cid |-> b.cid, snapshot |-> b.snapshot, counter |-> b.counter, left |-> b.left]

IsChallenge(c) == c = [id |-> c.id, start |-> c.start, answers |-> c.answers]

IsList(s) == s \in Seq({s[i] : i \in DOMAIN s})

RoundTypes ==
    /\ challengeId \in 1 .. MaxIds + 1
    /\ IsBroadcaster(bcast) /\ bcast.pc \in BroadcasterSteps /\ bcast.cid \in 0 .. MaxIds
    /\ IsChallenge(current) /\ current.id \in Nat /\ current.start \in 0 .. time
    /\ IsList(entries)

RoundClientTypes ==
    /\ time \in Nat
    /\ queue \in [BlastClients -> Seq(Nat)] /\ sent \in [BlastClients -> Seq(AnswerIds)]
    /\ handling \in [BlastClients -> CreditHandlers]

\* An id that was drawn and is not logged yet is the broadcaster's.
Drawn == bcast.pc \notin {"draw", "burst"}

RoundsInOrder ==
    /\ Drawn => bcast.cid = challengeId - 1 /\ bcast.cid >= 1
    /\ bcast.pc \in {"push", "window", "log"} => current.id = bcast.cid
    /\ bcast.pc \in {"publish", "burstLog"} => current.id < bcast.cid
    /\ bcast.pc \in {"draw", "burst"} => current.id < challengeId
    /\ \A i \in DOMAIN entries :
          entries[i].cid \in Nat /\ entries[i].cid < (IF Drawn THEN bcast.cid ELSE challengeId)

\* The greatest id that a client can have been sent.
LastQueued == IF bcast.pc \in {"publish", "push"} THEN challengeId - 2 ELSE challengeId - 1

\* Nothing that a client has, or has answered, is newer; and an answer to the
\* current challenge was stamped after it started.
AnswersInTime ==
    \A k \in BlastClients :
        /\ \A i \in 1 .. Len(queue[k]) : queue[k][i] <= LastQueued
        /\ \A i \in 1 .. Len(sent[k]) : sent[k][i] <= LastQueued
        /\ handling[k].pc = "credit" =>
              /\ handling[k].cid <= LastQueued
              /\ handling[k].cid = current.id => handling[k].now >= current.start

\* Those that put the id in front always do.
IdsInFront ==
    \A k \in TaggingClients :
        /\ \A i \in 1 .. Len(sent[k]) : sent[k][i] # Bare
        /\ handling[k].cid # Bare

RoundsInv == RoundTypes /\ RoundClientTypes /\ RoundsInOrder /\ AnswersInTime /\ IdsInFront

-----------------------------------------------------------------------------
(* Records and sequences.                                                  *)

BcastMoved(b, x) == [b EXCEPT !.pc = x]
BcastGiven(b, x, y) == [b EXCEPT !.pc = x, !.cid = y]
Copied(b, x, z) == [b EXCEPT !.pc = x, !.snapshot = z]
CountedDown(b, x, y) == [b EXCEPT !.pc = x, !.cid = y, !.left = @ - 1]

BcastIs(d, x, y, z) == IsBroadcaster(d) /\ d.pc = x /\ d.cid = y /\ d.snapshot = z

LEMMA BroadcasterMoved ==
    ASSUME NEW b, IsBroadcaster(b), NEW x, NEW y, NEW z
    PROVE  /\ BcastIs(BcastMoved(b, x), x, b.cid, b.snapshot)
           /\ BcastIs(BcastGiven(b, x, y), x, y, b.snapshot)
           /\ BcastIs(Copied(b, x, z), x, b.cid, z)
           /\ BcastIs(CountedDown(b, x, y), x, y, b.snapshot)
<1>1. PICK p, c, s, n, l : b = [pc |-> p, cid |-> c, snapshot |-> s, counter |-> n, left |-> l]
  BY DEF IsBroadcaster
<1> DEFINE e == [b EXCEPT !.pc = x]
           f == [e EXCEPT !.cid = y]
<1>2. e = [pc |-> x, cid |-> c, snapshot |-> s, counter |-> n, left |-> l]
  BY <1>1
<1>3. /\ BcastMoved(b, x) = e
      /\ BcastGiven(b, x, y) = f
      /\ Copied(b, x, z) = [e EXCEPT !.snapshot = z]
      /\ CountedDown(b, x, y) = [f EXCEPT !.left = @ - 1]
  BY Zenon DEF BcastMoved, BcastGiven, Copied, CountedDown
<1> HIDE DEF e
<1>4. f = [pc |-> x, cid |-> y, snapshot |-> s, counter |-> n, left |-> l]
  BY <1>2
<1> HIDE DEF f
<1>5. b.cid = c /\ b.snapshot = s
  BY <1>1
<1>6. BcastIs(BcastMoved(b, x), x, c, s) /\ BcastIs(BcastGiven(b, x, y), x, y, s)
  BY <1>2, <1>3, <1>4 DEF BcastIs, IsBroadcaster
<1>7. BcastIs(Copied(b, x, z), x, c, z)
  BY <1>2, <1>3 DEF BcastIs, IsBroadcaster
<1>8. BcastIs(CountedDown(b, x, y), x, y, s)
  BY <1>3, <1>4 DEF BcastIs, IsBroadcaster
<1> QED BY <1>5, <1>6, <1>7, <1>8

LEMMA ChallengeFields ==
    ASSUME NEW c, IsChallenge(c), NEW a, NEW d, d = [c EXCEPT !.answers = a]
    PROVE  IsChallenge(d) /\ d.id = c.id /\ d.start = c.start /\ d.answers = a
<1>1. PICK i, t, e : c = [id |-> i, start |-> t, answers |-> e]
  BY DEF IsChallenge
<1> QED BY <1>1 DEF IsChallenge

LEMMA ListAppended ==
    ASSUME NEW s, IsList(s), NEW e
    PROVE  /\ IsList(Append(s, e))
           /\ \A i \in DOMAIN Append(s, e) :
                 Append(s, e)[i] = e \/ (i \in DOMAIN s /\ Append(s, e)[i] = s[i])
<1> DEFINE S == {s[i] : i \in DOMAIN s} \union {e}
           t == Append(s, e)
<1>1. s \in Seq(S) /\ e \in S
  BY DEF IsList
<1>2. /\ t \in Seq(S) /\ Len(s) \in Nat /\ Len(t) = Len(s) + 1 /\ DOMAIN s = 1 .. Len(s)
      /\ t[Len(s) + 1] = e /\ \A i \in 1 .. Len(s) : t[i] = s[i]
  <2> HIDE DEF S
  <2> QED BY <1>1
<1>3. Len(t) \in Nat /\ t \in [1 .. Len(t) -> S]
  <2> HIDE DEF S, t
  <2> QED BY <1>2
<1>4. IsList(t)
  <2> HIDE DEF S, t
  <2>1. t \in [1 .. Len(t) -> {t[i] : i \in DOMAIN t}]
    BY <1>3
  <2> QED BY <2>1, <1>3 DEF IsList
<1>5. DOMAIN t = 1 .. Len(s) + 1
  <2> HIDE DEF S, t
  <2> QED BY <1>2, <1>3
<1> HIDE DEF t
<1>6. \A i \in DOMAIN t : t[i] = e \/ (i \in DOMAIN s /\ t[i] = s[i])
  BY <1>2, <1>5
<1> QED BY <1>4, <1>6 DEF t

LEMMA AppendFacts ==
    ASSUME NEW S, NEW q \in Seq(S), NEW e \in S
    PROVE  /\ Append(q, e) \in Seq(S) /\ Len(Append(q, e)) = Len(q) + 1 /\ Len(q) \in Nat
           /\ Append(q, e)[Len(q) + 1] = e
           /\ \A i \in 1 .. Len(q) : Append(q, e)[i] = q[i]
OBVIOUS

-----------------------------------------------------------------------------
(* The broadcaster's steps, and what each leaves of the round.             *)

LEMMA Drawing ==
    ASSUME RoundTypes, Draw
    PROVE  /\ bcast.pc = "draw" /\ bcast'.pc = "publish" /\ IsBroadcaster(bcast')
           /\ bcast'.cid = challengeId /\ challengeId' = challengeId + 1
           /\ challengeId <= MaxIds
           /\ UNCHANGED <<time, current, entries, queue, sent, handling>>
<1>1. bcast' = BcastGiven(bcast, "publish", challengeId)
  BY Zenon DEF Draw, BcastGiven
<1>2. BcastIs(bcast', "publish", challengeId, bcast.snapshot)
  BY <1>1, BroadcasterMoved DEF RoundTypes
<1> QED BY <1>2 DEF Draw, BcastIs

LEMMA Publishing ==
    ASSUME RoundTypes, Publish
    PROVE  /\ bcast.pc = "publish" /\ bcast'.pc = "push" /\ IsBroadcaster(bcast')
           /\ bcast'.cid = bcast.cid
           /\ current' = [id |-> bcast.cid, start |-> time, answers |-> NoAnswers]
           /\ UNCHANGED <<time, challengeId, entries, queue, sent, handling>>
<1>1. bcast' = BcastMoved(bcast, "push")
  BY Zenon DEF Publish, BcastMoved
<1>2. BcastIs(bcast', "push", bcast.cid, bcast.snapshot)
  BY <1>1, BroadcasterMoved DEF RoundTypes
<1> QED BY <1>2 DEF Publish, BcastIs

LEMMA Pushing ==
    ASSUME RoundTypes, Push
    PROVE  /\ bcast.pc = "push" /\ bcast'.pc = "window" /\ IsBroadcaster(bcast')
           /\ bcast'.cid = bcast.cid /\ queue' = Pushed(bcast.cid)
           /\ UNCHANGED <<time, challengeId, current, entries, sent, handling>>
<1>1. bcast' = BcastMoved(bcast, "window")
  BY Zenon DEF Push, BcastMoved
<1>2. BcastIs(bcast', "window", bcast.cid, bcast.snapshot)
  BY <1>1, BroadcasterMoved DEF RoundTypes
<1> QED BY <1>2 DEF Push, BcastIs

LEMMA TakingSnapshot ==
    ASSUME RoundTypes, Snapshot
    PROVE  /\ bcast.pc = "window" /\ bcast'.pc = "log" /\ IsBroadcaster(bcast')
           /\ bcast'.cid = bcast.cid /\ bcast'.snapshot = current.answers
           /\ UNCHANGED <<time, challengeId, current, entries, queue, sent, handling>>
<1>1. bcast' = Copied(bcast, "log", current.answers)
  BY Zenon DEF Snapshot, Copied
<1>2. BcastIs(bcast', "log", bcast.cid, current.answers)
  BY <1>1, BroadcasterMoved DEF RoundTypes
<1> QED BY <1>2 DEF Snapshot, BcastIs

LEMMA Logging ==
    ASSUME RoundTypes, Log
    PROVE  /\ bcast.pc = "log" /\ bcast'.pc \in {"draw", "burst"} /\ IsBroadcaster(bcast')
           /\ bcast'.cid = 0 /\ Logged(bcast.cid, bcast.snapshot)
           /\ UNCHANGED <<time, challengeId, current, queue, sent, handling>>
<1>1. PICK p \in {"draw", "burst"} : \E n, l :
          bcast' = [pc |-> p, cid |-> 0, snapshot |-> NoAnswers, counter |-> n, left |-> l]
  BY DEF Log
<1> QED BY <1>1 DEF Log, IsBroadcaster

LEMMA Bursting ==
    ASSUME RoundTypes, Burst
    PROVE  /\ bcast.pc = "burst" /\ bcast'.pc = "burstLog" /\ IsBroadcaster(bcast')
           /\ bcast'.cid = challengeId /\ challengeId' = challengeId + 1
           /\ challengeId <= MaxIds /\ queue' = Pushed(challengeId)
           /\ UNCHANGED <<time, current, entries, sent, handling>>
<1>1. bcast' = BcastGiven(bcast, "burstLog", challengeId)
  BY Zenon DEF Burst, BcastGiven
<1>2. BcastIs(bcast', "burstLog", challengeId, bcast.snapshot)
  BY <1>1, BroadcasterMoved DEF RoundTypes
<1> QED BY <1>2 DEF Burst, BcastIs

LEMMA LoggingBurst ==
    ASSUME RoundTypes, BurstLog
    PROVE  /\ bcast.pc = "burstLog" /\ bcast'.pc \in {"draw", "burst"} /\ IsBroadcaster(bcast')
           /\ bcast'.cid = 0 /\ Logged(bcast.cid, NoAnswers)
           /\ UNCHANGED <<time, challengeId, current, queue, sent, handling>>
<1> DEFINE p == IF bcast.left = 1 THEN "draw" ELSE "burst"
<1>1. bcast' = CountedDown(bcast, p, 0)
  BY Zenon DEF BurstLog, CountedDown
<1>2. p \in {"draw", "burst"}
  OBVIOUS
<1> HIDE DEF p
<1>3. BcastIs(bcast', p, 0, bcast.snapshot)
  BY <1>1, BroadcasterMoved DEF RoundTypes
<1> QED BY <1>2, <1>3 DEF BurstLog, BcastIs

-----------------------------------------------------------------------------
(* The invariant.                                                          *)

LEMMA QuietClients ==
    ASSUME \A k \in BlastClients : Len(queue[k]) = 0 /\ Len(sent[k]) = 0 /\ handling[k].pc # "credit"
    PROVE  AnswersInTime
<1>1. \A n : n = 0 => 1 .. n = {}
  <2>1. \A n \in Int : n < 1 => 1 .. n = {}
    OBVIOUS
  <2> QED BY <2>1
<1> QED BY <1>1, Zenon DEF AnswersInTime

LEMMA RoundsInitOK == ASSUME RoundsInit PROVE RoundsInv
<1> USE DEF RoundsInit
<1>1. RoundTypes
  <2>1. IsList(entries)
    BY DEF IsList
  <2>2. IsBroadcaster(bcast) /\ IsChallenge(current)
    BY DEF IsBroadcaster, IsChallenge
  <2> QED BY <2>1, <2>2, RoundsAssumption DEF RoundTypes, BroadcasterSteps
<1>2. RoundClientTypes
  <2>1. Idle \in CreditHandlers
    BY DEF Idle, CreditHandlers, AnswerIds
  <2> QED BY <2>1 DEF RoundClientTypes
<1>3. RoundsInOrder
  BY DEF RoundsInOrder, Drawn
<1>4. AnswersInTime
  <2>1. Idle.pc = "recv" /\ Len(<<>>) = 0
    BY DEF Idle
  <2>2. \A k \in BlastClients : queue[k] = <<>> /\ sent[k] = <<>> /\ handling[k] = Idle
    OBVIOUS
  <2>3. \A k \in BlastClients : Len(queue[k]) = 0 /\ Len(sent[k]) = 0 /\ handling[k].pc # "credit"
    <3>1. \A k \in BlastClients : handling[k].pc = "recv"
      BY <2>1, <2>2
    <3>2. \A k \in BlastClients : Len(queue[k]) = 0 /\ Len(sent[k]) = 0
      BY <2>1, <2>2, Zenon
    <3> QED BY <3>1, <3>2
  <2> QED BY <2>3, QuietClients, Zenon
<1>5. IdsInFront
  <2>1. Idle.cid # Bare /\ Len(<<>>) = 0
    BY DEF Idle, Bare
  <2>2. \A k \in TaggingClients : sent[k] = <<>> /\ handling[k] = Idle
    BY RoundsAssumption
  <2>3. \A k \in TaggingClients : Len(sent[k]) = 0 /\ handling[k].cid # Bare
    BY <2>1, <2>2, Zenon
  <2>4. \A n : n = 0 => 1 .. n = {}
    <3>1. \A n \in Int : n < 1 => 1 .. n = {}
      OBVIOUS
    <3> QED BY <3>1
  <2> QED BY <2>3, <2>4, Zenon DEF IdsInFront
<1> QED BY <1>1, <1>2, <1>3, <1>4, <1>5 DEF RoundsInv

LEMMA LastQueuedIsNatural == ASSUME RoundsInv PROVE LastQueued \in Nat
<1>1. challengeId \in 1 .. MaxIds + 1 /\ MaxIds \in Nat
  BY RoundsAssumption DEF RoundsInv, RoundTypes
<1>2. bcast.pc \in {"publish", "push"} => challengeId >= 2
  BY <1>1 DEF RoundsInv, RoundTypes, RoundsInOrder, Drawn
<1> QED BY <1>1, <1>2 DEF LastQueued

LEMMA LoggedAppends ==
    ASSUME IsList(entries), NEW c \in Nat, NEW a, Logged(c, a)
    PROVE  /\ IsList(entries')
           /\ \A i \in DOMAIN entries' :
                 entries'[i].cid = c \/ (i \in DOMAIN entries /\ entries'[i] = entries[i])
<1>1. PICK w : entries' = Append(entries, [cid |-> c, winner |-> w, players |-> a])
  BY DEF Logged
<1> DEFINE e == [cid |-> c, winner |-> w, players |-> a]
<1>2. e.cid = c
  OBVIOUS
<1> HIDE DEF e
<1>3. entries' = Append(entries, e)
  BY <1>1 DEF e
<1> QED BY <1>2, <1>3, ListAppended

\* What was queued for all of them is the newest id there is.
LEMMA PushedIs ==
    ASSUME RoundClientTypes, NEW c \in Nat
    PROVE  /\ Pushed(c) \in [BlastClients -> Seq(Nat)]
           /\ \A k \in BlastClients : \A i \in 1 .. Len(Pushed(c)[k]) :
                 Pushed(c)[k][i] = c \/ (i \in 1 .. Len(queue[k]) /\ Pushed(c)[k][i] = queue[k][i])
<1>1. ASSUME NEW k \in BlastClients
      PROVE  /\ Pushed(c)[k] \in Seq(Nat)
             /\ \A i \in 1 .. Len(Pushed(c)[k]) :
                   Pushed(c)[k][i] = c \/ (i \in 1 .. Len(queue[k]) /\ Pushed(c)[k][i] = queue[k][i])
  <2>1. queue[k] \in Seq(Nat) /\ Pushed(c)[k] = Append(queue[k], c)
    BY DEF RoundClientTypes, Pushed
  <2> QED BY <2>1, AppendFacts
<1>2. Pushed(c) = [k \in BlastClients |-> Pushed(c)[k]]
  BY DEF Pushed
<1> QED BY <1>1, <1>2

LEMMA RoundsKeepInv == ASSUME RoundsInv, BroadcastChallengeLoop PROVE RoundsInv'
<1> USE DEF BroadcasterSteps
<1>1. /\ challengeId \in 1 .. MaxIds + 1 /\ bcast.cid \in 0 .. MaxIds
      /\ MaxIds \in Nat /\ current.id \in Nat /\ time \in Nat /\ IsList(entries)
      /\ current.start \in 0 .. time /\ IsChallenge(current) /\ RoundTypes /\ RoundClientTypes
  BY RoundsAssumption DEF RoundsInv, RoundTypes, RoundClientTypes
<1>2. ASSUME NEW k \in BlastClients
      PROVE  /\ queue[k] \in Seq(Nat) /\ sent[k] \in Seq(AnswerIds) /\ handling[k] \in CreditHandlers
             /\ handling[k].cid \in AnswerIds
             /\ \A i \in 1 .. Len(queue[k]) : queue[k][i] \in Nat
             /\ \A i \in 1 .. Len(sent[k]) : sent[k][i] \in AnswerIds
             /\ \A n \in AnswerIds : n \in Int
  <2>1. queue[k] \in Seq(Nat) /\ sent[k] \in Seq(AnswerIds) /\ handling[k] \in CreditHandlers
    BY DEF RoundsInv, RoundClientTypes
  <2>2. handling[k].cid \in AnswerIds
    BY <2>1 DEF CreditHandlers
  <2>3. \A i \in 1 .. Len(queue[k]) : queue[k][i] \in Nat
    BY <2>1
  <2>4. \A i \in 1 .. Len(sent[k]) : sent[k][i] \in AnswerIds
    BY <2>1
  <2>5. \A n \in AnswerIds : n \in Int
    BY DEF AnswerIds, Bare
  <2> QED BY <2>1, <2>2, <2>3, <2>4, <2>5
<1>3. \A i \in DOMAIN entries : entries[i].cid \in Nat
  BY DEF RoundsInv, RoundsInOrder
<1>ids. IdsInFront'
  <2>1. UNCHANGED <<sent, handling>>
    BY DEF BroadcastChallengeLoop, Draw, Publish, Push, Snapshot, Log, Burst, BurstLog
  <2> QED BY <2>1 DEF RoundsInv, IdsInFront
<1>4. CASE Draw
  <2>1. RoundTypes'
    BY <1>1, <1>4, Drawing DEF RoundTypes
  <2>2. RoundClientTypes' /\ LastQueued' = LastQueued
    BY <1>1, <1>4, Drawing DEF RoundClientTypes, LastQueued
  <2>3. RoundsInOrder'
    BY <1>1, <1>3, <1>4, Drawing DEF RoundsInv, RoundsInOrder, Drawn
  <2>4. AnswersInTime'
    BY <1>1, <1>4, <2>2, Drawing DEF RoundsInv, AnswersInTime
  <2> QED BY <1>ids, <2>1, <2>2, <2>3, <2>4 DEF RoundsInv
<1>5. CASE Publish
  <2>0. current'.id = bcast.cid /\ current'.start = time /\ IsChallenge(current')
    BY <1>1, <1>5, Publishing DEF IsChallenge
  <2>1. RoundTypes'
    BY <1>1, <1>5, <2>0, Publishing DEF RoundTypes
  <2>2. RoundClientTypes' /\ LastQueued' = LastQueued /\ LastQueued = bcast.cid - 1
    BY <1>1, <1>5, Publishing DEF RoundClientTypes, LastQueued, RoundsInv, RoundsInOrder, Drawn
  <2>3. RoundsInOrder'
    BY <1>1, <1>3, <1>5, <2>0, Publishing DEF RoundsInv, RoundsInOrder, Drawn
  <2>4. AnswersInTime'
    BY <1>1, <1>2, <1>5, <2>0, <2>2, Publishing DEF RoundsInv, AnswersInTime
  <2> QED BY <1>ids, <2>1, <2>2, <2>3, <2>4 DEF RoundsInv
<1>6. CASE Push
  <2>0. /\ bcast.pc = "push" /\ bcast'.pc = "window" /\ IsBroadcaster(bcast')
        /\ bcast'.cid = bcast.cid /\ queue' = Pushed(bcast.cid)
        /\ UNCHANGED <<time, challengeId, current, entries, sent, handling>>
    BY <1>1, <1>6, Pushing
  <2>id. bcast.cid = challengeId - 1 /\ bcast.cid \in Nat
    BY <1>1, <2>0 DEF RoundsInv, RoundsInOrder, Drawn
  <2>1. RoundTypes'
    BY <1>1, <2>0 DEF RoundTypes
  <2>2. RoundClientTypes' /\ LastQueued = bcast.cid - 1 /\ LastQueued' = bcast.cid
    BY <1>1, <2>0, <2>id, PushedIs DEF RoundClientTypes, LastQueued
  <2>3. RoundsInOrder'
    BY <1>1, <1>3, <2>0, <2>id DEF RoundsInv, RoundsInOrder, Drawn
  <2>4. AnswersInTime'
    <3>1. ASSUME NEW k \in BlastClients, NEW i \in 1 .. Len(queue'[k]) PROVE queue'[k][i] <= LastQueued'
      <4>1. queue'[k][i] = LastQueued' \/ (i \in 1 .. Len(queue[k]) /\ queue'[k][i] = queue[k][i])
        BY <1>1, <2>0, <2>id, <2>2, PushedIs
      <4>2. i \in 1 .. Len(queue[k]) => queue[k][i] <= LastQueued
        BY DEF RoundsInv, AnswersInTime
      <4>3. i \in 1 .. Len(queue[k]) => queue[k][i] \in Nat
        BY <1>2
      <4>4. LastQueued = bcast.cid - 1 /\ LastQueued' = bcast.cid
        BY <2>2
      <4> QED BY ONLY <2>id, <4>1, <4>2, <4>3, <4>4
    <3>2. ASSUME NEW k \in BlastClients, NEW i \in 1 .. Len(sent[k]) PROVE sent[k][i] <= LastQueued'
      <4>1. sent[k][i] <= LastQueued
        BY DEF RoundsInv, AnswersInTime
      <4>2. sent[k][i] \in Int
        BY <1>2
      <4> QED BY <2>id, <2>2, <4>1, <4>2
    <3>3. \A k \in BlastClients : handling[k].pc = "credit" => handling[k].cid <= LastQueued'
      BY <1>2, <2>id, <2>2 DEF RoundsInv, AnswersInTime
    <3> QED BY <2>0, <3>1, <3>2, <3>3 DEF RoundsInv, AnswersInTime
  <2> QED BY <1>ids, <2>1, <2>2, <2>3, <2>4 DEF RoundsInv
<1>7. CASE Snapshot
  <2>1. RoundTypes'
    BY <1>1, <1>7, TakingSnapshot DEF RoundTypes
  <2>2. RoundClientTypes' /\ LastQueued' = LastQueued
    BY <1>1, <1>7, TakingSnapshot DEF RoundClientTypes, LastQueued
  <2>3. RoundsInOrder'
    BY <1>1, <1>3, <1>7, TakingSnapshot DEF RoundsInv, RoundsInOrder, Drawn
  <2>4. AnswersInTime'
    BY <1>1, <1>7, <2>2, TakingSnapshot DEF RoundsInv, AnswersInTime
  <2> QED BY <1>ids, <2>1, <2>2, <2>3, <2>4 DEF RoundsInv
<1>8. CASE Log \/ BurstLog
  <2>0. /\ bcast.pc \in {"log", "burstLog"} /\ bcast'.pc \in {"draw", "burst"}
        /\ IsBroadcaster(bcast') /\ bcast'.cid = 0
        /\ \E a : Logged(bcast.cid, a)
        /\ UNCHANGED <<time, challengeId, current, queue, sent, handling>>
    BY <1>1, <1>8, Logging, LoggingBurst
  <2>1. RoundTypes'
    BY <1>1, <2>0, LoggedAppends DEF RoundTypes
  <2>2. RoundClientTypes' /\ LastQueued' = LastQueued
    BY <1>1, <2>0 DEF RoundClientTypes, LastQueued
  <2>3. RoundsInOrder'
    <3>1. bcast.cid = challengeId - 1 /\ current.id <= bcast.cid
      BY <1>1, <2>0 DEF RoundsInv, RoundsInOrder, Drawn
    <3>2. \A i \in DOMAIN entries : entries[i].cid \in Nat /\ entries[i].cid < challengeId
      BY <1>1, <1>3, <2>0, <3>1 DEF RoundsInv, RoundsInOrder, Drawn
    <3>3. \A i \in DOMAIN entries' : entries'[i].cid \in Nat /\ entries'[i].cid < challengeId
      BY <1>1, <2>0, <3>1, <3>2, LoggedAppends
    <3> QED BY <1>1, <2>0, <3>1, <3>3 DEF RoundsInOrder, Drawn
  <2>4. AnswersInTime'
    BY <1>1, <2>0, <2>2 DEF RoundsInv, AnswersInTime
  <2> QED BY <1>ids, <2>1, <2>2, <2>3, <2>4 DEF RoundsInv
<1>9. CASE Burst
  <2>0. /\ bcast.pc = "burst" /\ bcast'.pc = "burstLog" /\ IsBroadcaster(bcast')
        /\ bcast'.cid = challengeId /\ challengeId' = challengeId + 1
        /\ challengeId <= MaxIds /\ queue' = Pushed(challengeId)
        /\ UNCHANGED <<time, current, entries, sent, handling>>
    BY <1>1, <1>9, Bursting
  <2>id. challengeId \in Nat
    BY <1>1
  <2>1. RoundTypes'
    BY <1>1, <2>0 DEF RoundTypes
  <2>2. RoundClientTypes' /\ LastQueued = challengeId - 1 /\ LastQueued' = challengeId
    BY <1>1, <2>0, <2>id, PushedIs DEF RoundClientTypes, LastQueued
  <2>3. RoundsInOrder'
    BY <1>1, <1>3, <2>0, <2>id DEF RoundsInv, RoundsInOrder, Drawn
  <2>4. AnswersInTime'
    <3>1. ASSUME NEW k \in BlastClients, NEW i \in 1 .. Len(queue'[k]) PROVE queue'[k][i] <= LastQueued'
      <4>1. queue'[k][i] = LastQueued' \/ (i \in 1 .. Len(queue[k]) /\ queue'[k][i] = queue[k][i])
        BY <1>1, <2>0, <2>id, <2>2, PushedIs
      <4>2. i \in 1 .. Len(queue[k]) => queue[k][i] <= LastQueued
        BY DEF RoundsInv, AnswersInTime
      <4>3. i \in 1 .. Len(queue[k]) => queue[k][i] \in Nat
        BY <1>2
      <4>4. LastQueued = challengeId - 1 /\ LastQueued' = challengeId
        BY <2>2
      <4> QED BY ONLY <2>id, <4>1, <4>2, <4>3, <4>4
    <3>2. ASSUME NEW k \in BlastClients, NEW i \in 1 .. Len(sent[k]) PROVE sent[k][i] <= LastQueued'
      <4>1. sent[k][i] <= LastQueued
        BY DEF RoundsInv, AnswersInTime
      <4>2. sent[k][i] \in Int
        BY <1>2
      <4> QED BY <2>id, <2>2, <4>1, <4>2
    <3>3. \A k \in BlastClients : handling[k].pc = "credit" => handling[k].cid <= LastQueued'
      BY <1>2, <2>id, <2>2 DEF RoundsInv, AnswersInTime
    <3> QED BY <2>0, <3>1, <3>2, <3>3 DEF RoundsInv, AnswersInTime
  <2> QED BY <1>ids, <2>1, <2>2, <2>3, <2>4 DEF RoundsInv
<1> QED BY <1>4, <1>5, <1>6, <1>7, <1>8, <1>9 DEF BroadcastChallengeLoop

\* A client's step leaves the broadcaster alone; what is read or sent on was
\* there before, and what is stamped now is stamped after the round's start.
LEMMA CreditKeepsInv ==
    ASSUME RoundsInv, NEW k \in BlastClients, ReadAnswer(k) \/ CreditAnswer(k) \/ SendAnswer(k)
    PROVE  RoundsInv'
<1>1. /\ queue[k] \in Seq(Nat) /\ sent[k] \in Seq(AnswerIds) /\ handling[k] \in CreditHandlers
      /\ time \in Nat /\ IsChallenge(current) /\ current.start \in 0 .. time
  BY DEF RoundsInv, RoundClientTypes, RoundTypes
<1>2. UNCHANGED server /\ time' = time
  BY DEF ReadAnswer, CreditAnswer, SendAnswer
<1>3. LastQueued' = LastQueued
  BY <1>2 DEF LastQueued, server
<1>4. ASSUME UNCHANGED <<current.id, current.start>>, IsChallenge(current') PROVE RoundTypes' /\ RoundsInOrder'
  BY <1>2, <1>4 DEF RoundsInv, RoundTypes, RoundsInOrder, Drawn, server
<1>5. CASE ReadAnswer(k)
  <2>1. PICK n \in 1 .. Len(sent[k]) : sent' = [sent EXCEPT ![k] = SubSeq(@, n + 1, Len(@))]
    BY <1>5 DEF ReadAnswer
  <2> DEFINE rest == SubSeq(sent[k], n + 1, Len(sent[k]))
  <2>2. PICK id : /\ id \in {sent[k][1], Bare, 0}
                  /\ k \in TaggingClients => id = sent[k][1]
                  /\ handling' = [handling EXCEPT ![k] = [pc |-> "credit", cid |-> id, now |-> time]]
                  /\ UNCHANGED <<time, current, queue>>
    <3>1. Head(sent[k]) = sent[k][1]
      BY <1>1, <2>1
    <3> QED BY <1>5, <3>1 DEF ReadAnswer, ReadAs
  <2> DEFINE h == [pc |-> "credit", cid |-> id, now |-> time]
  <2>3. /\ rest \in Seq(AnswerIds) /\ sent[k][1] \in AnswerIds
        /\ 1 \in 1 .. Len(sent[k])
        /\ \A i \in 1 .. Len(rest) : rest[i] = sent[k][i + n] /\ i + n \in 1 .. Len(sent[k])
    <3> DEFINE q == sent[k]
    <3>1. q \in Seq(AnswerIds) /\ n \in 1 .. Len(q)
      BY <1>1
    <3>2. rest = SubSeq(q, n + 1, Len(q))
      OBVIOUS
    <3> HIDE DEF q, rest
    <3>3. Len(q) \in Nat /\ 1 \in 1 .. Len(q) /\ \A i \in 1 .. Len(q) : q[i] \in AnswerIds
      BY ONLY <3>1
    <3>4. /\ rest \in Seq(AnswerIds) /\ Len(rest) = Len(q) - n
          /\ \A i \in 1 .. Len(rest) : rest[i] = q[n + 1 + i - 1]
      BY ONLY <3>1, <3>2, SubSeqProperties
    <3>5. \A i \in 1 .. Len(rest) : n + 1 + i - 1 = i + n /\ i + n \in 1 .. Len(q)
      BY ONLY <3>1, <3>3, <3>4
    <3> QED BY <3>3, <3>4, <3>5 DEF q
  <2>4. h \in CreditHandlers /\ h.pc = "credit" /\ h.cid = id /\ h.now = time
    <3>1. id \in AnswerIds
      BY <2>2, <2>3 DEF AnswerIds
    <3> QED BY <1>1, <3>1 DEF CreditHandlers
  <2>h. handling' = [handling EXCEPT ![k] = h]
    BY <2>2
  <2> HIDE DEF h, rest
  <2>5. sent' = [sent EXCEPT ![k] = rest]
    BY <2>1 DEF rest
  <2>6. RoundClientTypes'
    BY <2>2, <2>3, <2>4, <2>5, <2>h DEF RoundsInv, RoundClientTypes
  <2>7. sent'[k] = rest /\ handling'[k] = h
        /\ \A j \in BlastClients \ {k} : sent'[j] = sent[j] /\ handling'[j] = handling[j]
    BY <2>5, <2>h DEF RoundsInv, RoundClientTypes
  <2>8. \A i \in 1 .. Len(sent[k]) : sent[k][i] <= LastQueued
    BY DEF RoundsInv, AnswersInTime
  <2>9. AnswersInTime'
    <3>1. \A i \in 1 .. Len(rest) : rest[i] <= LastQueued
      BY <2>3, <2>8
    <3>2. h.cid <= LastQueued /\ h.now >= current.start
      <4>1. sent[k][1] <= LastQueued
        BY <2>3, <2>8
      <4>2. time >= current.start
        BY <1>1
      <4>3. 0 <= LastQueued /\ Bare <= LastQueued
        BY LastQueuedIsNatural DEF Bare
      <4> QED BY <2>2, <2>4, <4>1, <4>2, <4>3
    <3>3. \A j \in BlastClients \ {k} :
              /\ \A i \in 1 .. Len(sent'[j]) : sent'[j][i] <= LastQueued
              /\ handling'[j].pc = "credit" =>
                    /\ handling'[j].cid <= LastQueued
                    /\ handling'[j].cid = current.id => handling'[j].now >= current.start
      BY <2>7 DEF RoundsInv, AnswersInTime
    <3>4. \A j \in BlastClients : \A i \in 1 .. Len(queue[j]) : queue[j][i] <= LastQueued
      BY DEF RoundsInv, AnswersInTime
    <3> QED BY <1>3, <2>2, <2>7, <3>1, <3>2, <3>3, <3>4 DEF AnswersInTime
  <2>10. IdsInFront'
    <3>1. ASSUME NEW j \in TaggingClients, j # k
          PROVE  /\ \A i \in 1 .. Len(sent'[j]) : sent'[j][i] # Bare
                 /\ handling'[j].cid # Bare
      <4>1. sent'[j] = sent[j] /\ handling'[j] = handling[j]
        BY <2>7, <3>1, RoundsAssumption
      <4> QED BY <4>1 DEF RoundsInv, IdsInFront
    <3>2. ASSUME k \in TaggingClients
          PROVE  (\A i \in 1 .. Len(rest) : rest[i] # Bare) /\ h.cid # Bare
      <4>1. \A i \in 1 .. Len(sent[k]) : sent[k][i] # Bare
        BY <3>2 DEF RoundsInv, IdsInFront
      <4> QED BY <2>2, <2>3, <2>4, <3>2, <4>1
    <3> QED BY <2>7, <3>1, <3>2 DEF IdsInFront
  <2> QED BY <1>1, <1>4, <2>2, <2>6, <2>9, <2>10 DEF RoundsInv
<1>6. CASE CreditAnswer(k)
  <2>1. /\ handling' = [handling EXCEPT ![k] = Idle] /\ UNCHANGED <<time, queue, sent>>
    BY <1>6 DEF CreditAnswer
  <2>2. Idle \in CreditHandlers /\ Idle.pc = "recv"
    BY DEF Idle, CreditHandlers, AnswerIds
  <2>3. current'.id = current.id /\ current'.start = current.start /\ IsChallenge(current')
    <3>1. current' = current \/ \E a : current' = [current EXCEPT !.answers = a]
      BY <1>6 DEF CreditAnswer
    <3>2. ASSUME NEW a, current' = [current EXCEPT !.answers = a]
          PROVE  IsChallenge(current') /\ current'.id = current.id /\ current'.start = current.start
      <4>1. PICK c, d : c = current /\ d = current'
        OBVIOUS
      <4>2. IsChallenge(c) /\ d = [c EXCEPT !.answers = a]
        BY <1>1, <3>2, <4>1
      <4>3. IsChallenge(d) /\ d.id = c.id /\ d.start = c.start
        BY <4>2, ChallengeFields
      <4> QED BY <4>1, <4>3
    <3> QED BY <1>1, <3>1, <3>2
  <2>4. RoundClientTypes'
    BY <2>1, <2>2 DEF RoundsInv, RoundClientTypes
  <2>5. handling'[k] = Idle /\ \A j \in BlastClients \ {k} : handling'[j] = handling[j]
    BY <2>1 DEF RoundsInv, RoundClientTypes
  <2>6. AnswersInTime'
    <3>1. \A j \in BlastClients : handling'[j].pc = "credit" => handling'[j] = handling[j]
      BY <2>2, <2>5
    <3> QED BY <1>3, <2>1, <2>3, <3>1 DEF RoundsInv, AnswersInTime
  <2>7. IdsInFront'
    <3>1. TaggingClients \subseteq BlastClients /\ Idle.cid # Bare
      BY RoundsAssumption DEF Idle, Bare
    <3>2. \A j \in TaggingClients : handling'[j].cid # Bare
      BY <2>5, <3>1 DEF RoundsInv, IdsInFront
    <3> QED BY <2>1, <3>2 DEF RoundsInv, IdsInFront
  <2> QED BY <1>4, <2>3, <2>4, <2>6, <2>7 DEF RoundsInv
<1>7. CASE SendAnswer(k)
  <2> DEFINE m == IF k \in TaggingClients THEN Head(queue[k]) ELSE Bare
             t == Tail(queue[k])
             u == Append(sent[k], m)
  <2>1. sent' = [sent EXCEPT ![k] = Append(@, m)]
    BY <1>7 DEF SendAnswer
  <2>2. /\ queue' = [queue EXCEPT ![k] = t] /\ UNCHANGED <<time, current, handling>>
        /\ queue[k] # <<>>
    BY <1>7 DEF SendAnswer
  <2>3. /\ Head(queue[k]) = queue[k][1] /\ queue[k][1] \in Nat /\ 1 \in 1 .. Len(queue[k])
        /\ t \in Seq(Nat) /\ \A i \in 1 .. Len(t) : t[i] = queue[k][i + 1] /\ i + 1 \in 1 .. Len(queue[k])
    BY <1>1, <2>2
  <2>4. m \in AnswerIds /\ m \in {queue[k][1], Bare} /\ (k \in TaggingClients => m # Bare)
    BY <2>3 DEF AnswerIds, Bare
  <2> HIDE DEF m, t
  <2>5. /\ u \in Seq(AnswerIds)
        /\ \A i \in 1 .. Len(u) : u[i] = m \/ (i \in 1 .. Len(sent[k]) /\ u[i] = sent[k][i])
    BY <1>1, <2>4, AppendFacts
  <2> HIDE DEF u
  <2>6. sent' = [sent EXCEPT ![k] = u]
    BY <2>1 DEF u
  <2>7. RoundClientTypes'
    BY <2>2, <2>3, <2>5, <2>6 DEF RoundsInv, RoundClientTypes
  <2>8. sent'[k] = u /\ queue'[k] = t
        /\ \A j \in BlastClients \ {k} : sent'[j] = sent[j] /\ queue'[j] = queue[j]
    BY <2>2, <2>6 DEF RoundsInv, RoundClientTypes
  <2>9. AnswersInTime'
    <3>1. /\ \A i \in 1 .. Len(queue[k]) : queue[k][i] <= LastQueued
          /\ \A i \in 1 .. Len(sent[k]) : sent[k][i] <= LastQueued
      BY DEF RoundsInv, AnswersInTime
    <3>2. /\ \A i \in 1 .. Len(t) : t[i] <= LastQueued
          /\ \A i \in 1 .. Len(u) : u[i] <= LastQueued
      <4>1. Bare <= LastQueued
        BY LastQueuedIsNatural DEF Bare
      <4> QED BY <2>3, <2>4, <2>5, <3>1, <4>1
    <3>3. \A j \in BlastClients \ {k} :
              /\ \A i \in 1 .. Len(queue'[j]) : queue'[j][i] <= LastQueued
              /\ \A i \in 1 .. Len(sent'[j]) : sent'[j][i] <= LastQueued
      BY <2>8 DEF RoundsInv, AnswersInTime
    <3>4. \A j \in BlastClients : handling[j].pc = "credit" =>
                /\ handling[j].cid <= LastQueued
                /\ handling[j].cid = current.id => handling[j].now >= current.start
      BY DEF RoundsInv, AnswersInTime
    <3> QED BY <1>3, <2>2, <2>8, <3>2, <3>3, <3>4 DEF AnswersInTime
  <2>10. IdsInFront'
    <3>1. ASSUME NEW j \in TaggingClients, j # k PROVE \A i \in 1 .. Len(sent'[j]) : sent'[j][i] # Bare
      <4>1. sent'[j] = sent[j]
        BY <2>8, <3>1, RoundsAssumption
      <4> QED BY <4>1 DEF RoundsInv, IdsInFront
    <3>2. ASSUME k \in TaggingClients PROVE \A i \in 1 .. Len(u) : u[i] # Bare
      <4>1. \A i \in 1 .. Len(sent[k]) : sent[k][i] # Bare
        BY <3>2 DEF RoundsInv, IdsInFront
      <4> QED BY <2>4, <2>5, <3>2, <4>1
    <3> QED BY <2>2, <2>8, <3>1, <3>2 DEF RoundsInv, IdsInFront
  <2> QED BY <1>1, <1>4, <2>2, <2>7, <2>9, <2>10 DEF RoundsInv
<1> QED BY <1>5, <1>6, <1>7

LEMMA TimeKeepsInv == ASSUME RoundsInv, TimePasses PROVE RoundsInv'
<1>1. time \in Nat /\ time' = time + 1 /\ current.start \in 0 .. time
      /\ UNCHANGED <<challengeId, bcast, entries, current, queue, sent, handling>>
  BY DEF RoundsInv, RoundClientTypes, RoundTypes, TimePasses, server
<1>2. RoundTypes'
  BY <1>1 DEF RoundsInv, RoundTypes
<1>3. RoundClientTypes'
  BY <1>1 DEF RoundsInv, RoundClientTypes
<1>4. RoundsInOrder'
  BY <1>1 DEF RoundsInv, RoundsInOrder, Drawn
<1>5. AnswersInTime'
  BY <1>1 DEF RoundsInv, AnswersInTime, LastQueued
<1>6. IdsInFront'
  BY <1>1 DEF RoundsInv, IdsInFront
<1> QED BY <1>2, <1>3, <1>4, <1>5, <1>6 DEF RoundsInv

LEMMA RoundsInvUnchanged == ASSUME RoundsInv, UNCHANGED roundsVars PROVE RoundsInv'
<1> USE DEF roundsVars, server
<1>1. RoundTypes'
  BY DEF RoundsInv, RoundTypes
<1>2. RoundClientTypes'
  BY DEF RoundsInv, RoundClientTypes
<1>3. RoundsInOrder'
  BY DEF RoundsInv, RoundsInOrder, Drawn
<1>4. AnswersInTime'
  BY DEF RoundsInv, AnswersInTime, LastQueued
<1>5. IdsInFront'
  BY DEF RoundsInv, IdsInFront
<1> QED BY <1>1, <1>2, <1>3, <1>4, <1>5 DEF RoundsInv

\* BlastRounds keeps its rounds in order whatever the clients do.
THEOREM RoundsInvariance == RoundsSpec => []RoundsInv
<1>1. RoundsInit => RoundsInv
  BY RoundsInitOK
<1>2. RoundsInv /\ [RoundsNext]_roundsVars => RoundsInv'
  BY RoundsKeepInv, CreditKeepsInv, TimeKeepsInv, RoundsInvUnchanged DEF RoundsNext
<1> QED BY <1>1, <1>2, PTL DEF RoundsSpec

-----------------------------------------------------------------------------
(* The log of a fair contest.                                              *)

\* A challenge is open from its publication, or from its place in a burst, on.
LEMMA OpensRound ==
    ASSUME RoundsInv, Publish \/ Burst
    PROVE  \E c \in 1 .. MaxIds : Fair!Open(c)
<1>1. /\ challengeId \in 1 .. MaxIds + 1 /\ RoundTypes
      /\ bcast.cid \in 0 .. MaxIds /\ MaxIds \in Nat
  BY RoundsAssumption DEF RoundsInv, RoundTypes
<1>2. CASE Publish
  <2>1. /\ bcast.pc = "publish" /\ bcast'.pc = "push" /\ bcast'.cid = bcast.cid
        /\ current' = [id |-> bcast.cid, start |-> time, answers |-> NoAnswers]
        /\ entries' = entries
    BY <1>1, <1>2, Publishing
  <2>2. OpenRound = 0 /\ OpenRound' = bcast.cid /\ RoundAnswers = NoAnswers
    BY <2>1 DEF OpenRound, RoundAnswers
  <2>3. RoundAnswers' = NoAnswers
    BY <2>1 DEF RoundAnswers
  <2>4. bcast.cid \in 1 .. MaxIds /\ \A i \in DOMAIN entries : entries[i].cid # bcast.cid
    BY <1>1, <2>1 DEF RoundsInv, RoundsInOrder, Drawn
  <2>5. Fair!Open(bcast.cid)
    BY <2>1, <2>2, <2>3, <2>4 DEF Fair!Open
  <2> QED BY <2>4, <2>5
<1>3. CASE Burst
  <2>1. /\ bcast.pc = "burst" /\ bcast'.pc = "burstLog" /\ bcast'.cid = challengeId
        /\ challengeId <= MaxIds /\ entries' = entries
    BY <1>1, <1>3, Bursting
  <2>2. OpenRound = 0 /\ OpenRound' = challengeId /\ RoundAnswers = NoAnswers /\ RoundAnswers' = NoAnswers
    BY <2>1 DEF OpenRound, RoundAnswers
  <2>3. challengeId \in 1 .. MaxIds /\ \A i \in DOMAIN entries : entries[i].cid # challengeId
    BY <1>1, <2>1 DEF RoundsInv, RoundsInOrder, Drawn
  <2>4. Fair!Open(challengeId)
    BY <2>1, <2>2, <2>3 DEF Fair!Open
  <2> QED BY <2>3, <2>4
<1> QED BY <1>2, <1>3

\* What is credited while a round is open is an answer in it, and one with an id
\* in front is an answer to its challenge; nothing else is seen.
LEMMA CreditReceives ==
    ASSUME RoundsInv, NEW k \in BlastClients, CreditAnswer(k)
    PROVE  (\E n \in Names : Fair!Receive(n)) \/ UNCHANGED Fair!vars
<1> DEFINE n == TeamOf[k]
           id == handling[k].cid
           latency == handling[k].now - current.start
           a(right) == [latency |-> latency, right |-> right, to |-> id]
           new(right) == [m \in DOMAIN current.answers \union {n} |->
                             IF m = n THEN a(right) ELSE current.answers[m]]
<1>1. UNCHANGED <<bcast, entries>> /\ handling[k].pc = "credit"
  BY DEF CreditAnswer, server
<1>2. n \in Names
  BY DEF Names
<1>3. OpenRound' = OpenRound
  BY <1>1 DEF OpenRound
<1>4. CASE ~Counts(id) \/ bcast.pc \notin {"push", "window"}
  <2>1. ~Counts(id) => current' = current
    BY DEF CreditAnswer
  <2>2. RoundAnswers' = RoundAnswers
    BY <1>1, <1>4, <2>1 DEF RoundAnswers
  <2> QED BY <1>1, <1>3, <2>2 DEF Fair!vars
<1>5. CASE Counts(id) /\ bcast.pc \in {"push", "window"}
  <2>1. PICK right \in BOOLEAN : current' = [current EXCEPT !.answers = new(right)]
    BY <1>5 DEF CreditAnswer
  <2>2. IsChallenge(current)
    BY DEF RoundsInv, RoundTypes
  <2> DEFINE now == new(right)
             it == a(right)
  <2>3. current'.answers = now
    BY <2>1, <2>2, ChallengeFields
  <2>4. RoundAnswers = current.answers /\ RoundAnswers' = now
    BY <1>1, <1>5, <2>3 DEF RoundAnswers
  <2>5. OpenRound = current.id /\ OpenRound # 0
    BY <1>5 DEF OpenRound, RoundsInv, RoundTypes, RoundsInOrder, Drawn
  <2>6. n \in TaggingNames => it.to = OpenRound /\ it.latency >= 0
    <3>1. ASSUME n \in TaggingNames PROVE id = current.id
      <4>1. k \in TaggingClients
        BY <3>1 DEF TaggingNames
      <4> QED BY <1>5, <4>1 DEF Counts, RoundsInv, IdsInFront
    <3>2. ASSUME id = current.id PROVE latency >= 0
      <4>1. handling[k].now >= current.start /\ handling[k].now \in Nat /\ current.start \in Nat
        BY <1>1, <3>2 DEF RoundsInv, AnswersInTime, RoundClientTypes, RoundTypes, CreditHandlers
      <4> QED BY <4>1
    <3> QED BY <2>5, <3>1, <3>2
  <2>7. /\ DOMAIN now = DOMAIN current.answers \union {n} /\ now[n] = it
        /\ \A m \in DOMAIN current.answers \ {n} : now[m] = current.answers[m]
    <3> HIDE DEF a, n
    <3> QED OBVIOUS
  <2> HIDE DEF it, now, n
  <2>8. Fair!Receive(n)
    BY <1>1, <1>3, <2>4, <2>5, <2>6, <2>7 DEF Fair!Receive
  <2> QED BY <1>2, <2>8
<1> QED BY <1>4, <1>5

\* The entry of a round has its answers, that of a burst's challenge none.
LEMMA LogCloses == ASSUME RoundsInv, Log \/ BurstLog PROVE Fair!Close
<1>1. RoundTypes
  BY DEF RoundsInv
<1>2. /\ bcast.pc \in {"log", "burstLog"} /\ bcast'.pc \in {"draw", "burst"}
      /\ Logged(bcast.cid, RoundAnswers)
  BY <1>1, Logging, LoggingBurst DEF RoundAnswers
<1>3. OpenRound = bcast.cid /\ OpenRound # 0 /\ OpenRound' = 0 /\ RoundAnswers' = NoAnswers
  BY <1>1, <1>2 DEF OpenRound, RoundAnswers, RoundsInv, RoundsInOrder, Drawn, RoundTypes
<1>4. Fair!Winners = FastestRight(RoundAnswers)
  BY DEF Fair!Winners, FastestRight
<1>5. \E w \in IF Fair!Winners = {} THEN {<<>>} ELSE Fair!Winners :
          entries' = Append(entries, [cid |-> OpenRound, winner |-> w, players |-> RoundAnswers])
  BY <1>2, <1>3, <1>4 DEF Logged
<1> QED BY <1>3, <1>5 DEF Fair!Close, Fair!NoAnswers, NoAnswers

LEMMA FairStep == ASSUME RoundsInv, [RoundsNext]_roundsVars PROVE [Fair!Next]_(Fair!vars)
<1>0. RoundTypes
  BY DEF RoundsInv
<1>1. CASE UNCHANGED <<current, bcast, entries>>
  BY <1>1 DEF Fair!vars, OpenRound, RoundAnswers
<1>2. CASE Draw
  <2>1. /\ bcast.pc = "draw" /\ bcast'.pc = "publish" /\ entries' = entries
    BY <1>0, <1>2, Drawing
  <2> QED BY <2>1 DEF Fair!vars, OpenRound, RoundAnswers
<1>3. CASE Publish \/ Burst
  BY <1>3, OpensRound DEF Fair!Next
<1>4. CASE Push
  <2>1. /\ bcast.pc = "push" /\ bcast'.pc = "window" /\ bcast'.cid = bcast.cid
        /\ UNCHANGED <<current, entries>>
    BY <1>0, <1>4, Pushing
  <2> QED BY <2>1 DEF Fair!vars, OpenRound, RoundAnswers
<1>5. CASE Snapshot
  <2>1. /\ bcast.pc = "window" /\ bcast'.pc = "log" /\ bcast'.cid = bcast.cid
        /\ bcast'.snapshot = current.answers /\ UNCHANGED <<current, entries>>
    BY <1>0, <1>5, TakingSnapshot
  <2> QED BY <2>1 DEF Fair!vars, OpenRound, RoundAnswers
<1>6. CASE Log \/ BurstLog
  BY <1>6, LogCloses DEF Fair!Next
<1>7. ASSUME NEW k \in BlastClients, CreditAnswer(k) PROVE [Fair!Next]_(Fair!vars)
  BY <1>7, CreditReceives DEF Fair!Next
<1>8. CASE TimePasses \/ (\E k \in BlastClients : ReadAnswer(k) \/ SendAnswer(k)) \/ UNCHANGED roundsVars
  <2>1. UNCHANGED <<current, bcast, entries>>
    BY <1>8 DEF TimePasses, ReadAnswer, SendAnswer, roundsVars, server
  <2> QED BY <1>1, <2>1
<1> QED BY <1>2, <1>3, <1>4, <1>5, <1>6, <1>7, <1>8 DEF RoundsNext, BroadcastChallengeLoop

(***************************************************************************)
(* The blast server's broadcaster, its bursts included, and handleClient,  *)
(* for any clients, some of which put the id in front of their answers and *)
(* some of which do not: one entry per challenge, with each name's last    *)
(* answer of those that were credited while it was under way, and the      *)
(* fastest right one as the winner.  However late the clients answer, what *)
(* a name that always puts the id in front is credited with is an answer   *)
(* to that very challenge, and took the time that is logged; of a bare     *)
(* answer no more is claimed than that the round it counts for is open.    *)
(***************************************************************************)
THEOREM RoundsAreAFairContest == RoundsSpec => IsFairContest
<1>1. RoundsInit => Fair!Init
  BY DEF RoundsInit, Fair!Init, Fair!NoAnswers, NoAnswers, OpenRound, RoundAnswers
<1>2. RoundsInv /\ [RoundsNext]_roundsVars => [Fair!Next]_(Fair!vars)
  BY FairStep
<1> QED BY <1>1, <1>2, RoundsInvariance, PTL DEF RoundsSpec, IsFairContest, Fair!Spec
=============================================================================
