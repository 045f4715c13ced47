---------------------------- MODULE ClientProofs ----------------------------
(***************************************************************************)
(* The challenge clients, for any size of the matrices, any challenges and *)
(* wherever recv cuts the stream.  First the text of a challenge: where    *)
(* its four newlines are and where each value begins.  Then what each of   *)
(* the parsers reads there.  Then the stream, which is the texts of the    *)
(* challenges not answered yet, the first of them from the start of the    *)
(* buffer.                                                                 *)
(***************************************************************************)
EXTENDS LowLatencyClient, RetainingClient, NumberFacts, SequenceTheorems

Widths == [1..M -> 1..3]

Bytes == {"digit", "blank", "newline"}

-----------------------------------------------------------------------------
(***************************************************************************)
(* A matrix on its line.                                                   *)
(***************************************************************************)
LEMMA OffsetsAscend ==
    ASSUME NEW w \in Widths
    PROVE  /\ Offset(w, 0) = 0
           /\ \A k \in 0 .. M : Offset(w, k) \in Nat
           /\ \A k \in 1 .. M : Offset(w, k) = Offset(w, k - 1) + w[k] + 1
           /\ \A j, k \in 0 .. M : j < k => Offset(w, j) < Offset(w, k)
<1> DEFINE u == [i \in 1 .. M |-> w[i] + 1]
<1>1. M \in Nat
  BY StreamAssumption
<1>2. \A k \in 1 .. M : u[k] = w[k] + 1 /\ u[k] \in Nat \ {0}
  BY DEF Widths
<1>3. \A k : Offset(w, k) = SumTo(u, k)
  BY DEF Offset
<1> HIDE DEF u
<1>4. /\ \A k \in 0 .. M : SumTo(u, k) \in Nat
      /\ \A k \in 1 .. M : SumTo(u, k) = SumTo(u, k - 1) + u[k]
      /\ \A j, k \in 0 .. M : j < k => SumTo(u, j) < SumTo(u, k)
  BY <1>1, <1>2, SumsAscend
<1>5. SumTo(u, 0) = 0
  BY SumToNone
<1>6. \A k \in 1 .. M : SumTo(u, k) = SumTo(u, k - 1) + w[k] + 1
  <2> TAKE k \in 1 .. M
  <2>1. SumTo(u, k) = SumTo(u, k - 1) + (w[k] + 1)
    BY <1>2, <1>4
  <2>2. SumTo(u, k - 1) \in Nat
    BY <1>1, <1>4
  <2>3. w[k] \in Nat
    BY DEF Widths
  <2> QED BY <2>1, <2>2, <2>3
<1> QED BY <1>3, <1>4, <1>5, <1>6

\* s holds a matrix line of these widths behind position at.
LineAt(s, at, w) ==
    /\ \A k \in 1 .. M : s[at + Offset(w, k)] = "blank"
    /\ \A k \in 1 .. M : \A j \in 1 .. w[k] : s[at + Offset(w, k - 1) + j] = "digit"
    /\ s[at + Offset(w, M) + 1] = "newline"
    /\ \A p \in 1 .. Offset(w, M) : s[at + p] # "newline"

LEMMA MatrixLineIs ==
    ASSUME NEW w \in Widths
    PROVE  /\ MatrixLine(w) \in Seq(Bytes)
           /\ Len(MatrixLine(w)) = Offset(w, M) + 1
           /\ LineAt(MatrixLine(w), 0, w)
<1> DEFINE end == Offset(w, M) + 1
           blanks == {Offset(w, k) : k \in 1 .. M}
           line == [p \in 1 .. end |->
                       IF p = end THEN "newline" ELSE IF p \in blanks THEN "blank" ELSE "digit"]
<1>1. MatrixLine(w) = line
  BY DEF MatrixLine
<1>2. M \in Nat \ {0}
  BY StreamAssumption
<1>3. /\ Offset(w, 0) = 0
      /\ \A k \in 0 .. M : Offset(w, k) \in Nat
      /\ \A k \in 1 .. M : Offset(w, k) = Offset(w, k - 1) + w[k] + 1
      /\ \A j, k \in 0 .. M : j < k => Offset(w, j) < Offset(w, k)
  BY OffsetsAscend
<1>4. end \in Nat
  BY <1>2, <1>3
<1>5. line \in Seq(Bytes) /\ Len(line) = end
  <2>1. line \in [1 .. end -> Bytes]
    BY DEF Bytes
  <2> QED BY <2>1, <1>4
<1>6. ASSUME NEW k \in 1 .. M
      PROVE  Offset(w, k) \in 1 .. end - 1 /\ Offset(w, k) \in blanks
  <2>1. Offset(w, 0) < Offset(w, k) /\ Offset(w, k) \in Nat /\ Offset(w, M) \in Nat
    BY <1>2, <1>3
  <2>2. k = M \/ Offset(w, k) < Offset(w, M)
    BY <1>2, <1>3
  <2> QED BY <2>1, <2>2, <1>3
<1> HIDE DEF blanks
<1>7. \A p \in 1 .. end - 1 : line[p] = IF p \in blanks THEN "blank" ELSE "digit"
  BY <1>4
<1>12. \A k \in 1 .. M : line[Offset(w, k)] = "blank"
  <2> HIDE DEF line, end
  <2> QED BY <1>6, <1>7
<1>8. ASSUME NEW k \in 1 .. M, NEW j \in 1 .. w[k]
      PROVE  line[Offset(w, k - 1) + j] = "digit"
  <2> DEFINE p == Offset(w, k - 1) + j
  <2>1. w[k] \in 1 .. 3 /\ Offset(w, k - 1) \in Nat /\ Offset(w, k) = Offset(w, k - 1) + w[k] + 1
    BY <1>2, <1>3 DEF Widths
  <2>2. p \in Nat /\ Offset(w, k - 1) < p /\ p < Offset(w, k)
    BY <2>1
  <2>3. p \in 1 .. end - 1
    BY <2>1, <2>2, <1>4, <1>6
  <2>4. p \notin blanks
    <3> SUFFICES ASSUME NEW i \in 1 .. M, p = Offset(w, i) PROVE FALSE
      BY DEF blanks
    <3> HIDE DEF p
    <3>1. i <= k - 1 \/ k <= i
      BY <1>2
    <3>2. CASE i <= k - 1
      <4>1. i = k - 1 \/ Offset(w, i) < Offset(w, k - 1)
        BY <1>2, <1>3, <3>2
      <4> QED BY <4>1, <2>1, <2>2, <1>3
    <3>3. CASE k <= i
      <4>1. i = k \/ Offset(w, k) < Offset(w, i)
        BY <1>2, <1>3, <3>3
      <4>2. Offset(w, i) \in Nat /\ Offset(w, k) \in Nat
        BY <1>2, <1>3
      <4> QED BY <4>1, <4>2, <2>1, <2>2, <1>3
    <3> QED BY <3>1, <3>2, <3>3
  <2> HIDE DEF line, p, end
  <2>5. line[p] = "digit"
    BY <2>3, <2>4, <1>7
  <2> QED BY <2>5 DEF p
<1>9. line[end] = "newline" /\ \A p \in 1 .. Offset(w, M) : line[p] # "newline"
  <2>1. \A p \in 1 .. Offset(w, M) : p \in 1 .. end /\ p # end
    BY <1>2, <1>3
  <2>2. end \in 1 .. end
    BY <1>2, <1>3
  <2> QED BY <2>1, <2>2
<1>10. \A n \in Nat : 0 + n = n
  OBVIOUS
<1>11. LineAt(line, 0, w)
  <2>1. /\ \A k \in 1 .. M : 0 + Offset(w, k) = Offset(w, k)
        /\ \A k \in 1 .. M : 0 + Offset(w, k - 1) = Offset(w, k - 1)
        /\ \A p \in 1 .. Offset(w, M) : 0 + p = p
        /\ 0 + Offset(w, M) + 1 = end
    BY <1>2, <1>3
  <2> HIDE DEF line
  <2> QED BY <2>1, <1>12, <1>8, <1>9 DEF LineAt
<1> QED BY <1>1, <1>5, <1>11

-----------------------------------------------------------------------------
(***************************************************************************)
(* The text of a challenge.                                                *)
(***************************************************************************)

\* Where the lines of A and of B begin, less one, and where the text ends.
RowAAt(c) == c.id + 5
RowBAt(c) == RowAAt(c) + Offset(c.a, M) + 1
TextEnd(c) == RowBAt(c) + Offset(c.b, M) + 1

\* s begins with the text of c.
Holds(s, c) ==
    /\ TextEnd(c) <= Len(s)
    /\ \A p \in 1 .. c.id : s[p] = "digit"
    /\ s[c.id + 1] = "newline"
    /\ \A p \in 1 .. 3 : s[c.id + 1 + p] = "digit"
    /\ s[c.id + 5] = "newline"
    /\ LineAt(s, RowAAt(c), c.a)
    /\ LineAt(s, RowBAt(c), c.b)

Challenge == [id : Nat \ {0}, a : Widths, b : Widths]

LEMMA ChallengeType ==
    ASSUME NEW c \in AllChallenges
    PROVE  /\ c \in Challenge
           /\ c.id \in Nat \ {0} /\ c.a \in Widths /\ c.b \in Widths
           /\ RowAAt(c) \in Nat /\ RowBAt(c) \in Nat /\ TextEnd(c) \in Nat
           /\ RowAAt(c) < RowBAt(c) /\ RowBAt(c) < TextEnd(c)
<1>1. PICK p \in Programs : c \in Challenges[p]
  BY DEF AllChallenges
<1>2. c \in [id : Nat \ {0}, a : [1..M -> 1..3], b : [1..M -> 1..3]]
  BY <1>1, StreamAssumption
<1>3. c.id \in Nat \ {0} /\ c.a \in Widths /\ c.b \in Widths
  BY <1>2 DEF Widths
<1>4. M \in Nat
  BY StreamAssumption
<1>5. Offset(c.a, M) \in Nat /\ Offset(c.b, M) \in Nat
  BY <1>3, <1>4, OffsetsAscend
<1> QED BY <1>2, <1>3, <1>5 DEF RowAAt, RowBAt, TextEnd, Challenge, Widths

\* r is s, of m bytes, and t behind it, of n bytes.
Joins(r, s, m, t, n) ==
    /\ s \in Seq(Bytes) /\ Len(s) = m /\ m \in Nat
    /\ t \in Seq(Bytes) /\ Len(t) = n /\ n \in Nat
    /\ r = s \o t

LEMMA Joined ==
    ASSUME NEW r, NEW s, NEW m, NEW t, NEW n, Joins(r, s, m, t, n)
    PROVE  /\ r \in Seq(Bytes)
           /\ Len(r) = m + n
           /\ \A p \in 1 .. m : r[p] = s[p]
           /\ \A p \in 1 .. n : r[m + p] = t[p]
<1>0. s \in Seq(Bytes) /\ t \in Seq(Bytes)
  BY DEF Joins
<1>1. s \o t \in Seq(Bytes) /\ Len(s \o t) = Len(s) + Len(t)
  BY <1>0
<1>2. \A p \in 1 .. Len(s) : (s \o t)[p] = s[p]
  BY <1>0
<1>3. \A p \in 1 .. Len(t) : (s \o t)[Len(s) + p] = t[p]
  BY <1>0
<1> QED BY <1>1, <1>2, <1>3 DEF Joins

LEMMA DigitsAre ==
    ASSUME NEW n \in Nat
    PROVE  Digits(n) \in Seq(Bytes) /\ Len(Digits(n)) = n /\ \A p \in 1 .. n : Digits(n)[p] = "digit"
<1>1. Digits(n) \in [1 .. n -> Bytes]
  BY DEF Digits, Bytes
<1> QED BY <1>1 DEF Digits

LEMMA Moved ==
    ASSUME NEW w \in Widths, NEW s, NEW t, NEW from \in Nat, NEW to \in Nat, LineAt(s, from, w),
           \A p \in 1 .. Offset(w, M) + 1 : t[to + p] = s[from + p]
    PROVE  LineAt(t, to, w)
<1>1. M \in Nat \ {0}
  BY StreamAssumption
<1>2. /\ Offset(w, 0) = 0
      /\ \A k \in 0 .. M : Offset(w, k) \in Nat
      /\ \A k \in 1 .. M : Offset(w, k) = Offset(w, k - 1) + w[k] + 1
      /\ \A j, k \in 0 .. M : j < k => Offset(w, j) < Offset(w, k)
  BY OffsetsAscend
<1> DEFINE end == Offset(w, M)
<1>3. \A k \in 1 .. M : Offset(w, k) \in 1 .. end
  <2> TAKE k \in 1 .. M
  <2>1. Offset(w, 0) < Offset(w, k) /\ Offset(w, k) \in Nat /\ Offset(w, M) \in Nat
    BY <1>1, <1>2
  <2>2. k = M \/ Offset(w, k) < Offset(w, M)
    BY <1>1, <1>2
  <2> QED BY <2>1, <2>2, <1>2
<1>4. ASSUME NEW k \in 1 .. M, NEW j \in 1 .. w[k]
      PROVE  /\ Offset(w, k - 1) + j \in 1 .. end
             /\ to + (Offset(w, k - 1) + j) = to + Offset(w, k - 1) + j
             /\ from + (Offset(w, k - 1) + j) = from + Offset(w, k - 1) + j
  <2>1. Offset(w, k) \in 1 .. end /\ Offset(w, k) = Offset(w, k - 1) + w[k] + 1
    BY <1>2, <1>3
  <2>2. w[k] \in Nat /\ Offset(w, k - 1) \in Nat
    <3>1. w[k] \in Nat
      BY DEF Widths
    <3>2. k - 1 \in 0 .. M
      BY <1>1
    <3> QED BY <3>1, <3>2, <1>2
  <2> HIDE DEF end
  <2>3. end \in Nat
    BY <1>1, <1>2 DEF end
  <2> QED BY <2>1, <2>2, <2>3
<1>5. end \in Nat /\ to + (end + 1) = to + end + 1 /\ from + (end + 1) = from + end + 1
  BY <1>1, <1>2
<1>6. /\ \A k \in 1 .. M : s[from + Offset(w, k)] = "blank"
      /\ \A k \in 1 .. M : \A j \in 1 .. w[k] : s[from + Offset(w, k - 1) + j] = "digit"
      /\ s[from + end + 1] = "newline"
      /\ \A p \in 1 .. end : s[from + p] # "newline"
  BY DEF LineAt
<1> HIDE DEF end
<1>7. \A p \in 1 .. end : t[to + p] = s[from + p]
  BY <1>5 DEF end
<1>8. \A k \in 1 .. M : t[to + Offset(w, k)] = "blank"
  BY <1>3, <1>6, <1>7
<1>9. \A k \in 1 .. M : \A j \in 1 .. w[k] : t[to + Offset(w, k - 1) + j] = "digit"
  BY <1>4, <1>6, <1>7
<1>10. t[to + end + 1] = "newline"
  <2>1. end + 1 \in 1 .. end + 1
    BY <1>5
  <2>2. t[to + (end + 1)] = s[from + (end + 1)]
    BY <2>1 DEF end
  <2> QED BY <2>2, <1>5, <1>6
<1> QED BY <1>6, <1>7, <1>8, <1>9, <1>10 DEF LineAt, end

LEMMA TextIs ==
    ASSUME NEW c \in AllChallenges
    PROVE  Text[c] \in Seq(Bytes) /\ Len(Text[c]) = TextEnd(c) /\ Holds(Text[c], c)
<1> DEFINE nl == <<"newline">>
           d == Digits(c.id)
           d1 == d \o nl
           d2 == d1 \o Digits(3)
           d3 == d2 \o nl
           la == MatrixLine(c.a)
           lb == MatrixLine(c.b)
           d4 == d3 \o la
           s == d4 \o lb
<1>1. /\ c.id \in Nat \ {0} /\ c.a \in Widths /\ c.b \in Widths
      /\ RowAAt(c) \in Nat /\ RowBAt(c) \in Nat /\ TextEnd(c) \in Nat
  BY ChallengeType
<1>2. Text[c] = s
  BY DEF Text
<1>3. nl \in Seq(Bytes) /\ Len(nl) = 1 /\ nl[1] = "newline"
  BY DEF Bytes
<1>4. d \in Seq(Bytes) /\ Len(d) = c.id /\ \A p \in 1 .. c.id : d[p] = "digit"
  BY <1>1, DigitsAre
<1>5. Digits(3) \in Seq(Bytes) /\ Len(Digits(3)) = 3 /\ \A p \in 1 .. 3 : Digits(3)[p] = "digit"
  BY DigitsAre
<1>6. /\ la \in Seq(Bytes) /\ Len(la) = Offset(c.a, M) + 1 /\ LineAt(la, 0, c.a)
      /\ lb \in Seq(Bytes) /\ Len(lb) = Offset(c.b, M) + 1 /\ LineAt(lb, 0, c.b)
  BY <1>1, MatrixLineIs
<1>7. Offset(c.a, M) \in Nat /\ Offset(c.b, M) \in Nat
  BY <1>1, OffsetsAscend, StreamAssumption
<1> HIDE DEF nl, d, la, lb
<1>20. d1 = d \o nl /\ d2 = d1 \o Digits(3) /\ d3 = d2 \o nl /\ d4 = d3 \o la /\ s = d4 \o lb
  OBVIOUS
<1> HIDE DEF d1, d2, d3, d4, s
<1>8. /\ d1 \in Seq(Bytes) /\ Len(d1) = c.id + 1
      /\ \A p \in 1 .. c.id : d1[p] = "digit"
      /\ d1[c.id + 1] = "newline"
  <2>1. /\ d1 \in Seq(Bytes) /\ Len(d1) = c.id + 1
        /\ \A p \in 1 .. c.id : d1[p] = d[p]
        /\ \A p \in 1 .. 1 : d1[c.id + p] = nl[p]
    <3>1. Joins(d1, d, c.id, nl, 1)
      BY <1>1, <1>3, <1>4, <1>20 DEF Joins
    <3> QED BY ONLY <3>1, Joined
  <2>2. d1[c.id + 1] = "newline"
    BY <2>1, <1>3
  <2> QED BY <1>4, <2>1, <2>2
<1>9. /\ d2 \in Seq(Bytes) /\ Len(d2) = c.id + 4
      /\ \A p \in 1 .. c.id : d2[p] = "digit"
      /\ d2[c.id + 1] = "newline"
      /\ \A p \in 1 .. 3 : d2[c.id + 1 + p] = "digit"
  <2>1. c.id + 1 \in Nat /\ 3 \in Nat
    BY <1>1
  <2>2. /\ d2 \in Seq(Bytes) /\ Len(d2) = c.id + 1 + 3
        /\ \A p \in 1 .. c.id + 1 : d2[p] = d1[p]
        /\ \A p \in 1 .. 3 : d2[c.id + 1 + p] = Digits(3)[p]
    <3>1. Joins(d2, d1, (c.id + 1), Digits(3), 3)
      BY <2>1, <1>5, <1>8, <1>20 DEF Joins
    <3> QED BY ONLY <3>1, Joined
  <2>3. c.id + 1 + 3 = c.id + 4 /\ c.id + 1 \in 1 .. c.id + 1 /\ \A p \in 1 .. c.id : p \in 1 .. c.id + 1
    BY <1>1
  <2> QED BY <2>2, <2>3, <1>5, <1>8
<1>10. /\ d3 \in Seq(Bytes) /\ Len(d3) = RowAAt(c)
       /\ \A p \in 1 .. c.id : d3[p] = "digit"
       /\ d3[c.id + 1] = "newline"
       /\ \A p \in 1 .. 3 : d3[c.id + 1 + p] = "digit"
       /\ d3[c.id + 5] = "newline"
  <2>1. c.id + 4 \in Nat /\ 1 \in Nat
    BY <1>1
  <2>2. /\ d3 \in Seq(Bytes) /\ Len(d3) = c.id + 4 + 1
        /\ \A p \in 1 .. c.id + 4 : d3[p] = d2[p]
        /\ \A p \in 1 .. 1 : d3[c.id + 4 + p] = nl[p]
    <3>1. Joins(d3, d2, (c.id + 4), nl, 1)
      BY <2>1, <1>3, <1>9, <1>20 DEF Joins
    <3> QED BY ONLY <3>1, Joined
  <2>3. /\ c.id + 4 + 1 = c.id + 5 /\ c.id + 1 \in 1 .. c.id + 4
        /\ \A p \in 1 .. c.id : p \in 1 .. c.id + 4
        /\ \A p \in 1 .. 3 : c.id + 1 + p \in 1 .. c.id + 4
    BY <1>1
  <2>4. d3[c.id + 4 + 1] = "newline"
    BY <2>2, <1>3
  <2> QED BY <2>2, <2>3, <2>4, <1>9 DEF RowAAt
<1>11. /\ d4 \in Seq(Bytes) /\ Len(d4) = RowBAt(c)
       /\ \A p \in 1 .. RowAAt(c) : d4[p] = d3[p]
       /\ \A p \in 1 .. Offset(c.a, M) + 1 : d4[RowAAt(c) + p] = la[p]
  <2>1. RowAAt(c) + (Offset(c.a, M) + 1) = RowBAt(c) /\ Offset(c.a, M) + 1 \in Nat
    BY <1>1, <1>7 DEF RowBAt
  <2>2. /\ d4 \in Seq(Bytes) /\ Len(d4) = RowAAt(c) + (Offset(c.a, M) + 1)
        /\ \A p \in 1 .. RowAAt(c) : d4[p] = d3[p]
        /\ \A p \in 1 .. Offset(c.a, M) + 1 : d4[RowAAt(c) + p] = la[p]
    <3>1. Joins(d4, d3, RowAAt(c), la, (Offset(c.a, M) + 1))
      BY <2>1, <1>1, <1>6, <1>10, <1>20 DEF Joins
    <3> QED BY ONLY <3>1, Joined
  <2> QED BY <2>1, <2>2
<1>12. /\ s \in Seq(Bytes) /\ Len(s) = TextEnd(c)
       /\ \A p \in 1 .. RowBAt(c) : s[p] = d4[p]
       /\ \A p \in 1 .. Offset(c.b, M) + 1 : s[RowBAt(c) + p] = lb[p]
  <2>1. RowBAt(c) + (Offset(c.b, M) + 1) = TextEnd(c) /\ Offset(c.b, M) + 1 \in Nat
    BY <1>1, <1>7 DEF TextEnd
  <2>2. /\ s \in Seq(Bytes) /\ Len(s) = RowBAt(c) + (Offset(c.b, M) + 1)
        /\ \A p \in 1 .. RowBAt(c) : s[p] = d4[p]
        /\ \A p \in 1 .. Offset(c.b, M) + 1 : s[RowBAt(c) + p] = lb[p]
    <3>1. Joins(s, d4, RowBAt(c), lb, (Offset(c.b, M) + 1))
      BY <2>1, <1>1, <1>6, <1>11, <1>20 DEF Joins
    <3> QED BY ONLY <3>1, Joined
  <2> QED BY <2>1, <2>2
<1>13. LineAt(s, RowBAt(c), c.b)
  <2>1. \A p \in 1 .. Offset(c.b, M) + 1 : s[RowBAt(c) + p] = lb[0 + p]
    BY <1>7, <1>12
  <2> QED BY <2>1, <1>1, <1>6, Moved
<1>14. LineAt(s, RowAAt(c), c.a)
  <2>1. \A p \in 1 .. Offset(c.a, M) + 1 : RowAAt(c) + p \in 1 .. RowBAt(c)
    BY <1>1, <1>7 DEF RowBAt
  <2>2. \A p \in 1 .. Offset(c.a, M) + 1 : s[RowAAt(c) + p] = la[0 + p]
    BY <2>1, <1>7, <1>11, <1>12
  <2> QED BY <2>2, <1>1, <1>6, Moved
<1>15. \A p \in 1 .. c.id + 5 : s[p] = d3[p]
  BY <1>1, <1>7, <1>11, <1>12 DEF RowAAt, RowBAt
<1>16. Holds(s, c)
  <2>1. /\ \A p \in 1 .. 3 : c.id + 1 + p \in 1 .. c.id + 5
        /\ \A p \in 1 .. c.id : p \in 1 .. c.id + 5
        /\ c.id + 1 \in 1 .. c.id + 5 /\ c.id + 5 \in 1 .. c.id + 5
        /\ TextEnd(c) <= TextEnd(c)
    BY <1>1
  <2> QED BY <2>1, <1>10, <1>12, <1>13, <1>14, <1>15 DEF Holds
<1> QED BY <1>2, <1>12, <1>16

\* What begins with the bytes of the text holds it.
LEMMA TextHeld ==
    ASSUME NEW c \in AllChallenges, NEW s \in Seq(Bytes), TextEnd(c) <= Len(s),
           \A p \in 1 .. TextEnd(c) : s[p] = Text[c][p]
    PROVE  Holds(s, c)
<1>1. /\ c.id \in Nat \ {0} /\ c.a \in Widths /\ c.b \in Widths
      /\ RowAAt(c) \in Nat /\ RowBAt(c) \in Nat /\ TextEnd(c) \in Nat
  BY ChallengeType
<1>2. Holds(Text[c], c)
  BY TextIs
<1>3. Offset(c.a, M) \in Nat /\ Offset(c.b, M) \in Nat
  BY <1>1, OffsetsAscend, StreamAssumption
<1>4. /\ \A p \in 1 .. c.id : p \in 1 .. TextEnd(c)
      /\ c.id + 1 \in 1 .. TextEnd(c) /\ c.id + 5 \in 1 .. TextEnd(c)
      /\ \A p \in 1 .. 3 : c.id + 1 + p \in 1 .. TextEnd(c)
  <2>1. TextEnd(c) \in Nat /\ c.id + 5 <= TextEnd(c)
    BY <1>1, <1>3 DEF RowAAt, RowBAt, TextEnd
  <2>2. c.id \in Nat
    BY <1>1
  <2> HIDE DEF TextEnd
  <2> QED BY <2>1, <2>2
<1>5. LineAt(s, RowAAt(c), c.a)
  <2>1. \A p \in 1 .. Offset(c.a, M) + 1 : RowAAt(c) + p \in 1 .. TextEnd(c)
    BY <1>1, <1>3 DEF RowBAt, TextEnd
  <2> QED BY <2>1, <1>1, <1>2, Moved DEF Holds
<1>6. LineAt(s, RowBAt(c), c.b)
  <2>1. \A p \in 1 .. Offset(c.b, M) + 1 : RowBAt(c) + p \in 1 .. TextEnd(c)
    BY <1>1, <1>3 DEF TextEnd
  <2> QED BY <2>1, <1>1, <1>2, Moved DEF Holds
<1> QED BY <1>2, <1>4, <1>5, <1>6 DEF Holds

-----------------------------------------------------------------------------
(***************************************************************************)
(* What the parsers read in the text.                                      *)
(***************************************************************************)
LEMMA FixedWidthAt ==
    ASSUME NEW w \in Widths, NEW s \in Seq(Bytes), NEW at \in Nat, LineAt(s, at, w),
           at + Offset(w, M) + 1 <= Len(s), NEW k \in 1 .. M
    PROVE  /\ FixedWidth(s, at + 1 + Offset(w, k - 1)) = w[k]
           /\ at + 1 + Offset(w, k - 1) + w[k] + 1 = at + 1 + Offset(w, k)
<1> DEFINE off == Offset(w, k - 1)
<1>1. M \in Nat \ {0}
  BY StreamAssumption
<1>2. /\ off \in Nat /\ Offset(w, k) \in Nat /\ Offset(w, M) \in Nat
      /\ Offset(w, k) = off + w[k] + 1
      /\ Offset(w, k) <= Offset(w, M)
  <2>1. k = M \/ k < M
    BY <1>1
  <2> QED BY <2>1, <1>1, OffsetsAscend
<1>3. w[k] \in {1, 2, 3}
  BY DEF Widths
<1>4. /\ s[at + Offset(w, k)] = "blank"
      /\ \A j \in 1 .. w[k] : s[at + off + j] = "digit"
  BY DEF LineAt
<1> HIDE DEF off
<1>5. Len(s) \in Nat /\ DOMAIN s = 1 .. Len(s)
  OBVIOUS
<1>6. at + 1 + off \in Nat /\ at + 1 + off + w[k] + 1 = at + 1 + Offset(w, k)
  <2>1. \A x, y, z, d \in Nat : z = y + d + 1 => x + 1 + y \in Nat /\ x + 1 + y + d + 1 = x + 1 + z
    OBVIOUS
  <2>2. w[k] \in Nat
    BY <1>3
  <2>3. at + 1 + off + w[k] + 1 = at + 1 + Offset(w, k)
    BY ONLY <2>1, <2>2, <1>2, at \in Nat
  <2>4. at + 1 + off \in Nat
    BY <1>2
  <2> QED BY <2>3, <2>4
<1>7. ASSUME w[k] = 1 PROVE FixedWidth(s, at + 1 + off) = w[k]
  <2>1. at + 1 + off + 1 = at + Offset(w, k)
    BY <1>2, <1>7
  <2>2. ~IsDigit(s, at + 1 + off + 1)
    BY <2>1, <1>4 DEF IsDigit
  <2> QED BY <2>2, <1>7 DEF FixedWidth
<1>8. ASSUME w[k] = 2 PROVE FixedWidth(s, at + 1 + off) = w[k]
  <2>1. at + 1 + off + 1 = at + off + 2 /\ at + 1 + off + 2 = at + Offset(w, k)
    BY <1>2, <1>8
  <2>2. at + off + 2 \in DOMAIN s /\ s[at + off + 2] = "digit"
    BY <1>2, <1>4, <1>5, <1>8
  <2>3. IsDigit(s, at + 1 + off + 1) /\ ~IsDigit(s, at + 1 + off + 2)
    BY <2>1, <2>2, <1>4 DEF IsDigit
  <2> QED BY <2>3, <1>8 DEF FixedWidth
<1>9. ASSUME w[k] = 3 PROVE FixedWidth(s, at + 1 + off) = w[k]
  <2>1. at + 1 + off + 1 = at + off + 2 /\ at + 1 + off + 2 = at + off + 3
    BY <1>2, <1>9
  <2>2. /\ at + off + 2 \in DOMAIN s /\ s[at + off + 2] = "digit"
        /\ at + off + 3 \in DOMAIN s /\ s[at + off + 3] = "digit"
    BY <1>2, <1>4, <1>5, <1>9
  <2>3. IsDigit(s, at + 1 + off + 1) /\ IsDigit(s, at + 1 + off + 2)
    BY <2>1, <2>2 DEF IsDigit
  <2> QED BY <2>3, <1>9 DEF FixedWidth
<1> QED BY <1>3, <1>6, <1>7, <1>8, <1>9 DEF off

\* start is where each of m values from p on begins, as ReadValues finds them.
IsStart(start, s, p, m) ==
    start = [k \in 1 .. m + 1 |->
                IF k = 1 THEN p ELSE start[k - 1] + FixedWidth(s, start[k - 1]) + 1]

LEMMA ReadLine ==
    ASSUME NEW w \in Widths, NEW s \in Seq(Bytes), NEW at \in Nat, LineAt(s, at, w),
           at + Offset(w, M) + 1 <= Len(s)
    PROVE  ReadValues(s, at + 1, M) = [vals |-> w, next |-> at + Offset(w, M) + 1]
<1> DEFINE f == [k \in 1 .. M + 1 |-> at + 1 + Offset(w, k - 1)]
           start == CHOOSE g : IsStart(g, s, at + 1, M)
<1>1. M \in Nat \ {0} /\ Offset(w, 0) = 0 /\ Offset(w, M) \in Nat
  BY StreamAssumption, OffsetsAscend
<1>2. \A k \in 1 .. M : /\ FixedWidth(s, f[k]) = w[k]
                        /\ f[k + 1] = f[k] + FixedWidth(s, f[k]) + 1
  <2> TAKE k \in 1 .. M
  <2>1. f[k] = at + 1 + Offset(w, k - 1) /\ f[k + 1] = at + 1 + Offset(w, k)
    <3>1. k \in 1 .. M + 1 /\ k + 1 \in 1 .. M + 1 /\ k + 1 - 1 = k
      BY <1>1
    <3> QED BY <3>1
  <2> HIDE DEF f
  <2> QED BY <2>1, FixedWidthAt
<1>3. f[1] = at + 1
  BY <1>1
<1>4. IsStart(f, s, at + 1, M)
  <2>1. \A k \in 1 .. M + 1 : f[k] = IF k = 1 THEN at + 1 ELSE f[k - 1] + FixedWidth(s, f[k - 1]) + 1
    <3> TAKE k \in 1 .. M + 1
    <3>1. CASE k = 1
      BY <3>1, <1>3
    <3>2. CASE k # 1
      <4>1. k - 1 \in 1 .. M /\ (k - 1) + 1 = k
        BY <1>1, <3>2
      <4> HIDE DEF f
      <4> QED BY <4>1, <3>2, <1>2
    <3> QED BY <3>1, <3>2
  <2>2. f = [k \in 1 .. M + 1 |-> f[k]]
    OBVIOUS
  <2> HIDE DEF f
  <2>3. f = [k \in 1 .. M + 1 |-> IF k = 1 THEN at + 1 ELSE f[k - 1] + FixedWidth(s, f[k - 1]) + 1]
    BY <2>1, <2>2
  <2> QED BY <2>3 DEF IsStart
<1>5. IsStart(start, s, at + 1, M)
  BY <1>4
<1>6. ReadValues(s, at + 1, M) = [vals |-> [k \in 1 .. M |-> FixedWidth(s, start[k])], next |-> start[M + 1]]
  BY DEF ReadValues, IsStart
<1>7. f[M + 1] = at + Offset(w, M) + 1
  <2>1. f[M + 1] = at + 1 + Offset(w, M + 1 - 1) /\ M + 1 - 1 = M
    BY <1>1
  <2> HIDE DEF f
  <2> QED BY <2>1, <1>1
<1> HIDE DEF f, start
<1>8. \A k \in 1 .. M + 1 : start[k] = f[k]
  <2> DEFINE S == {k \in 0 .. M : start[k + 1] = f[k + 1]}
  <2>1. /\ start[1] = at + 1
        /\ \A k \in 1 .. M : start[k + 1] = start[k] + FixedWidth(s, start[k]) + 1
    <3>1. 1 \in 1 .. M + 1 /\ \A k \in 1 .. M : k + 1 \in 1 .. M + 1 /\ k + 1 # 1 /\ (k + 1) - 1 = k
      BY <1>1
    <3>2. \A k \in 1 .. M + 1 : start[k] = IF k = 1 THEN at + 1 ELSE start[k - 1] + FixedWidth(s, start[k - 1]) + 1
      BY <1>5 DEF IsStart
    <3> QED BY <3>1, <3>2
  <2>2. 0 \in S
    BY <1>1, <1>3, <2>1
  <2>3. ASSUME NEW k \in 1 .. M, k - 1 \in S PROVE k \in S
    <3>1. start[k] = f[k]
      <4>1. (k - 1) + 1 = k
        OBVIOUS
      <4> QED BY <4>1, <2>3
    <3> QED BY <3>1, <1>1, <1>2, <2>1
  <2>4. 0 .. M \subseteq S
    <3> HIDE DEF S
    <3> QED BY <1>1, <2>2, <2>3, Climb
  <2>5. \A k \in 1 .. M + 1 : k - 1 \in 0 .. M /\ (k - 1) + 1 = k
    BY <1>1
  <2> QED BY <2>4, <2>5
<1>9. [k \in 1 .. M |-> FixedWidth(s, start[k])] = w
  <2>1. \A k \in 1 .. M : FixedWidth(s, start[k]) = w[k]
    BY <1>1, <1>2, <1>8
  <2>2. w = [k \in 1 .. M |-> w[k]]
    BY DEF Widths
  <2> QED BY <2>1, <2>2
<1>10. start[M + 1] = at + Offset(w, M) + 1
  BY <1>1, <1>7, <1>8
<1> QED BY <1>6, <1>9, <1>10

\* A scan for the end of a run of digits stops behind the last of them.
LEMMA RunEnds ==
    ASSUME NEW s \in Seq(Bytes), NEW p \in Nat \ {0}, NEW n \in Nat, p + n <= Len(s),
           \A k \in 0 .. n - 1 : s[p + k] = "digit", s[p + n] # "digit"
    PROVE  RunLength(s, p) = n
<1>0. Len(s) \in Nat /\ DOMAIN s = 1 .. Len(s)
  OBVIOUS
<1>1. \A k \in 0 .. n - 1 : IsDigit(s, p + k)
  <2> TAKE k \in 0 .. n - 1
  <2>1. p + k \in DOMAIN s
    BY <1>0
  <2> QED BY <2>1 DEF IsDigit
<1>2. ~IsDigit(s, p + n)
  BY DEF IsDigit
<1>3. n \in 0 .. Len(s)
  OBVIOUS
<1>4. ASSUME NEW m \in 0 .. Len(s), ~IsDigit(s, p + m), \A k \in 0 .. m - 1 : IsDigit(s, p + k)
      PROVE  m = n
  <2>1. ~(m < n)
    BY <1>1, <1>4
  <2>2. ~(n < m)
    BY <1>2, <1>4
  <2> QED BY <2>1, <2>2
<1> QED BY <1>1, <1>2, <1>3, <1>4 DEF RunLength

\* The places a reader of the text goes through.
LEMMA TextRead ==
    ASSUME NEW c \in AllChallenges, NEW s \in Seq(Bytes), Holds(s, c)
    PROVE  /\ RunLength(s, 1) = c.id
           /\ RunLength(s, c.id + 2) = 3
           /\ ReadValues(s, RowAAt(c) + 1, M) = [vals |-> c.a, next |-> RowBAt(c)]
           /\ ReadValues(s, RowBAt(c) + 1, M) = [vals |-> c.b, next |-> TextEnd(c)]
<1>1. /\ c.id \in Nat \ {0} /\ c.a \in Widths /\ c.b \in Widths
      /\ RowAAt(c) \in Nat /\ RowBAt(c) \in Nat /\ TextEnd(c) \in Nat
      /\ RowAAt(c) < RowBAt(c) /\ RowBAt(c) < TextEnd(c)
  BY ChallengeType
<1>2. Len(s) \in Nat /\ TextEnd(c) <= Len(s)
  BY DEF Holds
<1>3. c.id + 5 <= Len(s)
  BY <1>1, <1>2 DEF RowAAt
<1>4. RunLength(s, 1) = c.id
  <2>1. \A k \in 0 .. c.id - 1 : s[1 + k] = "digit"
    <3> TAKE k \in 0 .. c.id - 1
    <3>1. 1 + k \in 1 .. c.id
      BY <1>1
    <3> QED BY <3>1 DEF Holds
  <2>2. s[1 + c.id] # "digit" /\ 1 + c.id <= Len(s) /\ c.id \in Nat /\ 1 \in Nat \ {0}
    <3>1. 1 + c.id = c.id + 1 /\ s[c.id + 1] = "newline"
      BY <1>1 DEF Holds
    <3> QED BY <3>1, <1>1, <1>2, <1>3
  <2> QED BY <2>1, <2>2, RunEnds
<1>5. RunLength(s, c.id + 2) = 3
  <2>1. \A k \in 0 .. 3 - 1 : s[c.id + 2 + k] = "digit"
    <3> TAKE k \in 0 .. 3 - 1
    <3>1. c.id + 2 + k = c.id + 1 + (k + 1) /\ k + 1 \in 1 .. 3
      BY <1>1
    <3>2. s[c.id + 1 + (k + 1)] = "digit"
      BY <3>1 DEF Holds
    <3> QED BY <3>1, <3>2
  <2>2. s[c.id + 2 + 3] # "digit" /\ c.id + 2 + 3 <= Len(s) /\ c.id + 2 \in Nat \ {0}
    <3>1. c.id + 2 + 3 = c.id + 5 /\ s[c.id + 5] = "newline"
      BY <1>1 DEF Holds
    <3> QED BY <3>1, <1>1, <1>2, <1>3
  <2> QED BY <2>1, <2>2, RunEnds
<1>6. LineAt(s, RowAAt(c), c.a) /\ LineAt(s, RowBAt(c), c.b)
  BY DEF Holds
<1>7. RowAAt(c) + Offset(c.a, M) + 1 <= Len(s)
  BY <1>1, <1>2 DEF RowBAt
<1>8. RowBAt(c) + Offset(c.b, M) + 1 <= Len(s)
  BY <1>2 DEF TextEnd
<1>9. ReadValues(s, RowAAt(c) + 1, M) = [vals |-> c.a, next |-> RowAAt(c) + Offset(c.a, M) + 1]
  BY <1>1, <1>6, <1>7, ReadLine
<1>10. ReadValues(s, RowBAt(c) + 1, M) = [vals |-> c.b, next |-> RowBAt(c) + Offset(c.b, M) + 1]
  BY <1>1, <1>6, <1>8, ReadLine
<1> QED BY <1>4, <1>5, <1>9, <1>10 DEF RowBAt, TextEnd

\* hftclient2026 reads the challenge it is at.
LEMMA RetainingReads ==
    ASSUME NEW c \in AllChallenges, buf \in Seq(Bytes), Holds(buf, c)
    PROVE  Parse = c
<1>1. c \in Challenge /\ c.id \in Nat
  BY ChallengeType
<1>2. c.id + 2 + 3 + 1 = RowAAt(c) + 1
  BY <1>1 DEF RowAAt
<1>3. Parse = [id |-> c.id, a |-> c.a, b |-> c.b]
  <2>1. ReadValues(buf, c.id + 2 + 3 + 1, M) = [vals |-> c.a, next |-> RowBAt(c)]
    BY <1>2, TextRead
  <2>2. ReadValues(buf, RowBAt(c) + 1, M) = [vals |-> c.b, next |-> TextEnd(c)]
    BY TextRead
  <2>3. RunLength(buf, 1) = c.id /\ RunLength(buf, c.id + 2) = 3
    BY TextRead
  <2> QED BY <2>1, <2>2, <2>3 DEF Parse
<1> QED BY <1>1, <1>3 DEF Challenge

\* client, with an id of up to three digits, finds A and B, with the worker or without.
LEMMA LowLatencyReads ==
    ASSUME NEW c \in AllChallenges, c.id <= 3, buf \in Seq(Bytes), Holds(buf, c)
    PROVE  /\ RowA = RowAAt(c) + 1
           /\ FindNewline(buf, RowA) = RowBAt(c)
           /\ \A useWorker \in BOOLEAN : ParseFixed(useWorker) = Matrices(c)
<1>1. /\ c.id \in {1, 2, 3} /\ c.a \in Widths /\ c.b \in Widths
      /\ RowAAt(c) \in Nat /\ RowBAt(c) \in Nat /\ TextEnd(c) \in Nat
      /\ RowAAt(c) < RowBAt(c) /\ RowBAt(c) < TextEnd(c)
  BY ChallengeType
<1>2. Len(buf) \in Nat /\ TextEnd(c) <= Len(buf) /\ DOMAIN buf = 1 .. Len(buf)
  BY DEF Holds
<1>3. c.id + 5 <= Len(buf)
  BY <1>1, <1>2 DEF RowAAt
<1>4. \A p \in 1 .. c.id : IsDigit(buf, p)
  BY <1>1, <1>2, <1>3 DEF IsDigit, Holds
<1>5. ~IsDigit(buf, c.id + 1)
  BY DEF IsDigit, Holds
<1>6. FixedWidth(buf, 1) = c.id
  <2>1. CASE c.id = 1
    <3>1. ~IsDigit(buf, 1 + 1)
      BY <1>5, <2>1
    <3> QED BY <3>1, <2>1 DEF FixedWidth
  <2>2. CASE c.id = 2
    <3>1. IsDigit(buf, 1 + 1) /\ ~IsDigit(buf, 1 + 2)
      BY <1>4, <1>5, <2>2
    <3> QED BY <3>1, <2>2 DEF FixedWidth
  <2>3. CASE c.id = 3
    <3>1. IsDigit(buf, 1 + 1) /\ IsDigit(buf, 1 + 2)
      BY <1>4, <2>3
    <3> QED BY <3>1, <2>3 DEF FixedWidth
  <2> QED BY <1>1, <2>1, <2>2, <2>3
<1>7. FixedWidth(buf, c.id + 2) = 3
  <2>1. \A p \in 1 .. 3 : buf[c.id + 1 + p] = "digit"
    BY DEF Holds
  <2>2. /\ c.id + 2 + 1 = c.id + 1 + 2 /\ c.id + 2 + 2 = c.id + 1 + 3
        /\ c.id + 1 + 2 \in 1 .. Len(buf) /\ c.id + 1 + 3 \in 1 .. Len(buf)
    BY <1>1, <1>2, <1>3
  <2>3. IsDigit(buf, c.id + 2 + 1) /\ IsDigit(buf, c.id + 2 + 2)
    BY <2>1, <2>2, <1>2 DEF IsDigit
  <2> QED BY <2>3 DEF FixedWidth
<1>8. RowA = RowAAt(c) + 1
  <2>1. 1 + c.id + 1 = c.id + 2 /\ c.id + 2 + 3 + 1 = RowAAt(c) + 1
    BY <1>1 DEF RowAAt
  <2> QED BY <2>1, <1>6, <1>7 DEF RowA
<1>9. FindNewline(buf, RowAAt(c) + 1) = RowBAt(c)
  <2> DEFINE found == {q \in RowAAt(c) + 1 .. Len(buf) : buf[q] = "newline"}
  <2>1. LineAt(buf, RowAAt(c), c.a) /\ Offset(c.a, M) \in Nat
    BY <1>1, OffsetsAscend, StreamAssumption DEF Holds
  <2>2. RowBAt(c) \in found
    BY <2>1, <1>1, <1>2 DEF LineAt, RowBAt
  <2>3. ASSUME NEW q \in found PROVE RowBAt(c) <= q
    <3>1. CASE q <= RowAAt(c) + Offset(c.a, M)
      <4>1. q - RowAAt(c) \in 1 .. Offset(c.a, M) /\ RowAAt(c) + (q - RowAAt(c)) = q
        BY <2>1, <1>1, <1>2, <3>1
      <4>2. buf[RowAAt(c) + (q - RowAAt(c))] # "newline"
        BY <4>1, <2>1 DEF LineAt
      <4> QED BY <4>1, <4>2
    <3>2. CASE ~(q <= RowAAt(c) + Offset(c.a, M))
      BY <3>2, <2>1, <1>1, <1>2 DEF RowBAt
    <3> QED BY <3>1, <3>2
  <2>4. \A q \in found : q \in Nat
    BY <1>1, <1>2
  <2> HIDE DEF found
  <2>5. ASSUME NEW q \in found, \A r \in found : q <= r PROVE q = RowBAt(c)
    <3>1. q <= RowBAt(c) /\ RowBAt(c) <= q /\ q \in Nat
      BY <2>2, <2>3, <2>4, <2>5
    <3> QED BY <3>1, <1>1
  <2>6. (CHOOSE q \in found : \A r \in found : q <= r) = RowBAt(c)
    BY <2>2, <2>3, <2>5
  <2> QED BY <2>2, <2>6 DEF FindNewline, found
<1>10. /\ ReadValues(buf, RowAAt(c) + 1, M) = [vals |-> c.a, next |-> RowBAt(c)]
       /\ ReadValues(buf, RowBAt(c) + 1, M) = [vals |-> c.b, next |-> TextEnd(c)]
  BY TextRead
<1>11. \A useWorker \in BOOLEAN : ParseFixed(useWorker) = [a |-> c.a, b |-> c.b]
  BY <1>8, <1>9, <1>10 DEF ParseFixed
<1> QED BY <1>8, <1>9, <1>11 DEF Matrices

\* Every byte of a line but its newline is of some value or the blank behind it.
LEMMA InLine ==
    ASSUME NEW w \in Widths, NEW q \in 1 .. Offset(w, M)
    PROVE  \E k \in 1 .. M : Offset(w, k - 1) < q /\ q <= Offset(w, k)
<1> DEFINE T == {k \in 1 .. M : q <= Offset(w, k)}
<1>1. M \in Nat \ {0} /\ Offset(w, 0) = 0 /\ \A k \in 0 .. M : Offset(w, k) \in Nat
  BY StreamAssumption, OffsetsAscend
<1>2. T \in SUBSET (1 .. M) /\ M \in T
  BY <1>1
<1>3. PICK m \in T : \A j \in T : m <= j
  <2> HIDE DEF T
  <2>1. M \in Nat /\ T # {}
    BY <1>1, <1>2
  <2> QED BY <2>1, <1>2, LeastPosition
<1>4. m \in 1 .. M /\ q <= Offset(w, m)
  BY <1>3
<1>5. Offset(w, m - 1) < q
  <2>1. CASE m = 1
    <3>1. m - 1 = 0
      BY <2>1
    <3> QED BY <3>1, <1>1
  <2>2. CASE m # 1
    <3>1. m - 1 \in 1 .. M /\ m - 1 < m
      BY <1>1, <1>4, <2>2
    <3>2. m - 1 \notin T
      <4> HIDE DEF T
      <4>1. m \in Nat
        BY <1>4
      <4> QED BY <4>1, <3>1, <1>3
    <3>3. ~(q <= Offset(w, m - 1)) /\ Offset(w, m - 1) \in Nat
      BY <3>1, <3>2, <1>1
    <3> QED BY <3>3, <1>1
  <2> QED BY <2>1, <2>2
<1> QED BY <1>4, <1>5

\* Where the runs of digits of a line begin.
LEMMA LineStarts ==
    ASSUME NEW w \in Widths, NEW s \in Seq(Bytes), NEW at \in Nat, LineAt(s, at, w), ~IsDigit(s, at),
           at + Offset(w, M) + 1 <= Len(s), NEW i \in at + 1 .. at + Offset(w, M) + 1
    PROVE  (s[i] = "digit" /\ ~IsDigit(s, i - 1)) <=> \E k \in 1 .. M : i = at + 1 + Offset(w, k - 1)
<1>1. M \in Nat \ {0} /\ Offset(w, 0) = 0 /\ \A k \in 0 .. M : Offset(w, k) \in Nat
  BY StreamAssumption, OffsetsAscend
<1>2. \A k \in 1 .. M : /\ w[k] \in 1 .. 3
                        /\ Offset(w, k - 1) \in Nat
                        /\ Offset(w, k) \in Nat
                        /\ Offset(w, k) <= Offset(w, M)
                        /\ Offset(w, k) = Offset(w, k - 1) + w[k] + 1
  <2> TAKE k \in 1 .. M
  <2>1. w[k] \in 1 .. 3
    BY DEF Widths
  <2>2. k - 1 \in 0 .. M /\ k \in 0 .. M /\ (k = M \/ k < M) /\ M \in 0 .. M
    BY <1>1
  <2> QED BY <2>1, <2>2, <1>1, OffsetsAscend
<1>3. /\ \A k \in 1 .. M : s[at + Offset(w, k)] = "blank"
      /\ \A k \in 1 .. M : \A j \in 1 .. w[k] : s[at + Offset(w, k - 1) + j] = "digit"
      /\ s[at + Offset(w, M) + 1] = "newline"
  BY DEF LineAt
<1>4. ASSUME NEW k \in 1 .. M, i = at + 1 + Offset(w, k - 1)
      PROVE  s[i] = "digit" /\ ~IsDigit(s, i - 1)
  <2>1. i = at + Offset(w, k - 1) + 1 /\ i - 1 = at + Offset(w, k - 1) /\ 1 \in 1 .. w[k]
    BY <1>2, <1>4
  <2>2. s[i] = "digit"
    BY <2>1, <1>3
  <2>3. ~IsDigit(s, i - 1)
    <3>1. CASE k = 1
      <4>1. i - 1 = at
        BY <3>1, <2>1, <1>1
      <4> QED BY <4>1
    <3>2. CASE k # 1
      <4>1. k - 1 \in 1 .. M
        BY <1>1, <3>2
      <4>2. s[at + Offset(w, k - 1)] = "blank"
        BY <4>1, <1>3
      <4> QED BY <4>2, <2>1 DEF IsDigit
    <3> QED BY <3>1, <3>2
  <2> QED BY <2>2, <2>3
<1>5. ASSUME s[i] = "digit", ~IsDigit(s, i - 1)
      PROVE  \E k \in 1 .. M : i = at + 1 + Offset(w, k - 1)
  <2> DEFINE q == i - at
  <2>0. Offset(w, M) \in Nat
    BY <1>1
  <2>1. q \in 1 .. Offset(w, M) /\ i = at + q
    <3>1. q # Offset(w, M) + 1
      <4> SUFFICES ASSUME q = Offset(w, M) + 1 PROVE FALSE
        OBVIOUS
      <4>1. i = at + Offset(w, M) + 1
        BY <2>0
      <4> QED BY <4>1, <1>3, <1>5
    <3> QED BY <3>1, <2>0
  <2> HIDE DEF q
  <2>2. PICK k \in 1 .. M : Offset(w, k - 1) < q /\ q <= Offset(w, k)
    BY <2>1, InLine
  <2> DEFINE off == Offset(w, k - 1)
             d == w[k]
             j == q - off
  <2>3. off \in Nat /\ d \in 1 .. 3 /\ Offset(w, k) = off + d + 1 /\ q \in Nat /\ off < q
    BY <2>1, <2>2, <1>2
  <2>4. q # Offset(w, k)
    BY <2>1, <1>3, <1>5
  <2>5. /\ s[at + off + 1] = "digit"
        /\ \A l \in 1 .. d : s[at + off + l] = "digit"
    BY <1>3, <2>3
  <2> HIDE DEF off, d
  <2>6. j \in 1 .. d /\ i = at + off + j
    BY ONLY <2>1, <2>2, <2>3, <2>4, at \in Nat DEF off
  <2>7. j = 1
    <3> SUFFICES ASSUME j # 1 PROVE FALSE
      OBVIOUS
    <3> HIDE DEF j
    <3>1. j - 1 \in 1 .. d /\ i - 1 = at + off + (j - 1)
      BY ONLY <2>3, <2>6, j # 1, at \in Nat
    <3>2. s[i - 1] = "digit"
      BY <3>1, <2>5
    <3>3. i - 1 \in 1 .. Len(s)
      <4>1. i - 1 \in Nat /\ i - 1 >= 1
        BY ONLY <2>3, <3>1, at \in Nat
      <4> QED BY <4>1, <2>0
    <3>4. IsDigit(s, i - 1)
      BY <3>2, <3>3 DEF IsDigit
    <3> QED BY <3>4, <1>5
  <2>8. i = at + 1 + off
    BY ONLY <2>3, <2>6, <2>7, at \in Nat
  <2> QED BY <2>8 DEF off
<1> QED BY <1>4, <1>5

LEMMA LineRuns ==
    ASSUME NEW w \in Widths, NEW s \in Seq(Bytes), NEW at \in Nat, LineAt(s, at, w),
           at + Offset(w, M) + 1 <= Len(s), NEW k \in 1 .. M
    PROVE  RunLength(s, at + 1 + Offset(w, k - 1)) = w[k]
<1> DEFINE off == Offset(w, k - 1)
           p == at + 1 + off
<1>1. M \in Nat \ {0}
  BY StreamAssumption
<1>2. /\ off \in Nat /\ Offset(w, k) \in Nat /\ Offset(w, M) \in Nat
      /\ Offset(w, k) = off + w[k] + 1
      /\ Offset(w, k) <= Offset(w, M)
  <2>1. k = M \/ k < M
    BY <1>1
  <2> QED BY <2>1, <1>1, OffsetsAscend
<1>3. w[k] \in {1, 2, 3}
  BY DEF Widths
<1>4. /\ s[at + Offset(w, k)] = "blank"
      /\ \A j \in 1 .. w[k] : s[at + off + j] = "digit"
  BY DEF LineAt
<1> HIDE DEF off
<1>5. \A i \in 0 .. w[k] - 1 : s[p + i] = "digit"
  <2> TAKE i \in 0 .. w[k] - 1
  <2>1. p + i = at + off + (i + 1) /\ i + 1 \in 1 .. w[k]
    BY <1>2, <1>3
  <2> HIDE DEF p
  <2> QED BY <2>1, <1>4
<1>6. p + w[k] = at + Offset(w, k)
  BY ONLY <1>2, <1>3, at \in Nat DEF p
<1>7. p \in Nat \ {0} /\ w[k] \in Nat /\ p + w[k] <= Len(s)
  <2>1. Len(s) \in Nat
    OBVIOUS
  <2> QED BY <2>1, <1>2, <1>3, <1>6
<1> HIDE DEF p
<1>8. s[p + w[k]] # "digit"
  BY <1>4, <1>6
<1>9. RunLength(s, p) = w[k]
  BY <1>5, <1>7, <1>8, RunEnds
<1> QED BY <1>9 DEF p, off

\* Where the runs of digits of the text begin.
LEMMA TextStarts ==
    ASSUME NEW c \in AllChallenges, NEW s \in Seq(Bytes), Holds(s, c), NEW i \in 1 .. TextEnd(c)
    PROVE  (s[i] = "digit" /\ ~IsDigit(s, i - 1)) <=>
               \/ i = 1
               \/ i = c.id + 2
               \/ \E k \in 1 .. M : i = RowAAt(c) + 1 + Offset(c.a, k - 1)
               \/ \E k \in 1 .. M : i = RowBAt(c) + 1 + Offset(c.b, k - 1)
<1> DEFINE InA == \E k \in 1 .. M : i = RowAAt(c) + 1 + Offset(c.a, k - 1)
           InB == \E k \in 1 .. M : i = RowBAt(c) + 1 + Offset(c.b, k - 1)
           Start == s[i] = "digit" /\ ~IsDigit(s, i - 1)
<1>1. /\ c.id \in Nat \ {0} /\ c.a \in Widths /\ c.b \in Widths
      /\ RowAAt(c) \in Nat /\ RowBAt(c) \in Nat /\ TextEnd(c) \in Nat
      /\ RowAAt(c) < RowBAt(c) /\ RowBAt(c) < TextEnd(c)
  BY ChallengeType
<1>2. Len(s) \in Nat /\ TextEnd(c) <= Len(s) /\ DOMAIN s = 1 .. Len(s)
  BY DEF Holds
<1>3. /\ RowAAt(c) = c.id + 5
      /\ RowBAt(c) = RowAAt(c) + Offset(c.a, M) + 1
      /\ TextEnd(c) = RowBAt(c) + Offset(c.b, M) + 1
      /\ Offset(c.a, M) \in Nat /\ Offset(c.b, M) \in Nat
  <2>1. Offset(c.a, M) \in Nat /\ Offset(c.b, M) \in Nat
    BY <1>1, OffsetsAscend, StreamAssumption
  <2> QED BY <2>1 DEF RowAAt, RowBAt, TextEnd
<1>13. RowAAt(c) = c.id + 5
  BY DEF RowAAt
<1>4. LineAt(s, RowAAt(c), c.a) /\ LineAt(s, RowBAt(c), c.b)
  BY DEF Holds
<1>5. s[RowAAt(c)] = "newline" /\ s[RowBAt(c)] = "newline" /\ s[c.id + 1] = "newline"
  BY <1>3, <1>4 DEF Holds, LineAt
<1>6. /\ InA => RowAAt(c) < i /\ i <= RowBAt(c)
      /\ InB => RowBAt(c) < i
  <2>1. \A k \in 1 .. M : /\ Offset(c.a, k - 1) \in Nat /\ Offset(c.b, k - 1) \in Nat
                          /\ Offset(c.a, k - 1) <= Offset(c.a, M)
    <3> TAKE k \in 1 .. M
    <3>1. k - 1 \in 0 .. M /\ M \in 0 .. M /\ k - 1 < M
      BY StreamAssumption
    <3>2. Offset(c.a, k - 1) < Offset(c.a, M) /\ Offset(c.a, k - 1) \in Nat /\ Offset(c.b, k - 1) \in Nat
      BY <3>1, <1>1, OffsetsAscend
    <3> QED BY <3>2, <1>3
  <2>2. ASSUME InA PROVE RowAAt(c) < i /\ i <= RowBAt(c)
    <3>1. PICK k \in 1 .. M : i = RowAAt(c) + 1 + Offset(c.a, k - 1)
      BY <2>2
    <3> HIDE DEF InA, InB, Start
    <3>2. \A x, y, z, e \in Nat : (y <= z /\ e = x + z + 1) => x < x + 1 + y /\ x + 1 + y <= e
      OBVIOUS
    <3> QED BY ONLY <3>1, <3>2, <2>1, <1>1, <1>3
  <2>3. ASSUME InB PROVE RowBAt(c) < i
    <3>1. PICK k \in 1 .. M : i = RowBAt(c) + 1 + Offset(c.b, k - 1)
      BY <2>3
    <3>2. \A x, y \in Nat : x < x + 1 + y
      OBVIOUS
    <3> QED BY ONLY <3>1, <3>2, <2>1, <1>1
  <2> QED BY <2>2, <2>3
<1> HIDE DEF InA, InB
<1>7. ASSUME i \in 1 .. c.id PROVE Start <=> (i = 1 \/ i = c.id + 2 \/ InA \/ InB)
  <2>1. ~InA /\ ~InB /\ i # c.id + 2
    BY ONLY i \in 1 .. TextEnd(c), <1>1, <1>13, <1>6, <1>7
  <2>2. s[i] = "digit"
    BY <1>7 DEF Holds
  <2>3. i = 1 => ~IsDigit(s, i - 1)
    BY <1>2 DEF IsDigit
  <2>4. i # 1 => IsDigit(s, i - 1)
    <3> HAVE i # 1
    <3>1. i - 1 \in 1 .. c.id /\ i - 1 \in 1 .. Len(s)
      BY <1>1, <1>2, <1>7
    <3> QED BY <3>1, <1>2 DEF IsDigit, Holds
  <2> QED BY <2>1, <2>2, <2>3, <2>4
<1>8. ASSUME i = c.id + 1 \/ i = c.id + 5 PROVE Start <=> (i = 1 \/ i = c.id + 2 \/ InA \/ InB)
  <2>1. ~InA /\ ~InB /\ i # c.id + 2 /\ i # 1
    BY ONLY i \in 1 .. TextEnd(c), <1>1, <1>13, <1>6, <1>8
  <2>2. s[i] # "digit"
    BY <1>3, <1>5, <1>8
  <2> QED BY <2>1, <2>2
<1>9. ASSUME i \in c.id + 2 .. c.id + 4 PROVE Start <=> (i = 1 \/ i = c.id + 2 \/ InA \/ InB)
  <2>1. ~InA /\ ~InB /\ i # 1
    BY ONLY i \in 1 .. TextEnd(c), <1>1, <1>13, <1>6, <1>9
  <2>2. \A p \in 1 .. 3 : s[c.id + 1 + p] = "digit"
    BY DEF Holds
  <2>3. s[i] = "digit"
    <3>1. i - (c.id + 1) \in 1 .. 3 /\ c.id + 1 + (i - (c.id + 1)) = i
      BY ONLY i \in 1 .. TextEnd(c), <1>1, <1>9
    <3> QED BY <3>1, <2>2
  <2>4. i = c.id + 2 => ~IsDigit(s, i - 1)
    <3> HAVE i = c.id + 2
    <3>1. i - 1 = c.id + 1
      BY <1>1
    <3> QED BY <3>1, <1>5 DEF IsDigit
  <2>5. i # c.id + 2 => IsDigit(s, i - 1)
    <3> HAVE i # c.id + 2
    <3>1. i - 1 - (c.id + 1) \in 1 .. 3 /\ c.id + 1 + (i - 1 - (c.id + 1)) = i - 1
      BY <1>1, <1>9
    <3>2. s[i - 1] = "digit"
      BY <3>1, <2>2
    <3>3. i - 1 \in 1 .. Len(s)
      BY ONLY i \in 1 .. TextEnd(c), <1>1, <1>2, <1>9
    <3> QED BY <3>2, <3>3, <1>2 DEF IsDigit
  <2> QED BY <2>1, <2>3, <2>4, <2>5
<1>10. ASSUME RowAAt(c) < i, i <= RowBAt(c) PROVE Start <=> (i = 1 \/ i = c.id + 2 \/ InA \/ InB)
  <2>1. ~InB /\ i # 1 /\ i # c.id + 2
    BY ONLY i \in 1 .. TextEnd(c), <1>1, <1>13, <1>6, <1>10
  <2>2. i \in RowAAt(c) + 1 .. RowAAt(c) + Offset(c.a, M) + 1
    BY <1>1, <1>3, <1>10
  <2>3. ~IsDigit(s, RowAAt(c)) /\ RowAAt(c) + Offset(c.a, M) + 1 <= Len(s)
    BY <1>1, <1>2, <1>3, <1>5 DEF IsDigit
  <2>4. Start <=> InA
    BY <2>2, <2>3, <1>1, <1>4, LineStarts DEF InA
  <2> QED BY <2>1, <2>4
<1>11. ASSUME RowBAt(c) < i PROVE Start <=> (i = 1 \/ i = c.id + 2 \/ InA \/ InB)
  <2>1. ~InA /\ i # 1 /\ i # c.id + 2
    BY ONLY i \in 1 .. TextEnd(c), <1>1, <1>13, <1>6, <1>11
  <2>2. i \in RowBAt(c) + 1 .. RowBAt(c) + Offset(c.b, M) + 1
    BY <1>1, <1>3, <1>11
  <2>3. ~IsDigit(s, RowBAt(c)) /\ RowBAt(c) + Offset(c.b, M) + 1 <= Len(s)
    BY <1>1, <1>2, <1>3, <1>5 DEF IsDigit
  <2>4. Start <=> InB
    BY <2>2, <2>3, <1>1, <1>4, LineStarts DEF InB
  <2> QED BY <2>1, <2>4
<1>12. \/ i \in 1 .. c.id \/ i = c.id + 1 \/ i = c.id + 5 \/ i \in c.id + 2 .. c.id + 4
       \/ (RowAAt(c) < i /\ i <= RowBAt(c)) \/ RowBAt(c) < i
  BY ONLY i \in 1 .. TextEnd(c), <1>1, <1>13
<1> QED BY <1>7, <1>8, <1>9, <1>10, <1>11, <1>12 DEF InA, InB

Ascending(f, n, T) ==
    /\ f \in [1 .. n -> Int]
    /\ \A j, k \in 1 .. n : j < k => f[j] < f[k]
    /\ T = {f[j] : j \in 1 .. n}

Kth(T, k) == {i \in T : Cardinality({j \in T : j <= i}) = k}

\* The k-th of the numbers in an ascending list is the one with k numbers up to it.
LEMMA TokenIs ==
    ASSUME NEW n \in Nat, NEW f, NEW T, Ascending(f, n, T), NEW k \in 1 .. n
    PROVE  Kth(T, k) = {f[k]}
<1> USE DEF Ascending, Kth
<1>1. \A m \in 1 .. n : Cardinality({x \in T : x <= f[m]}) = m
  BY CountUpTo
<1>2. f[k] \in T
  OBVIOUS
<1>3. ASSUME NEW i \in T, Cardinality({j \in T : j <= i}) = k PROVE i = f[k]
  <2>1. PICK m \in 1 .. n : i = f[m]
    OBVIOUS
  <2>2. m = k
    BY <2>1, <1>1, <1>3
  <2> QED BY <2>1, <2>2
<1> QED BY <1>1, <1>2, <1>3

\* client_naive, which splits the whole buffer into numbers, finds the values of A and of B
\* behind the id and the dimension.
LEMMA NaiveReads ==
    ASSUME NEW c \in AllChallenges, buf \in Seq(Bytes), Holds(buf, c), Len(buf) = TextEnd(c)
    PROVE  ParseTokens = Matrices(c)
<1> DEFINE n == 2 + M + M
           inA(k) == RowAAt(c) + 1 + Offset(c.a, k - 1)
           inB(k) == RowBAt(c) + 1 + Offset(c.b, k - 1)
           f == [k \in 1 .. n |-> IF k = 1 THEN 1 ELSE IF k = 2 THEN c.id + 2
                                  ELSE IF k <= 2 + M THEN inA(k - 2) ELSE inB(k - (2 + M))]
           starts == {i \in DOMAIN buf : buf[i] = "digit" /\ ~IsDigit(buf, i - 1)}
           token(k) == {i \in starts : Cardinality({j \in starts : j <= i}) = k}
           value(k) == IF token(k) = {} THEN 0 ELSE RunLength(buf, CHOOSE i \in token(k) : TRUE)
<1>1. /\ c.id \in Nat \ {0} /\ c.a \in Widths /\ c.b \in Widths
      /\ RowAAt(c) \in Nat /\ RowBAt(c) \in Nat /\ TextEnd(c) \in Nat
      /\ RowAAt(c) < RowBAt(c) /\ RowBAt(c) < TextEnd(c)
  BY ChallengeType
<1>2. M \in Nat \ {0} /\ n \in Nat
  BY StreamAssumption
<1>3. RowAAt(c) = c.id + 5
  BY DEF RowAAt
<1>4. /\ \A k \in 1 .. M : inA(k) \in Nat /\ RowAAt(c) < inA(k) /\ inA(k) <= RowBAt(c)
      /\ \A k \in 1 .. M : inB(k) \in Nat /\ RowBAt(c) < inB(k) /\ inB(k) <= TextEnd(c)
      /\ \A j, k \in 1 .. M : j < k => inA(j) < inA(k)
      /\ \A j, k \in 1 .. M : j < k => inB(j) < inB(k)
  <2>1. ASSUME NEW w \in Widths, NEW at \in Nat
        PROVE  /\ \A k \in 1 .. M : at + 1 + Offset(w, k - 1) \in Nat /\ at < at + 1 + Offset(w, k - 1)
                                    /\ at + 1 + Offset(w, k - 1) <= at + Offset(w, M) + 1
               /\ \A j, k \in 1 .. M : j < k => at + 1 + Offset(w, j - 1) < at + 1 + Offset(w, k - 1)
    <3>1. \A k \in 1 .. M : k - 1 \in 0 .. M /\ k - 1 < M
      BY <1>2
    <3>2. M \in 0 .. M /\ \A k \in 0 .. M : Offset(w, k) \in Nat
      BY <1>2, OffsetsAscend
    <3>3. \A j, k \in 0 .. M : j < k => Offset(w, j) < Offset(w, k)
      BY OffsetsAscend
    <3>4. ASSUME NEW k \in 1 .. M
          PROVE  /\ at + 1 + Offset(w, k - 1) \in Nat /\ at < at + 1 + Offset(w, k - 1)
                 /\ at + 1 + Offset(w, k - 1) <= at + Offset(w, M) + 1
      <4>1. Offset(w, k - 1) \in Nat /\ Offset(w, M) \in Nat /\ Offset(w, k - 1) < Offset(w, M)
        BY <3>1, <3>2, <3>3
      <4> QED BY ONLY <4>1, at \in Nat
    <3>5. ASSUME NEW j \in 1 .. M, NEW k \in 1 .. M, j < k
          PROVE  at + 1 + Offset(w, j - 1) < at + 1 + Offset(w, k - 1)
      <4>1. j - 1 < k - 1
        BY <3>5
      <4>2. Offset(w, j - 1) \in Nat /\ Offset(w, k - 1) \in Nat /\ Offset(w, j - 1) < Offset(w, k - 1)
        BY <4>1, <3>1, <3>2, <3>3
      <4> QED BY ONLY <4>2, at \in Nat
    <3> QED BY <3>4, <3>5
  <2>2. RowAAt(c) + Offset(c.a, M) + 1 = RowBAt(c) /\ RowBAt(c) + Offset(c.b, M) + 1 = TextEnd(c)
    BY DEF RowBAt, TextEnd
  <2> QED BY <2>1, <2>2, <1>1
<1> HIDE DEF inA, inB
<1>5. /\ 1 \in 1 .. n /\ 2 \in 1 .. n
      /\ \A k \in 1 .. M : k + 2 \in 1 .. n /\ k + (2 + M) \in 1 .. n
      /\ \A k \in 1 .. n : \/ k = 1 \/ k = 2
                           \/ (k \notin {1, 2} /\ k <= 2 + M /\ k - 2 \in 1 .. M)
                           \/ (k \notin {1, 2} /\ ~(k <= 2 + M) /\ k - (2 + M) \in 1 .. M)
  BY <1>2
<1> HIDE DEF n
<1>6. /\ f[1] = 1 /\ f[2] = c.id + 2
      /\ \A k \in 1 .. n : k \notin {1, 2} /\ k <= 2 + M => f[k] = inA(k - 2)
      /\ \A k \in 1 .. n : k \notin {1, 2} /\ ~(k <= 2 + M) => f[k] = inB(k - (2 + M))
      /\ f = [k \in 1 .. n |-> f[k]]
  BY <1>5
<1> HIDE DEF f
<1>7. /\ \A k \in 1 .. M : f[k + 2] = inA(k) /\ f[k + (2 + M)] = inB(k)
  <2>1. \A k \in 1 .. M : /\ k + 2 \notin {1, 2} /\ k + 2 <= 2 + M /\ (k + 2) - 2 = k
                          /\ k + (2 + M) \notin {1, 2} /\ ~(k + (2 + M) <= 2 + M) /\ (k + (2 + M)) - (2 + M) = k
    BY <1>2
  <2> QED BY <2>1, <1>5, <1>6
<1>8. f \in [1 .. n -> Int]
  <2>1. \A k \in 1 .. n : f[k] \in Int
    BY <1>1, <1>4, <1>5, <1>6
  <2> QED BY <2>1, <1>6
<1>9. \A j, k \in 1 .. n : j < k => f[j] < f[k]
  <2> TAKE j \in 1 .. n, k \in 1 .. n
  <2> HAVE j < k
  <2>0. 1 < c.id + 2 /\ c.id + 2 < RowAAt(c)
    BY <1>1, <1>3
  <2>1. CASE k = 2
    <3>1. j = 1
      BY <2>1
    <3> QED BY <3>1, <2>0, <2>1, <1>6
  <2>2. CASE k \notin {1, 2} /\ k <= 2 + M
    <3>1. f[k] = inA(k - 2) /\ k - 2 \in 1 .. M
      BY <2>2, <1>5, <1>6
    <3>2. CASE j = 1 \/ j = 2
      BY <3>1, <3>2, <2>0, <1>1, <1>4, <1>6
    <3>3. CASE j \notin {1, 2}
      <4>1. j <= 2 + M /\ j - 2 < k - 2 /\ j - 2 \in 1 .. M
        BY <3>3, <2>2, <1>2
      <4>2. f[j] = inA(j - 2)
        BY <4>1, <3>3, <1>6
      <4> QED BY <4>1, <4>2, <3>1, <1>4
    <3> QED BY <3>2, <3>3
  <2>3. CASE k \notin {1, 2} /\ ~(k <= 2 + M)
    <3>1. f[k] = inB(k - (2 + M)) /\ k - (2 + M) \in 1 .. M
      BY <2>3, <1>5, <1>6
    <3>2. CASE j = 1 \/ j = 2
      BY <3>1, <3>2, <2>0, <1>1, <1>4, <1>6
    <3>3. CASE j \notin {1, 2} /\ j <= 2 + M
      <4>1. f[j] = inA(j - 2) /\ j - 2 \in 1 .. M
        BY <3>3, <1>5, <1>6
      <4>2. inA(j - 2) \in Nat /\ inA(j - 2) <= RowBAt(c)
        BY <4>1, <1>4
      <4>3. inB(k - (2 + M)) \in Nat /\ RowBAt(c) < inB(k - (2 + M))
        BY <3>1, <1>4
      <4> QED BY ONLY <4>1, <4>2, <4>3, <3>1, <1>1
    <3>4. CASE j \notin {1, 2} /\ ~(j <= 2 + M)
      <4>1. f[j] = inB(j - (2 + M)) /\ j - (2 + M) \in 1 .. M
        BY <3>4, <1>5, <1>6
      <4>2. j - (2 + M) < k - (2 + M)
        BY <1>2
      <4> QED BY <4>1, <4>2, <3>1, <1>4
    <3> QED BY <3>2, <3>3, <3>4
  <2>4. k # 1
    OBVIOUS
  <2> QED BY <2>1, <2>2, <2>3, <2>4
<1>10. starts = {f[j] : j \in 1 .. n}
  <2>1. DOMAIN buf = 1 .. TextEnd(c)
    OBVIOUS
  <2>2. \A i \in 1 .. TextEnd(c) :
           (buf[i] = "digit" /\ ~IsDigit(buf, i - 1)) <=>
               i = 1 \/ i = c.id + 2 \/ (\E k \in 1 .. M : i = inA(k)) \/ (\E k \in 1 .. M : i = inB(k))
    BY TextStarts DEF inA, inB
  <2>3. \A i : (\E j \in 1 .. n : i = f[j]) <=>
               i = 1 \/ i = c.id + 2 \/ (\E k \in 1 .. M : i = inA(k)) \/ (\E k \in 1 .. M : i = inB(k))
    <3> TAKE i
    <3>1. ASSUME NEW j \in 1 .. n, i = f[j]
          PROVE  i = 1 \/ i = c.id + 2 \/ (\E k \in 1 .. M : i = inA(k)) \/ (\E k \in 1 .. M : i = inB(k))
      BY <3>1, <1>5, <1>6
    <3>2. ASSUME i = 1 \/ i = c.id + 2 \/ (\E k \in 1 .. M : i = inA(k)) \/ (\E k \in 1 .. M : i = inB(k))
          PROVE  \E j \in 1 .. n : i = f[j]
      BY <3>2, <1>5, <1>6, <1>7
    <3> QED BY <3>1, <3>2
  <2>4. \A j \in 1 .. n : f[j] \in 1 .. TextEnd(c)
    <3>1. 1 \in 1 .. TextEnd(c) /\ c.id + 2 \in 1 .. TextEnd(c)
      BY ONLY <1>1, <1>3
    <3>2. \A k \in 1 .. M : inA(k) \in 1 .. TextEnd(c)
      <4> TAKE k \in 1 .. M
      <4>1. inA(k) \in Nat /\ RowAAt(c) < inA(k) /\ inA(k) <= RowBAt(c)
        BY <1>4
      <4> QED BY ONLY <4>1, <1>1
    <3>3. \A k \in 1 .. M : inB(k) \in 1 .. TextEnd(c)
      <4> TAKE k \in 1 .. M
      <4>1. inB(k) \in Nat /\ RowBAt(c) < inB(k) /\ inB(k) <= TextEnd(c)
        BY <1>4
      <4> QED BY ONLY <4>1, <1>1
    <3> QED BY <3>1, <3>2, <3>3, <1>5, <1>6
  <2> QED BY <2>1, <2>2, <2>3, <2>4
<1>11. \A k \in 1 .. n : token(k) = {f[k]}
  <2> HIDE DEF starts
  <2>1. n \in Nat
    BY <1>2
  <2>2. ASSUME NEW k \in 1 .. n
        PROVE  token(k) = {f[k]}
    <3>1. Ascending(f, n, starts)
      BY <1>8, <1>9, <1>10 DEF Ascending
    <3>2. Kth(starts, k) = {f[k]}
      <4> HIDE DEF token, value
      <4> QED BY ONLY <2>1, <2>2, <3>1, TokenIs
    <3> QED BY <3>2 DEF Kth
  <2> QED BY <2>2
<1> HIDE DEF token
<1>12. \A k \in 1 .. n : value(k) = RunLength(buf, f[k])
  BY <1>11
<1> HIDE DEF value
<1>13. LineAt(buf, RowAAt(c), c.a) /\ LineAt(buf, RowBAt(c), c.b)
  BY DEF Holds
<1>14. RowAAt(c) + Offset(c.a, M) + 1 <= Len(buf) /\ RowBAt(c) + Offset(c.b, M) + 1 <= Len(buf)
  <2>1. RowAAt(c) + Offset(c.a, M) + 1 = RowBAt(c) /\ RowBAt(c) + Offset(c.b, M) + 1 = TextEnd(c)
    BY DEF RowBAt, TextEnd
  <2> QED BY <2>1, <1>1
<1>15. ASSUME NEW k \in 1 .. M PROVE value(2 + k) = c.a[k] /\ value(2 + M + k) = c.b[k]
  <2>1. RunLength(buf, inA(k)) = c.a[k]
    BY <1>1, <1>13, <1>14, LineRuns DEF inA
  <2>2. RunLength(buf, inB(k)) = c.b[k]
    BY <1>1, <1>13, <1>14, LineRuns DEF inB
  <2>3. 2 + k = k + 2 /\ 2 + M + k = k + (2 + M)
    BY <1>2
  <2> QED BY <2>1, <2>2, <2>3, <1>5, <1>7, <1>12
<1>16. [k \in 1 .. M |-> value(2 + k)] = c.a /\ [k \in 1 .. M |-> value(2 + M + k)] = c.b
  <2>1. c.a = [k \in 1 .. M |-> c.a[k]] /\ c.b = [k \in 1 .. M |-> c.b[k]]
    BY <1>1 DEF Widths
  <2> QED BY <2>1, <1>15
<1>17. ParseTokens = [a |-> [k \in 1 .. M |-> value(2 + k)], b |-> [k \in 1 .. M |-> value(2 + M + k)]]
  BY DEF ParseTokens, value, token
<1> QED BY <1>16, <1>17 DEF Matrices

-----------------------------------------------------------------------------
(***************************************************************************)
(* The newlines by which the clients know that a challenge has come.       *)
(***************************************************************************)
LEMMA TextLines ==
    ASSUME NEW c \in AllChallenges, NEW p \in 1 .. TextEnd(c)
    PROVE  Text[c][p] = "newline" <=> p \in {c.id + 1, c.id + 5, RowBAt(c), TextEnd(c)}
<1> DEFINE t == Text[c]
<1>1. /\ c.id \in Nat \ {0} /\ c.a \in Widths /\ c.b \in Widths
      /\ RowAAt(c) \in Nat /\ RowBAt(c) \in Nat /\ TextEnd(c) \in Nat
      /\ RowAAt(c) < RowBAt(c) /\ RowBAt(c) < TextEnd(c)
  BY ChallengeType
<1>2. Holds(t, c)
  BY TextIs
<1>3. Offset(c.a, M) \in Nat /\ Offset(c.b, M) \in Nat
  BY <1>1, OffsetsAscend, StreamAssumption
<1> HIDE DEF t
<1>4. /\ RowAAt(c) = c.id + 5
      /\ RowBAt(c) = RowAAt(c) + Offset(c.a, M) + 1
      /\ TextEnd(c) = RowBAt(c) + Offset(c.b, M) + 1
  BY DEF RowAAt, RowBAt, TextEnd
<1>5. /\ t[c.id + 1] = "newline"
      /\ t[c.id + 5] = "newline"
      /\ t[RowBAt(c)] = "newline"
      /\ t[TextEnd(c)] = "newline"
  BY <1>2, <1>4 DEF Holds, LineAt
<1>6. ASSUME p \in 1 .. c.id PROVE t[p] # "newline" /\ p \notin {c.id + 1, c.id + 5, RowBAt(c), TextEnd(c)}
  <2>1. t[p] = "digit"
    BY <1>2, <1>6 DEF Holds
  <2> QED BY <2>1, <1>1, <1>4, <1>6
<1>7. ASSUME p \in c.id + 2 .. c.id + 4 PROVE t[p] # "newline" /\ p \notin {c.id + 1, c.id + 5, RowBAt(c), TextEnd(c)}
  <2>1. p - (c.id + 1) \in 1 .. 3 /\ c.id + 1 + (p - (c.id + 1)) = p
    BY <1>1, <1>7
  <2>2. t[c.id + 1 + (p - (c.id + 1))] = "digit"
    BY <2>1, <1>2 DEF Holds
  <2> QED BY <2>1, <2>2, <1>1, <1>4, <1>7
<1>8. ASSUME RowAAt(c) < p, p < RowBAt(c) PROVE t[p] # "newline" /\ p \notin {c.id + 1, c.id + 5, RowBAt(c), TextEnd(c)}
  <2>1. p - RowAAt(c) \in 1 .. Offset(c.a, M) /\ RowAAt(c) + (p - RowAAt(c)) = p
    BY <1>1, <1>3, <1>4, <1>8
  <2>2. t[RowAAt(c) + (p - RowAAt(c))] # "newline"
    BY <2>1, <1>2 DEF Holds, LineAt
  <2> QED BY <2>1, <2>2, <1>1, <1>4, <1>8
<1>9. ASSUME RowBAt(c) < p, p < TextEnd(c) PROVE t[p] # "newline" /\ p \notin {c.id + 1, c.id + 5, RowBAt(c), TextEnd(c)}
  <2>1. p - RowBAt(c) \in 1 .. Offset(c.b, M) /\ RowBAt(c) + (p - RowBAt(c)) = p
    BY <1>1, <1>3, <1>4, <1>9
  <2>2. t[RowBAt(c) + (p - RowBAt(c))] # "newline"
    BY <2>1, <1>2 DEF Holds, LineAt
  <2> QED BY <2>1, <2>2, <1>1, <1>4, <1>9
<1>10. \/ p \in 1 .. c.id \/ p \in c.id + 2 .. c.id + 4
       \/ p \in {c.id + 1, c.id + 5, RowBAt(c), TextEnd(c)}
       \/ (RowAAt(c) < p /\ p < RowBAt(c))
       \/ (RowBAt(c) < p /\ p < TextEnd(c))
  BY <1>1, <1>4
<1> QED BY <1>5, <1>6, <1>7, <1>8, <1>9, <1>10 DEF t

\* As far as s reaches it is the text of c, and goes on behind it.
Starts(s, c) == \A p \in 1 .. TextEnd(c) : p <= Len(s) => s[p] = Text[c][p]

LEMMA Fewer ==
    ASSUME NEW x, NEW y, NEW z, NEW T \in SUBSET {x, y, z}
    PROVE  IsFiniteSet(T) /\ Cardinality(T) \in Nat /\ Cardinality(T) <= 3
<1>1. IsFiniteSet({}) /\ Cardinality({}) = 0
  BY FS_EmptySet
<1>2. IsFiniteSet({x}) /\ Cardinality({x}) = 1
  BY FS_Singleton
<1>3. /\ IsFiniteSet({x} \cup {y}) /\ Cardinality({x} \cup {y}) \in Nat
      /\ Cardinality({x} \cup {y}) <= 2
  BY <1>2, FS_AddElement
<1>4. /\ IsFiniteSet(({x} \cup {y}) \cup {z}) /\ Cardinality(({x} \cup {y}) \cup {z}) \in Nat
      /\ Cardinality(({x} \cup {y}) \cup {z}) <= 3
  BY <1>3, FS_AddElement
<1>5. ({x} \cup {y}) \cup {z} = {x, y, z}
  OBVIOUS
<1>6. IsFiniteSet(T) /\ Cardinality(T) <= Cardinality({x, y, z})
  BY <1>4, <1>5, FS_Subset
<1>7. Cardinality(T) \in Nat
  BY <1>6, FS_CardinalityType
<1> QED BY <1>4, <1>5, <1>6, <1>7

LEMMA Four ==
    ASSUME NEW x \in Int, NEW y \in Int, NEW z \in Int, NEW u \in Int, x < y, y < z, z < u
    PROVE  IsFiniteSet({x, y, z, u}) /\ Cardinality({x, y, z, u}) = 4
<1>1. IsFiniteSet({x}) /\ Cardinality({x}) = 1
  BY FS_Singleton
<1>2. IsFiniteSet({x} \cup {y}) /\ Cardinality({x} \cup {y}) = 2
  BY <1>1, FS_AddElement
<1>3. IsFiniteSet(({x} \cup {y}) \cup {z}) /\ Cardinality(({x} \cup {y}) \cup {z}) = 3
  BY <1>2, FS_AddElement
<1>4. IsFiniteSet((({x} \cup {y}) \cup {z}) \cup {u}) /\ Cardinality((({x} \cup {y}) \cup {z}) \cup {u}) = 4
  BY <1>3, FS_AddElement
<1>5. (({x} \cup {y}) \cup {z}) \cup {u} = {x, y, z, u}
  OBVIOUS
<1> QED BY <1>4, <1>5

\* Less than the whole text has no four newlines.
LEMMA PartOfText ==
    ASSUME NEW c \in AllChallenges, NEW s \in Seq(Bytes), Starts(s, c), Len(s) < TextEnd(c),
           NEW T \in SUBSET Newlines(s)
    PROVE  IsFiniteSet(T) /\ Cardinality(T) \in Nat /\ Cardinality(T) <= 3
<1>1. Len(s) \in Nat /\ DOMAIN s = 1 .. Len(s) /\ TextEnd(c) \in Nat
  BY ChallengeType
<1>2. \A p \in DOMAIN s : s[p] = "newline" => p \in {c.id + 1, c.id + 5, RowBAt(c)}
  <2> TAKE p \in DOMAIN s
  <2>1. p \in 1 .. TextEnd(c) /\ p <= Len(s) /\ p # TextEnd(c)
    BY <1>1
  <2>2. s[p] = Text[c][p]
    BY <2>1 DEF Starts
  <2> QED BY <2>1, <2>2, TextLines
<1>3. T \subseteq {c.id + 1, c.id + 5, RowBAt(c)}
  BY <1>2 DEF Newlines
<1> QED BY <1>3, Fewer

\* The fourth newline is the last byte of the text, whatever follows.
LEMMA WholeText ==
    ASSUME NEW c \in AllChallenges, NEW s \in Seq(Bytes), Starts(s, c), TextEnd(c) <= Len(s)
    PROVE  /\ IsFiniteSet(Newlines(s)) /\ Cardinality(Newlines(s)) >= 4
           /\ TextEnd(c) \in Newlines(s)
           /\ Cardinality({j \in Newlines(s) : j <= TextEnd(c)}) = 4
           /\ \A i \in Newlines(s) : Cardinality({j \in Newlines(s) : j <= i}) = 4 => i = TextEnd(c)
<1> DEFINE x == c.id + 1
           y == c.id + 5
           z == RowBAt(c)
           u == TextEnd(c)
<1>1. Len(s) \in Nat /\ DOMAIN s = 1 .. Len(s)
  OBVIOUS
<1>2. x \in Nat /\ y \in Nat /\ z \in Nat /\ u \in Nat /\ 1 <= x /\ x < y /\ y < z /\ z < u
  <2>1. c.id \in Nat /\ RowBAt(c) \in Nat /\ TextEnd(c) \in Nat /\ RowAAt(c) < RowBAt(c) /\ RowBAt(c) < TextEnd(c)
    BY ChallengeType
  <2> QED BY <2>1 DEF RowAAt
<1>3. \A p \in 1 .. u : p \in Newlines(s) <=> p \in {x, y, z, u}
  <2> TAKE p \in 1 .. u
  <2>1. s[p] = Text[c][p] /\ p \in DOMAIN s
    BY <1>1, <1>2 DEF Starts
  <2> QED BY <2>1, TextLines DEF Newlines
<1>4. Newlines(s) \subseteq 1 .. Len(s)
  BY <1>1 DEF Newlines
<1> HIDE DEF x, y, z, u
<1>5. {j \in Newlines(s) : j <= u} = {x, y, z, u}
  BY <1>1, <1>2, <1>3, <1>4
<1>6. IsFiniteSet({x, y, z, u}) /\ Cardinality({x, y, z, u}) = 4
  BY <1>2, Four
<1>7. IsFiniteSet(Newlines(s))
  <2>1. IsFiniteSet(1 .. Len(s))
    BY <1>1, FS_Interval
  <2> QED BY <2>1, <1>4, FS_Subset
<1>8. Cardinality(Newlines(s)) >= 4
  <2>1. {x, y, z, u} \subseteq Newlines(s)
    BY <1>2, <1>3
  <2>2. Cardinality({x, y, z, u}) <= Cardinality(Newlines(s)) /\ Cardinality(Newlines(s)) \in Nat
    BY <2>1, <1>7, FS_Subset, FS_CardinalityType
  <2> QED BY <2>2, <1>6
<1>9. u \in Newlines(s)
  BY <1>2, <1>3
<1>10. ASSUME NEW i \in Newlines(s), Cardinality({j \in Newlines(s) : j <= i}) = 4 PROVE i = u
  <2> DEFINE T == {j \in Newlines(s) : j <= i}
  <2>1. IsFiniteSet(T)
    BY <1>7, FS_Subset
  <2>2. i \in T /\ i \in Nat
    BY <1>4
  <2>3. CASE i < u
    <3>1. T \in SUBSET {x, y, z}
      BY <2>3, <1>2, <1>3, <1>4
    <3>2. Cardinality(T) \in Nat /\ Cardinality(T) <= 3
      BY <3>1, Fewer
    <3> QED BY <3>2, <1>10
  <2>4. CASE u < i
    <3>1. {x, y, z, u} \subseteq T \ {i} /\ IsFiniteSet(T \ {i}) /\ Cardinality(T \ {i}) = Cardinality(T) - 1
      <4>1. {x, y, z, u} \subseteq T /\ i \notin {x, y, z, u}
        BY <2>2, <2>4, <1>2, <1>3
      <4>2. IsFiniteSet(T \ {i}) /\ Cardinality(T \ {i}) = Cardinality(T) - 1
        <5> HIDE DEF T
        <5> QED BY <2>1, <2>2, FS_RemoveElement
      <4> QED BY <4>1, <4>2
    <3>2. Cardinality({x, y, z, u}) <= Cardinality(T \ {i})
      <4> HIDE DEF T
      <4> QED BY <3>1, FS_Subset
    <3> QED BY <3>1, <3>2, <1>6, <1>10
  <2> QED BY <2>2, <2>3, <2>4, <1>2
<1> QED BY <1>5, <1>6, <1>7, <1>8, <1>9, <1>10 DEF u

-----------------------------------------------------------------------------
(***************************************************************************)
(* The stream.                                                             *)
(***************************************************************************)

\* cut[k] is where in s the text of the k-th challenge of cs ends; the first n are not in s.
Cuts(cut, s, cs, n) ==
    /\ cut \in [n .. Len(cs) -> Nat]
    /\ cut[n] = 0
    /\ cut[Len(cs)] = Len(s)
    /\ \A j, k \in n .. Len(cs) : j <= k => cut[j] <= cut[k]
    /\ \A k \in n + 1 .. Len(cs) : cut[k] = cut[k - 1] + TextEnd(cs[k])
    /\ \A k \in n + 1 .. Len(cs) : \A p \in 1 .. TextEnd(cs[k]) : s[cut[k - 1] + p] = Text[cs[k]][p]

\* s is the texts of the challenges of cs behind the first n of them.
InStream(s, cs, n) ==
    /\ s \in Seq(Bytes) /\ cs \in Seq(AllChallenges) /\ n \in 0 .. Len(cs)
    /\ \E cut : Cuts(cut, s, cs, n)

LEMMA StreamEmpty ==
    ASSUME NEW s, NEW cs, s = <<>>, cs = <<>>
    PROVE  InStream(s, cs, 0)
<1>1. s \in Seq(Bytes) /\ cs \in Seq(AllChallenges) /\ Len(s) = 0 /\ Len(cs) = 0
  OBVIOUS
<1> DEFINE cut == [k \in 0 .. 0 |-> 0]
<1>2. Cuts(cut, s, cs, 0)
  <2>1. \A k \in 0 + 1 .. 0 : FALSE
    OBVIOUS
  <2> QED BY <1>1, <2>1 DEF Cuts
<1> QED BY <1>1, <1>2 DEF InStream

LEMMA StreamSend ==
    ASSUME NEW s, NEW cs, NEW n, InStream(s, cs, n), NEW c \in AllChallenges
    PROVE  InStream(s \o Text[c], Append(cs, c), n)
<1>1. PICK cut : Cuts(cut, s, cs, n)
  BY DEF InStream
<1>2. s \in Seq(Bytes) /\ cs \in Seq(AllChallenges) /\ n \in 0 .. Len(cs)
  BY DEF InStream
<1>3. Len(s) \in Nat /\ Len(cs) \in Nat /\ n \in Nat
  BY <1>2
<1> DEFINE l == Len(cs)
           t == s \o Text[c]
           ds == Append(cs, c)
           cut2 == [k \in n .. l + 1 |-> IF k = l + 1 THEN Len(s) + TextEnd(c) ELSE cut[k]]
<1>4. ds \in Seq(AllChallenges) /\ Len(ds) = l + 1 /\ ds[l + 1] = c /\ \A k \in 1 .. l : ds[k] = cs[k]
  BY <1>2
<1>5. Text[c] \in Seq(Bytes) /\ Len(Text[c]) = TextEnd(c) /\ TextEnd(c) \in Nat
  BY TextIs, ChallengeType
<1>6. /\ t \in Seq(Bytes) /\ Len(t) = Len(s) + TextEnd(c)
      /\ \A p \in 1 .. Len(s) : t[p] = s[p]
      /\ \A p \in 1 .. TextEnd(c) : t[Len(s) + p] = Text[c][p]
  <2> HIDE DEF t
  <2>1. Joins(t, s, Len(s), Text[c], TextEnd(c))
    BY <1>2, <1>3, <1>5 DEF Joins, t
  <2> QED BY ONLY <2>1, Joined
<1>7. /\ cut \in [n .. l -> Nat]
      /\ cut[n] = 0
      /\ cut[l] = Len(s)
      /\ \A j, k \in n .. l : j <= k => cut[j] <= cut[k]
      /\ \A k \in n + 1 .. l : cut[k] = cut[k - 1] + TextEnd(cs[k])
      /\ \A k \in n + 1 .. l : \A p \in 1 .. TextEnd(cs[k]) : s[cut[k - 1] + p] = Text[cs[k]][p]
  BY <1>1 DEF Cuts
<1>8. l \in Nat /\ n \in 0 .. l
  BY <1>2, <1>3
<1>9. cut2 \in [n .. l + 1 -> Nat] /\ cut2[l + 1] = Len(s) + TextEnd(c) /\ \A k \in n .. l : cut2[k] = cut[k]
  <2> HIDE DEF l
  <2>1. \A k \in n .. l + 1 : k # l + 1 => k \in n .. l
    BY <1>8
  <2>2. \A k \in n .. l : k \in n .. l + 1 /\ k # l + 1
    BY <1>8
  <2>3. l + 1 \in n .. l + 1
    BY <1>8
  <2>4. \A k \in n .. l : cut[k] \in Nat
    BY <1>7
  <2>5. Len(s) + TextEnd(c) \in Nat
    BY <1>3, <1>5
  <2> QED BY <2>1, <2>2, <2>3, <2>4, <2>5
<1> HIDE DEF cut2, t, ds, l
<1>10. \A k \in n .. l : cut[k] \in Nat /\ cut[k] <= Len(s)
  <2>1. l \in n .. l /\ \A k \in n .. l : k <= l
    BY <1>8
  <2> QED BY <2>1, <1>7
<1>11. \A j, k \in n .. l + 1 : j <= k => cut2[j] <= cut2[k]
  <2> TAKE j \in n .. l + 1, k \in n .. l + 1
  <2> HAVE j <= k
  <2>1. CASE k \in n .. l
    <3>1. j \in n .. l
      BY <2>1, <1>8
    <3> QED BY <3>1, <2>1, <1>7, <1>9
  <2>2. CASE k = l + 1 /\ j \in n .. l
    BY <2>2, <1>9, <1>10, <1>3, <1>5
  <2>3. CASE k = l + 1 /\ j = l + 1
    BY <2>3, <1>9, <1>3, <1>5
  <2> QED BY <2>1, <2>2, <2>3, <1>8
<1>12. \A k \in n + 1 .. l : k \in n .. l /\ k - 1 \in n .. l /\ k \in 1 .. l
  BY <1>8
<1>13. n \in n .. l /\ l \in n .. l /\ (l + 1) - 1 = l
  BY <1>8
<1>14. ASSUME NEW k \in n + 1 .. l
       PROVE  /\ cut2[k] = cut2[k - 1] + TextEnd(ds[k])
              /\ \A p \in 1 .. TextEnd(ds[k]) : t[cut2[k - 1] + p] = Text[ds[k]][p]
  <2>1. /\ cut2[k] = cut[k] /\ cut2[k - 1] = cut[k - 1] /\ ds[k] = cs[k]
        /\ cut[k] = cut[k - 1] + TextEnd(cs[k])
        /\ \A p \in 1 .. TextEnd(cs[k]) : s[cut[k - 1] + p] = Text[cs[k]][p]
    BY <1>4, <1>7, <1>9, <1>12 DEF l
  <2>2. cut[k - 1] \in Nat /\ cut[k] \in Nat /\ cut[k] <= Len(s) /\ TextEnd(cs[k]) \in Nat
    <3>1. cs[k] \in AllChallenges
      BY <1>2, <1>12 DEF l
    <3>2. TextEnd(cs[k]) \in Nat
      BY <3>1, ChallengeType
    <3> QED BY <3>2, <1>10, <1>12
  <2>3. \A p \in 1 .. TextEnd(cs[k]) : cut[k - 1] + p \in 1 .. Len(s)
    <3>1. \A x, y, z \in Nat : \A d \in Nat : (y = x + d /\ y <= z) => \A p \in 1 .. d : x + p \in 1 .. z
      OBVIOUS
    <3> QED BY ONLY <3>1, <2>1, <2>2, <1>3
  <2> QED BY <2>1, <2>3, <1>6
<1>15. /\ cut2[l + 1] = cut2[(l + 1) - 1] + TextEnd(ds[l + 1])
       /\ \A p \in 1 .. TextEnd(ds[l + 1]) : t[cut2[(l + 1) - 1] + p] = Text[ds[l + 1]][p]
  <2>1. cut2[(l + 1) - 1] = Len(s) /\ ds[l + 1] = c
    BY <1>4, <1>7, <1>9, <1>13 DEF l
  <2> QED BY <2>1, <1>6, <1>9
<1>16. Cuts(cut2, t, ds, n)
  <2>1. \A k \in n + 1 .. l + 1 : k \in n + 1 .. l \/ k = l + 1
    BY <1>8
  <2>2. \A k \in n + 1 .. l + 1 : /\ cut2[k] = cut2[k - 1] + TextEnd(ds[k])
                                  /\ \A p \in 1 .. TextEnd(ds[k]) : t[cut2[k - 1] + p] = Text[ds[k]][p]
    BY <2>1, <1>14, <1>15
  <2>3. cut2[n] = 0 /\ Len(ds) = l + 1 /\ cut2[l + 1] = Len(t)
    BY <1>4, <1>6, <1>7, <1>9, <1>13 DEF l
  <2> QED BY <2>2, <2>3, <1>9, <1>11 DEF Cuts
<1>17. n \in 0 .. Len(ds)
  BY <1>4, <1>8 DEF l
<1>18. ds \in Seq(AllChallenges)
  BY <1>4 DEF l
<1> QED BY <1>6, <1>16, <1>17, <1>18 DEF InStream, t, ds

\* The stream begins with the text of the next challenge, and is empty when there is none.
LEMMA StreamFirst ==
    ASSUME NEW s, NEW cs, NEW n, InStream(s, cs, n)
    PROVE  /\ n = Len(cs) => Len(s) = 0
           /\ n < Len(cs) => /\ cs[n + 1] \in AllChallenges
                             /\ TextEnd(cs[n + 1]) <= Len(s)
                             /\ \A p \in 1 .. TextEnd(cs[n + 1]) : s[p] = Text[cs[n + 1]][p]
<1>1. PICK cut : Cuts(cut, s, cs, n)
  BY DEF InStream
<1>2. s \in Seq(Bytes) /\ cs \in Seq(AllChallenges) /\ n \in 0 .. Len(cs)
  BY DEF InStream
<1>3. Len(s) \in Nat /\ Len(cs) \in Nat /\ n \in Nat
  BY <1>2
<1>4. n = Len(cs) => Len(s) = 0
  BY <1>1 DEF Cuts
<1>5. ASSUME n < Len(cs)
      PROVE  /\ cs[n + 1] \in AllChallenges
             /\ TextEnd(cs[n + 1]) <= Len(s)
             /\ \A p \in 1 .. TextEnd(cs[n + 1]) : s[p] = Text[cs[n + 1]][p]
  <2>1. n + 1 \in 1 .. Len(cs)
    BY <1>3, <1>5
  <2>2. cs[n + 1] \in AllChallenges
    BY <2>1, <1>2
  <2>3. TextEnd(cs[n + 1]) \in Nat
    BY <2>2, ChallengeType
  <2>4. n + 1 \in n + 1 .. Len(cs) /\ n + 1 \in n .. Len(cs) /\ Len(cs) \in n .. Len(cs) /\ (n + 1) - 1 = n /\ n + 1 <= Len(cs)
    BY <1>3, <1>5
  <2>5. cut[n + 1] = cut[n] + TextEnd(cs[n + 1]) /\ cut[n] = 0 /\ cut[n + 1] <= Len(s)
    BY <1>1, <2>4 DEF Cuts
  <2>6. \A p \in 1 .. TextEnd(cs[n + 1]) : s[cut[n] + p] = Text[cs[n + 1]][p]
    BY <1>1, <2>4 DEF Cuts
  <2>7. \A p \in 1 .. TextEnd(cs[n + 1]) : 0 + p = p
    OBVIOUS
  <2>8. \A p \in 1 .. TextEnd(cs[n + 1]) : s[p] = Text[cs[n + 1]][p]
    BY <2>5, <2>6, <2>7
  <2> QED BY <2>2, <2>3, <2>5, <2>8
<1> QED BY <1>4, <1>5

LEMMA StreamDrop ==
    ASSUME NEW s, NEW cs, NEW n, InStream(s, cs, n), n < Len(cs),
           NEW t \in Seq(Bytes), NEW e, e = TextEnd(cs[n + 1]),
           Len(t) = Len(s) - e, \A p \in 1 .. Len(t) : t[p] = s[e + p]
    PROVE  InStream(t, cs, n + 1)
<1>1. PICK cut : Cuts(cut, s, cs, n)
  BY DEF InStream
<1>2. s \in Seq(Bytes) /\ cs \in Seq(AllChallenges) /\ n \in 0 .. Len(cs)
  BY DEF InStream
<1> DEFINE l == Len(cs)
           cut2 == [k \in n + 1 .. l |-> cut[k] - e]
<1>3. Len(s) \in Nat /\ l \in Nat /\ n \in Nat /\ n < l
  BY <1>2
<1>4. e \in Nat /\ e <= Len(s)
  <2>1. cs[n + 1] \in AllChallenges /\ e <= Len(s)
    BY StreamFirst
  <2> QED BY <2>1, ChallengeType
<1>5. /\ cut \in [n .. l -> Nat]
      /\ cut[n] = 0
      /\ cut[l] = Len(s)
      /\ \A j, k \in n .. l : j <= k => cut[j] <= cut[k]
      /\ \A k \in n + 1 .. l : cut[k] = cut[k - 1] + TextEnd(cs[k])
      /\ \A k \in n + 1 .. l : \A p \in 1 .. TextEnd(cs[k]) : s[cut[k - 1] + p] = Text[cs[k]][p]
  BY <1>1 DEF Cuts
<1> HIDE DEF l
<1>6. /\ n + 1 \in n + 1 .. l /\ n + 1 \in n .. l /\ (n + 1) - 1 = n /\ l \in n .. l /\ l \in n + 1 .. l
      /\ \A k \in n + 1 .. l : k \in n .. l /\ n + 1 <= k /\ k <= l
  BY <1>3
<1>7. cut[n + 1] = e
  <2>1. cut[n + 1] = cut[n] + e
    BY <1>5, <1>6
  <2> QED BY <2>1, <1>4, <1>5
<1>8. \A k \in n + 1 .. l : cut[k] \in Nat /\ e <= cut[k] /\ cut[k] <= Len(s)
  BY <1>5, <1>6, <1>7
<1>9. /\ cut2 \in [n + 1 .. l -> Nat]
      /\ \A k \in n + 1 .. l : cut2[k] = cut[k] - e
  BY <1>4, <1>8
<1> HIDE DEF cut2
<1>10. /\ cut2[n + 1] = 0
       /\ cut2[l] = Len(t)
  BY <1>4, <1>5, <1>6, <1>7, <1>9
<1>11. \A j, k \in n + 1 .. l : j <= k => cut2[j] <= cut2[k]
  <2> TAKE j \in n + 1 .. l, k \in n + 1 .. l
  <2> HAVE j <= k
  <2>1. cut[j] <= cut[k] /\ cut2[j] = cut[j] - e /\ cut2[k] = cut[k] - e /\ cut[j] \in Nat /\ cut[k] \in Nat
    BY <1>5, <1>6, <1>8, <1>9
  <2> QED BY <2>1, <1>4
<1>12. ASSUME NEW k \in n + 1 + 1 .. l
       PROVE  /\ cut2[k] = cut2[k - 1] + TextEnd(cs[k])
              /\ \A p \in 1 .. TextEnd(cs[k]) : t[cut2[k - 1] + p] = Text[cs[k]][p]
  <2>1. k \in n + 1 .. l /\ k - 1 \in n + 1 .. l /\ k \in 1 .. l
    BY <1>3
  <2>2. cut2[k] = cut[k] - e /\ cut2[k - 1] = cut[k - 1] - e /\ cut[k] = cut[k - 1] + TextEnd(cs[k])
    BY <2>1, <1>5, <1>9
  <2>3. TextEnd(cs[k]) \in Nat
    <3>1. cs[k] \in AllChallenges
      BY <2>1, <1>2 DEF l
    <3> QED BY <3>1, ChallengeType
  <2>4. cut[k] \in Nat /\ cut[k - 1] \in Nat /\ e <= cut[k - 1] /\ cut[k] <= Len(s)
    BY <2>1, <1>8
  <2>5. cut2[k] = cut2[k - 1] + TextEnd(cs[k])
    BY ONLY <2>2, <2>3, <2>4, <1>4
  <2>6. ASSUME NEW p \in 1 .. TextEnd(cs[k])
        PROVE  t[cut2[k - 1] + p] = Text[cs[k]][p]
    <3> DEFINE x == cut[k - 1]
               x2 == cut2[k - 1]
               z == Len(s)
               d == TextEnd(cs[k])
    <3>1. x \in Nat /\ z \in Nat /\ d \in Nat /\ p \in 1 .. d /\ e \in Nat /\ e <= x
      BY <2>3, <2>4, <1>3, <1>4
    <3>2. x2 = x - e
      BY <2>2
    <3>3. x + d <= z
      <4>1. cut[k] <= z /\ cut[k] = x + d
        BY <2>2, <2>4
      <4> QED BY <4>1
    <3> HIDE DEF x, x2, z, d
    <3>4. x2 + p \in 1 .. z - e /\ e + (x2 + p) = x + p
      BY ONLY <3>1, <3>2, <3>3
    <3>5. t[x2 + p] = s[e + (x2 + p)]
      BY <3>4 DEF z
    <3>6. t[x2 + p] = s[x + p]
      BY <3>4, <3>5
    <3>7. t[cut2[k - 1] + p] = s[cut[k - 1] + p]
      BY <3>6 DEF x, x2
    <3> QED BY <3>7, <2>1, <1>5
  <2> QED BY <2>5, <2>6
<1>13. Cuts(cut2, t, cs, n + 1)
  BY <1>9, <1>10, <1>11, <1>12 DEF Cuts, l
<1>14. n + 1 \in 0 .. Len(cs)
  BY <1>3 DEF l
<1> QED BY <1>2, <1>13, <1>14 DEF InStream

\* What Joined says, as one fact.
Joint(r, s, m, t, n) ==
    /\ r \in Seq(Bytes)
    /\ Len(r) = m + n
    /\ \A p \in 1 .. m : r[p] = s[p]
    /\ \A p \in 1 .. n : r[m + p] = t[p]

LEMMA JoinedIs ==
    ASSUME NEW r, NEW s, NEW m, NEW t, NEW n, Joins(r, s, m, t, n)
    PROVE  Joint(r, s, m, t, n)
BY Joined DEF Joint

LEMMA Taken ==
    ASSUME NEW b \in Seq(Bytes), NEW w \in Seq(Bytes), NEW n \in 1 .. Len(w)
    PROVE  /\ b \o SubSeq(w, 1, n) \in Seq(Bytes)
           /\ SubSeq(w, n + 1, Len(w)) \in Seq(Bytes)
           /\ (b \o SubSeq(w, 1, n)) \o SubSeq(w, n + 1, Len(w)) = b \o w
<1> DEFINE x == SubSeq(w, 1, n)
           y == SubSeq(w, n + 1, Len(w))
           v == b \o x
           l == v \o y
           r == b \o w
<1>0. Len(w) \in Nat /\ Len(b) \in Nat /\ n \in Nat
  OBVIOUS
<1>1. x \in Seq(Bytes) /\ Len(x) = n /\ \A i \in 1 .. n : x[i] = w[i]
  <2>1. \A i \in 1 .. n : 1 + i - 1 = i
    OBVIOUS
  <2>2. \A i \in 1 .. n : w[i] \in Bytes
    OBVIOUS
  <2> QED BY <2>1, <2>2
<1>2. y \in Seq(Bytes) /\ Len(y) = Len(w) - n /\ \A i \in 1 .. Len(w) - n : y[i] = w[n + i]
  <2>1. \A i \in 1 .. Len(w) - n : n + 1 + i - 1 = n + i /\ n + i \in 1 .. Len(w)
    OBVIOUS
  <2>2. \A i \in 1 .. Len(w) : w[i] \in Bytes
    OBVIOUS
  <2> QED BY <2>1, <2>2
<1> HIDE DEF x, y
<1>3. /\ v \in Seq(Bytes) /\ Len(v) = Len(b) + n
      /\ \A i \in 1 .. Len(b) : v[i] = b[i]
      /\ \A i \in 1 .. n : v[Len(b) + i] = x[i]
  <2> HIDE DEF v
  <2>1. Joins(v, b, Len(b), x, n)
    BY <1>0, <1>1 DEF Joins, v
  <2>2. Joint(v, b, Len(b), x, n)
    BY ONLY <2>1, JoinedIs
  <2> QED BY <2>2, <1>0 DEF Joint
<1>4. /\ l \in Seq(Bytes) /\ Len(l) = Len(b) + n + (Len(w) - n)
      /\ \A i \in 1 .. Len(b) + n : l[i] = v[i]
      /\ \A i \in 1 .. Len(w) - n : l[Len(b) + n + i] = y[i]
  <2> HIDE DEF l, v
  <2>1. Joins(l, v, (Len(b) + n), y, (Len(w) - n))
    BY <1>0, <1>2, <1>3 DEF Joins, l
  <2>2. Joint(l, v, (Len(b) + n), y, (Len(w) - n))
    BY ONLY <2>1, JoinedIs
  <2> QED BY <2>2, <1>0 DEF Joint
<1>5. /\ r \in Seq(Bytes) /\ Len(r) = Len(b) + Len(w)
      /\ \A i \in 1 .. Len(b) : r[i] = b[i]
      /\ \A i \in 1 .. Len(w) : r[Len(b) + i] = w[i]
  <2> HIDE DEF r
  <2>1. Joins(r, b, Len(b), w, Len(w))
    BY <1>0 DEF Joins, r
  <2>2. Joint(r, b, Len(b), w, Len(w))
    BY ONLY <2>1, JoinedIs
  <2> QED BY <2>2, <1>0 DEF Joint
<1> HIDE DEF v, l, r
<1>6. Len(l) = Len(r) /\ Len(r) \in Nat
  BY <1>0, <1>4, <1>5
<1>7. ASSUME NEW i \in 1 .. Len(r) PROVE l[i] = r[i]
  <2>0. i \in Nat
    OBVIOUS
  <2>1. CASE i <= Len(b)
    <3>1. i \in 1 .. Len(b) /\ i \in 1 .. Len(b) + n
      BY <2>1, <1>0
    <3> QED BY <3>1, <1>3, <1>4, <1>5
  <2>2. CASE Len(b) < i /\ i <= Len(b) + n
    <3> DEFINE d == i - Len(b)
    <3>1. d \in 1 .. n /\ d \in 1 .. Len(w) /\ Len(b) + d = i /\ i \in 1 .. Len(b) + n
      BY <2>2, <2>0, <1>0
    <3> HIDE DEF d
    <3>2. l[i] = v[i] /\ v[Len(b) + d] = x[d] /\ x[d] = w[d] /\ r[Len(b) + d] = w[d]
      BY ONLY <3>1, <1>1, <1>3, <1>4, <1>5
    <3> QED BY ONLY <3>1, <3>2
  <2>3. CASE Len(b) + n < i
    <3> DEFINE d == i - (Len(b) + n)
               m == n + d
    <3>1. d \in 1 .. Len(w) - n /\ Len(b) + n + d = i /\ m \in 1 .. Len(w) /\ Len(b) + m = i
      BY <2>3, <2>0, <1>0, <1>5
    <3>2. m = n + d
      OBVIOUS
    <3> HIDE DEF d, m
    <3>3. l[Len(b) + n + d] = y[d] /\ y[d] = w[n + d] /\ r[Len(b) + m] = w[m]
      BY ONLY <3>1, <1>2, <1>4, <1>5
    <3> QED BY ONLY <3>1, <3>2, <3>3
  <2> QED BY <2>1, <2>2, <2>3, <2>0, <1>0
<1>8. l = r
  BY <1>4, <1>5, <1>6, <1>7, SeqEqual
<1> QED BY <1>2, <1>3, <1>8 DEF x, y, v, l, r

LEMMA Dropped ==
    ASSUME NEW b \in Seq(Bytes), NEW w \in Seq(Bytes), NEW e \in 0 .. Len(b)
    PROVE  /\ SubSeq(b, e + 1, Len(b)) \in Seq(Bytes)
           /\ SubSeq(b, e + 1, Len(b)) \o w \in Seq(Bytes)
           /\ Len(SubSeq(b, e + 1, Len(b)) \o w) = Len(b \o w) - e
           /\ \A p \in 1 .. Len(SubSeq(b, e + 1, Len(b)) \o w) :
                  (SubSeq(b, e + 1, Len(b)) \o w)[p] = (b \o w)[e + p]
<1> DEFINE x == SubSeq(b, e + 1, Len(b))
           l == x \o w
           r == b \o w
<1>0. Len(w) \in Nat /\ Len(b) \in Nat /\ e \in Nat /\ e <= Len(b)
  OBVIOUS
<1>1. x \in Seq(Bytes) /\ Len(x) = Len(b) - e /\ \A i \in 1 .. Len(b) - e : x[i] = b[e + i]
  <2>1. \A i \in 1 .. Len(b) - e : e + 1 + i - 1 = e + i /\ e + i \in 1 .. Len(b)
    OBVIOUS
  <2>2. \A i \in 1 .. Len(b) : b[i] \in Bytes
    OBVIOUS
  <2> QED BY <2>1, <2>2
<1> HIDE DEF x
<1>2. /\ l \in Seq(Bytes) /\ Len(l) = Len(b) - e + Len(w)
      /\ \A i \in 1 .. Len(b) - e : l[i] = x[i]
      /\ \A i \in 1 .. Len(w) : l[Len(b) - e + i] = w[i]
  <2> HIDE DEF l
  <2>1. Joins(l, x, (Len(b) - e), w, Len(w))
    BY <1>0, <1>1 DEF Joins, l
  <2>2. Joint(l, x, (Len(b) - e), w, Len(w))
    BY ONLY <2>1, JoinedIs
  <2> QED BY <2>2, <1>0 DEF Joint
<1>3. /\ r \in Seq(Bytes) /\ Len(r) = Len(b) + Len(w)
      /\ \A i \in 1 .. Len(b) : r[i] = b[i]
      /\ \A i \in 1 .. Len(w) : r[Len(b) + i] = w[i]
  <2> HIDE DEF r
  <2>1. Joins(r, b, Len(b), w, Len(w))
    BY <1>0 DEF Joins, r
  <2>2. Joint(r, b, Len(b), w, Len(w))
    BY ONLY <2>1, JoinedIs
  <2> QED BY <2>2, <1>0 DEF Joint
<1> HIDE DEF l, r
<1>4. Len(l) = Len(r) - e
  BY <1>0, <1>2, <1>3
<1>5. ASSUME NEW p \in 1 .. Len(l) PROVE l[p] = r[e + p]
  <2>0. p \in Nat
    OBVIOUS
  <2>1. CASE p <= Len(b) - e
    <3>1. p \in 1 .. Len(b) - e /\ e + p \in 1 .. Len(b)
      BY <2>1, <1>0
    <3> QED BY <3>1, <1>1, <1>2, <1>3
  <2>2. CASE Len(b) - e < p
    <3>1. /\ p - (Len(b) - e) \in 1 .. Len(w)
          /\ Len(b) - e + (p - (Len(b) - e)) = p
          /\ Len(b) + (p - (Len(b) - e)) = e + p
      BY <2>2, <2>0, <1>0, <1>2
    <3> QED BY <3>1, <1>2, <1>3
  <2> QED BY <2>0, <2>1, <2>2, <1>0
<1> QED BY <1>1, <1>2, <1>4, <1>5 DEF x, l, r

-----------------------------------------------------------------------------
(***************************************************************************)
(* What both clients keep: the bytes in the buffer and in the socket are   *)
(* the texts of the challenges not answered yet.                           *)
(***************************************************************************)
Questions == AllChallenges \cup {Matrices(c) : c \in AllChallenges}

Streaming ==
    /\ client \in Programs
    /\ buf \in Seq(Bytes)
    /\ wire \in Seq(Bytes)
    /\ answers \in Seq(Questions)
    /\ sent \in Seq(Challenges[client])
    /\ InStream(buf \o wire, sent, Len(answers))

\* The challenge the client is at.
Due == sent[Len(answers) + 1]

LEMMA Asked ==
    /\ \A p \in Programs : Challenges[p] \subseteq AllChallenges
    /\ \A c \in AllChallenges : Asks(c) \in Questions
BY DEF AllChallenges, Asks, Questions

LEMMA StreamingInit == ASSUME StreamInit, client \in Programs PROVE Streaming
<1>1. buf \o wire = <<>> /\ Len(answers) = 0 /\ sent = <<>>
  BY DEF StreamInit
<1>2. InStream(buf \o wire, sent, Len(answers))
  BY <1>1, StreamEmpty
<1>3. buf \in Seq(Bytes) /\ wire \in Seq(Bytes) /\ answers \in Seq(Questions) /\ sent \in Seq(Challenges[client])
  BY DEF StreamInit
<1> QED BY <1>2, <1>3 DEF Streaming

LEMMA JoinsAgain ==
    ASSUME NEW x \in Seq(Bytes), NEW y \in Seq(Bytes), NEW z \in Seq(Bytes)
    PROVE  x \o (y \o z) = (x \o y) \o z
BY ConcatAssociative

LEMMA StreamingSends ==
    ASSUME Streaming, NEW c \in Challenges[client], SendChallenge(c)
    PROVE  Streaming'
<1>1. c \in AllChallenges
  BY Asked DEF Streaming
<1>2. /\ sent' = Append(sent, c) /\ wire' = wire \o Text[c]
      /\ client' = client /\ buf' = buf /\ answers' = answers
  BY DEF SendChallenge
<1>3. Text[c] \in Seq(Bytes)
  BY <1>1, TextIs
<1>4. InStream((buf \o wire) \o Text[c], Append(sent, c), Len(answers))
  BY <1>1, StreamSend DEF Streaming
<1>5. buf \o (wire \o Text[c]) = (buf \o wire) \o Text[c]
  BY <1>3, JoinsAgain DEF Streaming
<1>6. wire \o Text[c] \in Seq(Bytes) /\ Append(sent, c) \in Seq(Challenges[client])
  BY <1>3 DEF Streaming
<1>7. InStream(buf' \o wire', sent', Len(answers'))
  BY <1>2, <1>4, <1>5
<1> QED BY <1>2, <1>6, <1>7 DEF Streaming

LEMMA StreamingReceives ==
    ASSUME Streaming, NEW room, Receive(room), UNCHANGED <<client, sent, answers>>
    PROVE  Streaming'
<1>1. PICK n \in 1 .. Len(wire) : /\ buf' = buf \o SubSeq(wire, 1, n)
                                  /\ wire' = SubSeq(wire, n + 1, Len(wire))
  BY DEF Receive
<1>2. buf \in Seq(Bytes) /\ wire \in Seq(Bytes)
  BY DEF Streaming
<1>3. buf' \in Seq(Bytes) /\ wire' \in Seq(Bytes) /\ buf' \o wire' = buf \o wire
  BY <1>1, <1>2, Taken
<1> QED BY <1>3 DEF Streaming

\* While a challenge waits the buffer is the beginning of its text, and goes on behind it.
LEMMA AtFirst ==
    ASSUME Streaming
    PROVE  /\ Len(answers) \in Nat /\ Len(sent) \in Nat /\ Len(buf) \in Nat /\ Len(wire) \in Nat
           /\ Len(answers) <= Len(sent)
           /\ Len(answers) = Len(sent) => Len(buf) = 0 /\ Len(wire) = 0
           /\ Len(answers) < Len(sent) =>
                  /\ Due \in Challenges[client]
                  /\ Due \in AllChallenges
                  /\ Starts(buf, Due)
                  /\ TextEnd(Due) <= Len(buf) + Len(wire)
                  /\ TextEnd(Due) <= Len(buf) => Holds(buf, Due)
<1> DEFINE s == buf \o wire
           n == Len(answers)
<1>1. InStream(s, sent, n) /\ n \in 0 .. Len(sent)
  BY DEF Streaming, InStream
<1>2. Len(answers) \in Nat /\ Len(sent) \in Nat /\ Len(buf) \in Nat /\ Len(wire) \in Nat
  BY DEF Streaming
<1>3. /\ Len(s) = Len(buf) + Len(wire)
      /\ \A p \in 1 .. Len(buf) : s[p] = buf[p]
  <2> HIDE DEF s
  <2>1. Joins(s, buf, Len(buf), wire, Len(wire))
    BY <1>2 DEF Joins, s, Streaming
  <2>2. Joint(s, buf, Len(buf), wire, Len(wire))
    BY ONLY <2>1, JoinedIs
  <2> QED BY <2>2 DEF Joint
<1> HIDE DEF s
<1>4. ASSUME n = Len(sent) PROVE Len(buf) = 0 /\ Len(wire) = 0
  <2>1. Len(s) = 0
    BY <1>1, <1>4, StreamFirst
  <2> QED BY <2>1, <1>2, <1>3
<1>5. ASSUME n < Len(sent)
      PROVE  /\ Due \in Challenges[client]
             /\ Due \in AllChallenges
             /\ Starts(buf, Due)
             /\ TextEnd(Due) <= Len(buf) + Len(wire)
             /\ TextEnd(Due) <= Len(buf) => Holds(buf, Due)
  <2>1. n + 1 \in 1 .. Len(sent)
    BY <1>2, <1>5
  <2>2. Due \in Challenges[client]
    BY <2>1 DEF Due, Streaming
  <2>3. /\ Due \in AllChallenges
        /\ TextEnd(Due) <= Len(s)
        /\ \A p \in 1 .. TextEnd(Due) : s[p] = Text[Due][p]
    BY <1>1, <1>5, StreamFirst DEF Due
  <2>4. TextEnd(Due) \in Nat
    BY <2>3, ChallengeType
  <2>5. Starts(buf, Due)
    <3>1. \A p \in 1 .. TextEnd(Due) : p <= Len(buf) => p \in 1 .. Len(buf)
      BY <2>4, <1>2
    <3> QED BY <3>1, <2>3, <1>3 DEF Starts
  <2>6. ASSUME TextEnd(Due) <= Len(buf) PROVE Holds(buf, Due)
    <3>1. buf \in Seq(Bytes)
      BY DEF Streaming
    <3>2. \A p \in 1 .. TextEnd(Due) : buf[p] = Text[Due][p]
      <4>1. \A p \in 1 .. TextEnd(Due) : p <= Len(buf)
        BY <2>4, <2>6, <1>2
      <4> QED BY <4>1, <2>5 DEF Starts
    <3> QED BY <3>1, <3>2, <2>3, <2>6, TextHeld
  <2> QED BY <2>2, <2>3, <2>5, <2>6, <1>3
<1> QED BY <1>1, <1>2, <1>4, <1>5

LEMMA StreamingAnswers ==
    ASSUME Streaming, Len(answers) < Len(sent), TextEnd(Due) <= Len(buf), NEW q \in Questions,
           answers' = Append(answers, q),
           buf' = SubSeq(buf, TextEnd(Due) + 1, Len(buf)),
           UNCHANGED serverVars
    PROVE  Streaming'
<1>1. buf \in Seq(Bytes) /\ wire \in Seq(Bytes) /\ InStream(buf \o wire, sent, Len(answers))
  BY DEF Streaming
<1>2. TextEnd(Due) \in 0 .. Len(buf)
  <2>1. TextEnd(Due) \in Nat /\ Len(buf) \in Nat
    BY AtFirst, ChallengeType
  <2> QED BY <2>1
<1>3. client' = client /\ sent' = sent /\ wire' = wire
  BY DEF serverVars
<1>4. /\ buf' \in Seq(Bytes)
      /\ buf' \o wire' \in Seq(Bytes)
      /\ Len(buf' \o wire') = Len(buf \o wire) - TextEnd(Due)
      /\ \A p \in 1 .. Len(buf' \o wire') : (buf' \o wire')[p] = (buf \o wire)[TextEnd(Due) + p]
  BY <1>1, <1>2, <1>3, Dropped
<1>5. answers' \in Seq(Questions) /\ Len(answers') = Len(answers) + 1
  BY DEF Streaming
<1>6. InStream(buf' \o wire', sent, Len(answers) + 1)
  <2> DEFINE t == buf' \o wire'
             s == buf \o wire
  <2>1. t \in Seq(Bytes) /\ Len(t) = Len(s) - TextEnd(Due) /\ \A p \in 1 .. Len(t) : t[p] = s[TextEnd(Due) + p]
    BY <1>4
  <2>2. InStream(s, sent, Len(answers))
    BY <1>1
  <2> HIDE DEF t, s
  <2>3. InStream(t, sent, Len(answers) + 1)
    BY <2>1, <2>2, StreamDrop DEF Due
  <2> QED BY <2>3 DEF t
<1> QED BY <1>3, <1>4, <1>5, <1>6 DEF Streaming

-----------------------------------------------------------------------------
(***************************************************************************)
(* The steps of the promise.                                               *)
(***************************************************************************)
Put == [k \in DOMAIN sent |-> Asks(sent[k])]

LEMMA PromiseInit == ASSUME StreamInit PROVE Promise!Init
<1>1. DOMAIN sent = {}
  BY DEF StreamInit
<1>2. Put = <<>>
  BY <1>1 DEF Put
<1> QED BY <1>2 DEF StreamInit, Promise!Init, Put

LEMMA PromiseSends ==
    ASSUME Streaming, NEW c \in Challenges[client], SendChallenge(c)
    PROVE  Promise!Ask
<1>1. sent' = Append(sent, c) /\ client' = client /\ answers' = answers
  BY DEF SendChallenge
<1>2. sent \in Seq(Challenges[client]) /\ c \in AllChallenges
  BY Asked DEF Streaming
<1> DEFINE n == Len(sent)
<1>3. /\ n \in Nat /\ DOMAIN sent = 1 .. n
      /\ DOMAIN sent' = 1 .. n + 1
      /\ \A k \in 1 .. n : sent'[k] = sent[k]
      /\ sent'[n + 1] = c
  BY <1>1, <1>2
<1>4. \A x : Asks(x)' = Asks(x)
  BY <1>1 DEF Asks, Matrices
<1> HIDE DEF n
<1>5. Put \in Seq(Questions) /\ Len(Put) = n
  <2>1. Put = [k \in 1 .. n |-> Asks(sent[k])]
    BY <1>3 DEF Put
  <2>2. \A k \in 1 .. n : Asks(sent[k]) \in Questions
    BY <1>2, <1>3, Asked DEF Streaming
  <2>3. Put \in [1 .. n -> Questions]
    BY <2>1, <2>2
  <2> QED BY <2>3, <1>3
<1>6. Put' = Append(Put, Asks(c))
  <2>1. Put' = [k \in 1 .. n + 1 |-> Asks(sent'[k])]
    BY <1>3, <1>4 DEF Put
  <2>2. /\ Append(Put, Asks(c)) \in Seq(Questions) /\ Len(Append(Put, Asks(c))) = n + 1
        /\ \A k \in 1 .. n : Append(Put, Asks(c))[k] = Put[k]
        /\ Append(Put, Asks(c))[n + 1] = Asks(c)
    BY <1>2, <1>5, Asked
  <2>3. \A k \in 1 .. n + 1 : Append(Put, Asks(c))[k] = Asks(sent'[k])
    <3> TAKE k \in 1 .. n + 1
    <3>1. CASE k \in 1 .. n
      BY <3>1, <2>2, <1>3 DEF Put
    <3>2. CASE k = n + 1
      BY <3>2, <2>2, <1>3
    <3>3. n \in Nat /\ k \in 1 .. n + 1
      BY <1>3
    <3>4. k \in 1 .. n \/ k = n + 1
      BY ONLY <3>3
    <3> QED BY <3>1, <3>2, <3>4
  <2>4. Append(Put, Asks(c)) = [k \in 1 .. n + 1 |-> Append(Put, Asks(c))[k]]
    <3>1. Append(Put, Asks(c)) \in [1 .. n + 1 -> Questions]
      BY <2>2, LenProperties
    <3> QED BY <3>1
  <2> QED BY <2>1, <2>3, <2>4
<1>7. \E q \in Questions : Put' = Append(Put, q)
  BY <1>2, <1>6, Asked
<1> QED BY <1>1, <1>7 DEF Promise!Ask, Put, Questions

LEMMA PromiseAnswers ==
    ASSUME Streaming, Len(answers) < Len(sent), answers' = Append(answers, Asks(Due)), UNCHANGED serverVars
    PROVE  Promise!Answer
<1>1. client' = client /\ sent' = sent
  BY DEF serverVars
<1>2. Put' = Put
  BY <1>1 DEF Put, Asks, Matrices
<1>3. /\ Len(sent) \in Nat /\ Len(answers) \in Nat /\ DOMAIN sent = 1 .. Len(sent)
      /\ Len(answers) + 1 \in 1 .. Len(sent)
  BY DEF Streaming
<1>4. Put[Len(answers) + 1] = Asks(Due)
  BY <1>3 DEF Put, Due
<1>5. Len(Put) = Len(sent)
  <2>1. Put = [k \in 1 .. Len(sent) |-> Asks(sent[k])]
    BY <1>3 DEF Put
  <2> QED BY <2>1, <1>3
<1> QED BY <1>2, <1>4, <1>5 DEF Promise!Answer, Put

LEMMA PromiseStays ==
    ASSUME UNCHANGED <<client, sent, answers>> PROVE UNCHANGED Promise!vars
BY DEF Promise!vars, Asks, Matrices

-----------------------------------------------------------------------------
(***************************************************************************)
(* hftclient2026.                                                          *)
(***************************************************************************)
RetainingInv ==
    /\ client = "hftclient2026"
    /\ Streaming
    /\ ~overflow

\* The scan finds the end of the challenge the client is at as soon as all of it has come.
LEMMA EndFound ==
    ASSUME Streaming
    PROVE  /\ ChallengeEnd # 0 =>
                  /\ Len(answers) < Len(sent)
                  /\ TextEnd(Due) <= Len(buf)
                  /\ ChallengeEnd = TextEnd(Due)
           /\ Len(answers) < Len(sent) /\ TextEnd(Due) <= Len(buf) => ChallengeEnd # 0
<1> DEFINE nl == Newlines(buf)
           fourth == {i \in nl : Cardinality({j \in nl : j <= i}) = 4}
<1>1. ChallengeEnd = IF fourth = {} THEN 0 ELSE CHOOSE i \in fourth : TRUE
  BY DEF ChallengeEnd
<1>2. /\ Len(answers) \in Nat /\ Len(sent) \in Nat /\ Len(buf) \in Nat
      /\ Len(answers) <= Len(sent)
      /\ Len(answers) = Len(sent) => Len(buf) = 0
      /\ Len(answers) < Len(sent) => Due \in AllChallenges /\ Starts(buf, Due)
  BY AtFirst
<1>3. buf \in Seq(Bytes)
  BY DEF Streaming
<1>4. ASSUME Len(answers) = Len(sent) PROVE ChallengeEnd = 0
  <2>1. nl = {}
    BY <1>2, <1>3, <1>4 DEF Newlines
  <2> QED BY <2>1, <1>1
<1>5. ASSUME Len(answers) < Len(sent), TextEnd(Due) <= Len(buf)
      PROVE  ChallengeEnd = TextEnd(Due) /\ ChallengeEnd # 0
  <2>1. fourth = {TextEnd(Due)}
    <3> HIDE DEF nl
    <3>1. /\ TextEnd(Due) \in nl
          /\ Cardinality({j \in nl : j <= TextEnd(Due)}) = 4
          /\ \A i \in nl : Cardinality({j \in nl : j <= i}) = 4 => i = TextEnd(Due)
      BY <1>2, <1>3, <1>5, WholeText DEF nl
    <3> QED BY <3>1
  <2>2. TextEnd(Due) # 0
    <3>1. RowAAt(Due) \in Nat /\ RowBAt(Due) \in Nat /\ TextEnd(Due) \in Nat
          /\ RowAAt(Due) < RowBAt(Due) /\ RowBAt(Due) < TextEnd(Due)
      BY <1>2, <1>5, ChallengeType
    <3> QED BY <3>1
  <2> HIDE DEF fourth
  <2> QED BY <2>1, <2>2, <1>1
<1>6. ASSUME Len(answers) < Len(sent), ~(TextEnd(Due) <= Len(buf)) PROVE ChallengeEnd = 0
  <2>1. TextEnd(Due) \in Nat
    BY <1>2, <1>6, ChallengeType
  <2>2. \A T \in SUBSET nl : Cardinality(T) \in Nat /\ Cardinality(T) <= 3
    <3>1. Len(buf) < TextEnd(Due)
      BY <2>1, <1>2, <1>6
    <3> QED BY <3>1, <1>2, <1>3, <1>6, PartOfText
  <2>3. fourth = {}
    <3> HIDE DEF nl
    <3>1. \A i : Cardinality({j \in nl : j <= i}) # 4
      <4> TAKE i
      <4> DEFINE T == {j \in nl : j <= i}
      <4>1. T \in SUBSET nl
        OBVIOUS
      <4> HIDE DEF T
      <4>2. Cardinality(T) # 4
        BY <4>1, <2>2
      <4> QED BY <4>2 DEF T
    <3> QED BY <3>1
  <2> QED BY <2>3, <1>1
<1>7. Len(answers) = Len(sent) \/ Len(answers) < Len(sent)
  BY <1>2
<1> QED BY <1>4, <1>5, <1>6, <1>7

\* An answer is made from the whole of the challenge the client is at, and drops just that.
LEMMA RetainingAnswers ==
    ASSUME RetainingInv, AnswerFirst
    PROVE  /\ Len(answers) < Len(sent)
           /\ TextEnd(Due) <= Len(buf)
           /\ answers' = Append(answers, Asks(Due))
           /\ buf' = SubSeq(buf, TextEnd(Due) + 1, Len(buf))
           /\ Asks(Due) \in Questions
           /\ UNCHANGED serverVars
           /\ overflow' = overflow
<1>1. ChallengeEnd # 0 /\ answers' = Append(answers, Parse) /\ buf' = Retain(ChallengeEnd)
      /\ UNCHANGED serverVars /\ overflow' = overflow
  BY DEF AnswerFirst
<1>2. Len(answers) < Len(sent) /\ TextEnd(Due) <= Len(buf) /\ ChallengeEnd = TextEnd(Due)
  BY <1>1, EndFound DEF RetainingInv
<1>3. Due \in AllChallenges /\ Holds(buf, Due) /\ buf \in Seq(Bytes)
  BY <1>2, AtFirst DEF RetainingInv, Streaming
<1>4. Parse = Due
  BY <1>3, RetainingReads
<1>5. Asks(Due) = Due
  BY DEF Asks, RetainingInv
<1> QED BY <1>1, <1>2, <1>3, <1>4, <1>5, Asked DEF Retain

LEMMA RetainingKeeps ==
    ASSUME RetainingInv, [RetainingNext]_retainingVars
    PROVE  RetainingInv'
<1>1. ASSUME NEW c \in Challenges[client], SendChallenge(c), UNCHANGED overflow PROVE RetainingInv'
  BY <1>1, StreamingSends DEF RetainingInv, SendChallenge
<1>2. ASSUME ServerCloses, UNCHANGED overflow PROVE RetainingInv'
  BY <1>2 DEF RetainingInv, Streaming, ServerCloses
<1>3. ASSUME AnswerFirst PROVE RetainingInv'
  <2>1. Streaming'
    BY <1>3, RetainingAnswers, StreamingAnswers DEF RetainingInv
  <2> QED BY <2>1, <1>3 DEF RetainingInv, AnswerFirst, serverVars
<1>4. ~Overflow
  <2> SUFFICES ASSUME Overflow PROVE FALSE
    OBVIOUS
  <2>1. ChallengeEnd = 0 /\ Len(buf) = Bufcap
    BY DEF Overflow, Full
  <2>2. Bufcap \in Nat \ {0}
    BY BufcapAssumption
  <2>3. Len(answers) < Len(sent) /\ Due \in Challenges["hftclient2026"] /\ Due \in AllChallenges
    BY <2>1, <2>2, AtFirst DEF RetainingInv
  <2>4. Len(Text[Due]) <= Bufcap /\ Len(Text[Due]) = TextEnd(Due)
    BY <2>3, BufcapAssumption, TextIs
  <2> QED BY <2>1, <2>3, <2>4, EndFound DEF RetainingInv
<1>5. ASSUME RecvSome PROVE RetainingInv'
  <2>1. Receive(Bufcap - Len(buf)) /\ UNCHANGED <<client, sent, closed, running, overflow, answers>>
    BY <1>5 DEF RecvSome
  <2>2. Streaming'
    BY <2>1, StreamingReceives DEF RetainingInv
  <2> QED BY <2>1, <2>2 DEF RetainingInv
<1>6. ASSUME Disconnected PROVE RetainingInv'
  BY <1>6 DEF RetainingInv, Streaming, Disconnected, serverVars
<1>7. ASSUME UNCHANGED retainingVars PROVE RetainingInv'
  BY <1>7 DEF RetainingInv, Streaming, retainingVars, streamVars
<1> QED BY <1>1, <1>2, <1>3, <1>4, <1>5, <1>6, <1>7 DEF RetainingNext, Server, RetainingLoop

LEMMA RetainingMaps ==
    ASSUME RetainingInv, [RetainingNext]_retainingVars
    PROVE  [Promise!Next]_(Promise!vars)
<1>1. ASSUME NEW c \in Challenges[client], SendChallenge(c) PROVE Promise!Next
  BY <1>1, PromiseSends DEF RetainingInv, Promise!Next
<1>2. ASSUME AnswerFirst PROVE Promise!Next
  BY <1>2, RetainingAnswers, PromiseAnswers DEF RetainingInv, Promise!Next
<1>3. ASSUME ServerCloses \/ Overflow \/ RecvSome \/ Disconnected \/ UNCHANGED retainingVars
      PROVE  UNCHANGED Promise!vars
  <2>1. UNCHANGED <<client, sent, answers>>
    BY <1>3 DEF ServerCloses, Overflow, RecvSome, Disconnected, retainingVars, streamVars, serverVars
  <2> QED BY <2>1, PromiseStays
<1> QED BY <1>1, <1>2, <1>3 DEF RetainingNext, Server, RetainingLoop

LEMMA RetainingInvariance == RetainingSpec => []RetainingInv
<1>1. RetainingInit => RetainingInv
  <2> SUFFICES ASSUME RetainingInit PROVE RetainingInv
    OBVIOUS
  <2>1. client \in Programs
    BY DEF RetainingInit, Programs
  <2> QED BY <2>1, StreamingInit DEF RetainingInit, RetainingInv
<1>2. RetainingInv /\ [RetainingNext]_retainingVars => RetainingInv'
  BY RetainingKeeps
<1> QED BY <1>1, <1>2, PTL DEF RetainingSpec

(***************************************************************************)
(* hftclient2026 never leaves its loop over a full buffer                  *)
(* (hftclient2026/main.cpp), however large the backlog in the socket is    *)
(* and wherever recv cuts it, if the longest challenge fits in the buffer. *)
(***************************************************************************)
THEOREM RetainingNeverOverflows == RetainingSpec => []NeverOverflows
<1>1. RetainingInv => NeverOverflows
  BY DEF RetainingInv, NeverOverflows
<1> QED BY <1>1, RetainingInvariance, PTL

(***************************************************************************)
(* hftclient2026 implements the promise of AnswerStream with any backlog:  *)
(* every challenge is answered once and in order, with its own id and from *)
(* its own matrices, wherever recv cuts the stream.                        *)
(***************************************************************************)
THEOREM RetainingImplements == RetainingSpec => AnswersEachInOrder
<1>1. RetainingInit => Promise!Init
  BY PromiseInit DEF RetainingInit
<1>2. RetainingInv /\ [RetainingNext]_retainingVars => [Promise!Next]_(Promise!vars)
  BY RetainingMaps
<1> QED BY <1>1, <1>2, RetainingInvariance, PTL DEF RetainingSpec, AnswersEachInOrder, Promise!Spec

-----------------------------------------------------------------------------
(***************************************************************************)
(* client and client_naive, while the server waits for each answer.        *)
(***************************************************************************)
LowLatencyInv ==
    /\ client \in {"client", "client_naive"}
    /\ Streaming
    /\ Len(sent) <= Len(answers) + 1

\* Four newlines have come when, and only when, the buffer is the challenge the client is at.
LEMMA ReceivedIs ==
    ASSUME LowLatencyInv, Received
    PROVE  /\ Len(answers) < Len(sent)
           /\ Due \in Challenges[client] /\ Due \in AllChallenges
           /\ Len(buf) = TextEnd(Due)
           /\ Holds(buf, Due)
           /\ buf \in Seq(Bytes)
<1>1. /\ Len(answers) \in Nat /\ Len(sent) \in Nat /\ Len(buf) \in Nat /\ Len(wire) \in Nat
      /\ Len(answers) <= Len(sent)
      /\ Len(answers) = Len(sent) => Len(buf) = 0
      /\ Len(answers) < Len(sent) =>
             /\ Due \in Challenges[client]
             /\ Due \in AllChallenges
             /\ Starts(buf, Due)
             /\ TextEnd(Due) <= Len(buf) + Len(wire)
             /\ TextEnd(Due) <= Len(buf) => Holds(buf, Due)
  BY AtFirst DEF LowLatencyInv
<1>2. buf \in Seq(Bytes) /\ wire \in Seq(Bytes) /\ answers \in Seq(Questions)
  BY DEF LowLatencyInv, Streaming
<1>3. Cardinality(Newlines(buf)) >= 4
  BY DEF Received
<1>4. Len(answers) < Len(sent)
  <2> SUFFICES ASSUME Len(answers) = Len(sent) PROVE FALSE
    BY <1>1
  <2>1. Newlines(buf) = {}
    BY <1>1, <1>2 DEF Newlines
  <2> QED BY <2>1, <1>3, FS_EmptySet
<1>5. TextEnd(Due) \in Nat
  BY <1>1, <1>4, ChallengeType
<1>6. TextEnd(Due) <= Len(buf)
  <2> SUFFICES ASSUME Len(buf) < TextEnd(Due) PROVE FALSE
    BY <1>1, <1>5
  <2>1. Cardinality(Newlines(buf)) \in Nat /\ Cardinality(Newlines(buf)) <= 3
    BY <1>1, <1>2, <1>4, PartOfText
  <2> QED BY <2>1, <1>3
<1>7. Len(buf) + Len(wire) = TextEnd(Due)
  <2> DEFINE s == buf \o wire
             n == Len(answers)
  <2>1. InStream(s, sent, n)
    BY DEF LowLatencyInv, Streaming
  <2>2. Len(sent) = n + 1
    BY <1>1, <1>4 DEF LowLatencyInv
  <2>3. Len(s) = Len(buf) + Len(wire)
    BY <1>2
  <2> HIDE DEF s, n
  <2>4. PICK cut : Cuts(cut, s, sent, n)
    BY <2>1 DEF InStream
  <2>5. n \in Nat
    BY <1>1 DEF n
  <2>6. n + 1 \in n + 1 .. Len(sent) /\ (n + 1) - 1 = n
    BY <2>2, <2>5
  <2>7. cut[n] = 0 /\ cut[n + 1] = Len(s) /\ cut[n + 1] = cut[n] + TextEnd(sent[n + 1])
    BY <2>2, <2>4, <2>6 DEF Cuts
  <2> QED BY <2>3, <2>7, <1>1, <1>5 DEF Due, n
<1> QED BY <1>1, <1>2, <1>4, <1>5, <1>6, <1>7

\* An answer is made from the matrices of the challenge the client is at, and the whole buffer is dropped.
LEMMA LowLatencyAnswers ==
    ASSUME IdsAreShort, LowLatencyInv, Answer
    PROVE  /\ Len(answers) < Len(sent)
           /\ TextEnd(Due) <= Len(buf)
           /\ answers' = Append(answers, Asks(Due))
           /\ buf' = SubSeq(buf, TextEnd(Due) + 1, Len(buf))
           /\ Asks(Due) \in Questions
           /\ UNCHANGED serverVars
<1>1. /\ Received /\ buf' = <<>> /\ UNCHANGED serverVars
      /\ \E useWorker \in BOOLEAN :
            answers' = Append(answers, IF Naive THEN ParseTokens ELSE ParseFixed(useWorker))
  BY DEF Answer, NextBuffer
<1>2. /\ Len(answers) < Len(sent)
      /\ Due \in Challenges[client] /\ Due \in AllChallenges
      /\ Len(buf) = TextEnd(Due)
      /\ Holds(buf, Due)
      /\ buf \in Seq(Bytes)
  BY <1>1, ReceivedIs
<1>3. Asks(Due) = Matrices(Due) /\ Asks(Due) \in Questions
  BY <1>2, Asked DEF Asks, LowLatencyInv
<1>4. ASSUME Naive PROVE ParseTokens = Matrices(Due)
  BY <1>2, NaiveReads
<1>5. ASSUME ~Naive PROVE \A useWorker \in BOOLEAN : ParseFixed(useWorker) = Matrices(Due)
  <2>1. Due.id <= 3
    BY <1>2, <1>5 DEF LowLatencyInv, Naive, IdsAreShort
  <2> QED BY <2>1, <1>2, LowLatencyReads
<1>6. SubSeq(buf, TextEnd(Due) + 1, Len(buf)) = <<>>
  <2>1. Len(buf) \in Nat /\ Len(buf) + 1 > Len(buf)
    BY <1>2
  <2> QED BY <2>1, <1>2, SubSeqEmpty
<1>7. TextEnd(Due) <= Len(buf)
  <2>1. Len(buf) \in Nat
    BY <1>2
  <2> QED BY <2>1, <1>2
<1>8. answers' = Append(answers, Matrices(Due))
  BY <1>1, <1>4, <1>5
<1> QED BY <1>1, <1>2, <1>3, <1>6, <1>7, <1>8

LEMMA LowLatencyKeeps ==
    ASSUME IdsAreShort, LowLatencyInv, [LowLatencyNext]_streamVars
    PROVE  LowLatencyInv'
<1>0. Len(answers) \in Nat /\ Len(sent) \in Nat /\ Len(answers) <= Len(sent)
  BY AtFirst DEF LowLatencyInv
<1>1. ASSUME Len(answers) = Len(sent), NEW c \in Challenges[client], SendChallenge(c) PROVE LowLatencyInv'
  <2>1. Streaming'
    BY <1>1, StreamingSends DEF LowLatencyInv
  <2>2. client' = client /\ answers' = answers /\ Len(sent') = Len(sent) + 1
    BY <1>1 DEF SendChallenge, LowLatencyInv, Streaming
  <2> QED BY <2>1, <2>2, <1>0, <1>1 DEF LowLatencyInv
<1>2. ASSUME ServerCloses PROVE LowLatencyInv'
  BY <1>2 DEF LowLatencyInv, Streaming, ServerCloses
<1>3. ASSUME RecvPayload PROVE LowLatencyInv'
  <2>1. UNCHANGED <<client, sent, answers>> /\ \E room : Receive(room)
    BY <1>3 DEF RecvPayload
  <2>2. Streaming'
    BY <2>1, StreamingReceives DEF LowLatencyInv
  <2> QED BY <2>1, <2>2 DEF LowLatencyInv
<1>4. ASSUME PayloadEnds PROVE LowLatencyInv'
  BY <1>4 DEF LowLatencyInv, Streaming, PayloadEnds, serverVars
<1>5. ASSUME Answer PROVE LowLatencyInv'
  <2>1. Streaming' /\ UNCHANGED serverVars /\ answers' = Append(answers, Asks(Due))
    BY <1>5, LowLatencyAnswers, StreamingAnswers DEF LowLatencyInv
  <2>2. Len(answers') = Len(answers) + 1
    BY <2>1 DEF LowLatencyInv, Streaming
  <2> QED BY <2>1, <2>2, <1>0 DEF LowLatencyInv, serverVars
<1>6. ASSUME UNCHANGED streamVars PROVE LowLatencyInv'
  BY <1>6 DEF LowLatencyInv, Streaming, streamVars
<1> QED BY <1>1, <1>2, <1>3, <1>4, <1>5, <1>6 DEF LowLatencyNext, PacedServer, LowLatencyLoop

LEMMA LowLatencyMaps ==
    ASSUME IdsAreShort, LowLatencyInv, [LowLatencyNext]_streamVars
    PROVE  [Promise!Next]_(Promise!vars)
<1>1. ASSUME NEW c \in Challenges[client], SendChallenge(c) PROVE Promise!Next
  BY <1>1, PromiseSends DEF LowLatencyInv, Promise!Next
<1>2. ASSUME Answer PROVE Promise!Next
  BY <1>2, LowLatencyAnswers, PromiseAnswers DEF LowLatencyInv, Promise!Next
<1>3. ASSUME ServerCloses \/ RecvPayload \/ PayloadEnds \/ UNCHANGED streamVars
      PROVE  UNCHANGED Promise!vars
  <2>1. UNCHANGED <<client, sent, answers>>
    BY <1>3 DEF ServerCloses, RecvPayload, PayloadEnds, streamVars, serverVars
  <2> QED BY <2>1, PromiseStays
<1> QED BY <1>1, <1>2, <1>3 DEF LowLatencyNext, PacedServer, LowLatencyLoop

LEMMA LowLatencyInvariance == ASSUME IdsAreShort PROVE LowLatencySpec => []LowLatencyInv
<1>1. LowLatencyInit => LowLatencyInv
  <2> SUFFICES ASSUME LowLatencyInit PROVE LowLatencyInv
    OBVIOUS
  <2>1. client \in Programs
    BY DEF LowLatencyInit, Programs
  <2>2. Streaming
    BY <2>1, StreamingInit DEF LowLatencyInit
  <2>3. Len(sent) <= Len(answers) + 1
    BY DEF LowLatencyInit, StreamInit
  <2> QED BY <2>2, <2>3 DEF LowLatencyInit, LowLatencyInv
<1>2. LowLatencyInv /\ [LowLatencyNext]_streamVars => LowLatencyInv'
  BY LowLatencyKeeps
<1> QED BY <1>1, <1>2, PTL DEF LowLatencySpec

(***************************************************************************)
(* While ids have at most three digits, the three-byte loads of client     *)
(* (parse_int_s1 and parse_val, hft/src/client.cpp) stay among the bytes   *)
(* received for the challenge, and the worker begins where the main thread *)
(* stops, for matrices of any size.                                        *)
(***************************************************************************)
THEOREM LowLatencyReadsInside == ASSUME IdsAreShort PROVE LowLatencySpec => []NoReadPastEnd
<1>1. LowLatencyInv => NoReadPastEnd
  <2> SUFFICES ASSUME LowLatencyInv, Received, client = "client"
               PROVE  LET a == ReadValues(buf, RowA, M)
                          b == ReadValues(buf, a.next + 1, M)
                      IN /\ b.next - (b.vals[M] + 1) + 2 <= Len(buf)
                         /\ FindNewline(buf, RowA) + 1 = a.next + 1
    BY DEF NoReadPastEnd
  <2>1. /\ Due \in Challenges["client"] /\ Due \in AllChallenges
        /\ Len(buf) = TextEnd(Due) /\ Holds(buf, Due) /\ buf \in Seq(Bytes)
    BY ReceivedIs
  <2>2. Due.id <= 3
    BY <2>1 DEF IdsAreShort
  <2>3. RowA = RowAAt(Due) + 1 /\ FindNewline(buf, RowA) = RowBAt(Due)
    BY <2>1, <2>2, LowLatencyReads
  <2>4. /\ ReadValues(buf, RowAAt(Due) + 1, M) = [vals |-> Due.a, next |-> RowBAt(Due)]
        /\ ReadValues(buf, RowBAt(Due) + 1, M) = [vals |-> Due.b, next |-> TextEnd(Due)]
    BY <2>1, TextRead
  <2>5. Due.b[M] \in 1 .. 3 /\ TextEnd(Due) \in Nat
    BY <2>1, ChallengeType, StreamAssumption DEF Widths
  <2>6. TextEnd(Due) - (Due.b[M] + 1) + 2 <= TextEnd(Due)
    BY <2>5
  <2> QED BY <2>1, <2>3, <2>4, <2>6
<1> QED BY <1>1, LowLatencyInvariance, PTL

(***************************************************************************)
(* While ids have at most three digits and the server waits for an answer  *)
(* before it sends again, client and client_naive implement the promise of *)
(* AnswerStream wherever recv cuts the stream, whether or not the worker   *)
(* thread parses B.                                                        *)
(***************************************************************************)
THEOREM LowLatencyImplements == ASSUME IdsAreShort PROVE LowLatencySpec => AnswersEachInOrder
<1>1. LowLatencyInit => Promise!Init
  BY PromiseInit DEF LowLatencyInit
<1>2. LowLatencyInv /\ [LowLatencyNext]_streamVars => [Promise!Next]_(Promise!vars)
  BY LowLatencyMaps
<1> QED BY <1>1, <1>2, LowLatencyInvariance, PTL DEF LowLatencySpec, AnswersEachInOrder, Promise!Spec
=============================================================================
