---------------------- MODULE TextfieldViewsModelProofs ----------------------
(***************************************************************************)
(* The edit history of TextfieldViewsModel implements UndoHistory, for     *)
(* texts and histories of every length.                                    *)
(***************************************************************************)
EXTENDS MCTextfieldViewsModel, ListLemmas, SequenceTheorems

-----------------------------------------------------------------------------
(* Texts that are put together and cut.                                    *)

Text == Seq(Int)

LEMMA JoinIsText ==
  ASSUME NEW p \in Text, NEW q \in Text
  PROVE  /\ p \o q \in Text /\ Len(p \o q) = Len(p) + Len(q)
         /\ <<>> \o p = p /\ p \o <<>> = p
         /\ <<>> \in Text /\ Len(<<>>) = 0
         /\ Len(p) \in Nat /\ (p # <<>> <=> Len(p) > 0)
BY ConcatProperties, ConcatEmptySeq, EmptySeq DEF Text

Associate(p, q, r) == (p \o q) \o r = p \o (q \o r)

LEMMA JoinAssociates ==
  ASSUME NEW p \in Text, NEW q \in Text, NEW r \in Text
  PROVE  Associate(p, q, r)
BY ConcatAssociative DEF Text, Associate

\* The parts of a text are known by their lengths.
Coincide(p, q, x, y) == p \o q = x \o y /\ Len(p) = Len(x)

LEMMA JoinCancels ==
  ASSUME NEW p \in Text, NEW q \in Text, NEW x \in Text, NEW y \in Text,
         Coincide(p, q, x, y)
  PROVE  p = x /\ q = y
<1>0. p \o q = x \o y /\ Len(p) = Len(x)
  BY DEF Coincide
<1>1. /\ \A i \in 1 .. Len(p) + Len(q) :
           (p \o q)[i] = IF i <= Len(p) THEN p[i] ELSE q[i - Len(p)]
      /\ \A i \in 1 .. Len(x) + Len(y) :
           (x \o y)[i] = IF i <= Len(x) THEN x[i] ELSE y[i - Len(x)]
  BY ConcatProperties DEF Text
<1>2. /\ Len(p) \in Nat /\ Len(q) \in Nat /\ Len(x) \in Nat /\ Len(y) \in Nat
      /\ Len(p) + Len(q) = Len(x) + Len(y)
  <2>1. Len(p \o q) = Len(p) + Len(q) /\ Len(x \o y) = Len(x) + Len(y)
    BY JoinIsText
  <2>2. Len(p) \in Nat /\ Len(q) \in Nat /\ Len(x) \in Nat /\ Len(y) \in Nat
    BY JoinIsText
  <2>3. QED
    BY <1>0, <2>1, <2>2
<1>3. p = x
  <2>1. ASSUME NEW i \in 1 .. Len(p)
        PROVE  p[i] = x[i]
    BY <1>0, <1>1, <1>2
  <2>2. QED
    BY <1>0, <1>2, <2>1, SeqEqual DEF Text
<1>4. q = y
  <2>1. ASSUME NEW i \in 1 .. Len(q)
        PROVE  q[i] = y[i]
    <3>1. /\ i + Len(p) \in 1 .. Len(p) + Len(q) /\ ~(i + Len(p) <= Len(p))
          /\ (i + Len(p)) - Len(p) = i
      BY <1>2
    <3>2. q[i] = (p \o q)[i + Len(p)] /\ y[i] = (x \o y)[i + Len(p)]
      BY <1>0, <1>1, <1>2, <3>1
    <3>3. QED
      BY <1>0, <3>2
  <2>2. Len(q) = Len(y)
    BY <1>0, <1>2
  <2>3. QED
    BY <2>1, <2>2, SeqEqual DEF Text
<1>5. QED
  BY <1>3, <1>4

\* A part of a text is a text, and all its parts give it back.
LEMMA PartIsText ==
  ASSUME NEW a \in Text, NEW from \in Int, NEW to \in Int,
         1 <= from, to <= Len(a)
  PROVE  /\ SubSeq(a, from, to) \in Text
         /\ Len(SubSeq(a, from, to)) = IF from <= to THEN to - from + 1 ELSE 0
         /\ \A i \in 1 .. Len(SubSeq(a, from, to)) : SubSeq(a, from, to)[i] = a[from + i - 1]
<1>1. \A i \in from .. to : a[i] \in Int
  BY ElementOfSeq, LenProperties DEF Text
<1>2. /\ SubSeq(a, from, to) \in Text
      /\ Len(SubSeq(a, from, to)) = IF from <= to THEN to - from + 1 ELSE 0
  BY <1>1, SubSeqProperties DEF Text
<1>3. \A i \in 1 .. to - from + 1 : SubSeq(a, from, to)[i] = a[from + i - 1]
  BY <1>1, SubSeqProperties
<1>4. QED
  BY <1>2, <1>3

LEMMA PartsOfJoin ==
  ASSUME NEW p \in Text, NEW q \in Text
  PROVE  /\ SubSeq(p \o q, 1, Len(p)) = p
         /\ SubSeq(p \o q, Len(p) + 1, Len(p) + Len(q)) = q
<1> DEFINE a == p \o q
           n == Len(p)
           k == Len(q)
<1>1. /\ n \in Nat /\ k \in Nat /\ a \in Text /\ Len(a) = n + k
      /\ \A i \in 1 .. n + k : a[i] = IF i <= n THEN p[i] ELSE q[i - n]
  BY JoinIsText, ConcatProperties DEF Text
<1> HIDE DEF a
<1>2. SubSeq(a, 1, n) = p
  <2>1. /\ SubSeq(a, 1, n) \in Text /\ Len(SubSeq(a, 1, n)) = n
        /\ \A i \in 1 .. n : SubSeq(a, 1, n)[i] = a[i]
    BY <1>1, PartIsText
  <2>2. \A i \in 1 .. n : SubSeq(a, 1, n)[i] = p[i]
    BY <1>1, <2>1
  <2>3. QED
    BY <2>1, <2>2, SeqEqual DEF Text
<1>3. SubSeq(a, n + 1, n + k) = q
  <2>1. /\ SubSeq(a, n + 1, n + k) \in Text /\ Len(SubSeq(a, n + 1, n + k)) = k
        /\ \A i \in 1 .. k : SubSeq(a, n + 1, n + k)[i] = a[n + 1 + i - 1]
    BY <1>1, PartIsText
  <2>2. \A i \in 1 .. k : SubSeq(a, n + 1, n + k)[i] = q[i]
    BY <1>1, <2>1
  <2>3. QED
    BY <2>1, <2>2, SeqEqual DEF Text
<1>4. QED
  BY <1>2, <1>3 DEF a

\* A text cut in two.
LEMMA PartsJoined ==
  ASSUME NEW a \in Text, NEW at \in 0 .. Len(a)
  PROVE  /\ SubSeq(a, 1, at) \in Text /\ SubSeq(a, at + 1, Len(a)) \in Text
         /\ Len(SubSeq(a, 1, at)) = at /\ Len(SubSeq(a, at + 1, Len(a))) = Len(a) - at
         /\ SubSeq(a, 1, at) \o SubSeq(a, at + 1, Len(a)) = a
<1>0. Len(a) \in Nat
  BY JoinIsText
<1>1. /\ SubSeq(a, 1, at) \in Text /\ Len(SubSeq(a, 1, at)) = at
      /\ SubSeq(a, at + 1, Len(a)) \in Text /\ Len(SubSeq(a, at + 1, Len(a))) = Len(a) - at
  BY <1>0, PartIsText
<1>2. SubSeq(a, 1, at) \o SubSeq(a, at + 1, Len(a)) = SubSeq(a, 1, Len(a))
  <2>1. 1 \in 1 .. Len(a) + 1 /\ at \in 1 - 1 .. Len(a) /\ Len(a) \in at .. Len(a)
    BY <1>0
  <2>2. QED
    BY <2>1, ConcatAdjacentSubSeq DEF Text
<1>3. SubSeq(a, 1, Len(a)) = a
  BY SubSeqFull DEF Text
<1>4. QED
  BY <1>1, <1>2, <1>3

LEMMA MiddleOfJoin ==
  ASSUME NEW p \in Text, NEW q \in Text, NEW r \in Text
  PROVE  SubSeq((p \o q) \o r, Len(p) + 1, Len(p) + Len(q)) = q
<1> DEFINE a == p \o q
           b == a \o r
           n == Len(p)
           k == Len(q)
           j == Len(r)
<1>1. /\ n \in Nat /\ k \in Nat /\ j \in Nat /\ a \in Text /\ Len(a) = n + k
      /\ \A i \in 1 .. n + k : a[i] = IF i <= n THEN p[i] ELSE q[i - n]
  BY JoinIsText, ConcatProperties DEF Text
<1> HIDE DEF a
<1>2. /\ b \in Text /\ Len(b) = Len(a) + j
      /\ \A i \in 1 .. Len(a) + j : b[i] = IF i <= Len(a) THEN a[i] ELSE r[i - Len(a)]
  <2>1. a \in Seq(Int) /\ r \in Seq(Int)
    BY <1>1 DEF Text
  <2>2. QED
    BY <2>1, ConcatProperties DEF Text
<1> HIDE DEF b
<1>3. /\ SubSeq(b, n + 1, n + k) \in Text /\ Len(SubSeq(b, n + 1, n + k)) = k
      /\ \A i \in 1 .. k : SubSeq(b, n + 1, n + k)[i] = b[n + 1 + i - 1]
  BY <1>1, <1>2, PartIsText
<1>4. \A i \in 1 .. k : SubSeq(b, n + 1, n + k)[i] = q[i]
  BY <1>1, <1>2, <1>3
<1>5. SubSeq(b, n + 1, n + k) = q
  BY <1>3, <1>4, SeqEqual DEF Text
<1>6. QED
  BY <1>5 DEF a, b

\* rest is left when part is cut out of text, at start unless it is empty.
CutOut(text, part, start, rest) ==
  \E p, r \in Text :
    /\ text = (p \o part) \o r
    /\ rest = p \o r
    /\ part # <<>> => Len(p) = start

\* Cutting by position and length takes the part out, and putting it back at
\* its place gives the text again.
LEMMA CutOutGives ==
  ASSUME NEW text, NEW part \in Text, NEW start \in Nat, NEW rest,
         CutOut(text, part, start, rest)
  PROVE  /\ text \in Text /\ rest \in Text
         /\ Erase(text, start, Len(part)) = rest
         /\ InsertInto(rest, start, part) = text
         /\ Finds(text, start, part)
<1>1. PICK p \in Text, r \in Text :
        text = (p \o part) \o r /\ rest = p \o r /\ (part # <<>> => Len(p) = start)
  BY DEF CutOut
<1>2. /\ p \o part \in Text /\ Len(p \o part) = Len(p) + Len(part)
      /\ part \o r \in Text /\ Len(part \o r) = Len(part) + Len(r)
      /\ rest \in Text /\ Len(rest) = Len(p) + Len(r)
      /\ text = p \o (part \o r)
  <2>1. p \o part \in Text /\ Len(p \o part) = Len(p) + Len(part)
    BY JoinIsText
  <2>2. part \o r \in Text /\ Len(part \o r) = Len(part) + Len(r)
    BY JoinIsText
  <2>3. rest \in Text /\ Len(rest) = Len(p) + Len(r)
    BY <1>1, JoinIsText
  <2>4. text = p \o (part \o r)
    BY <1>1, JoinAssociates DEF Associate
  <2>5. QED
    BY <2>1, <2>2, <2>3, <2>4
<1>3. text \in Text /\ Len(text) = Len(p) + Len(part) + Len(r)
  BY <1>1, <1>2, JoinIsText
<1>4. Len(p) \in Nat /\ Len(part) \in Nat /\ Len(r) \in Nat /\ (part # <<>> <=> Len(part) > 0)
  BY JoinIsText
<1>5. CASE part = <<>>
  <2>1. text = rest
    BY <1>1, <1>5, JoinIsText
  <2>2. Len(part) = 0
    BY <1>4, <1>5
  <2>3. QED
    BY <1>2, <1>3, <1>5, <2>1, <2>2 DEF Erase, InsertInto, Finds
<1>6. CASE part # <<>>
  <2>1. SubSeq(text, 1, Len(p)) = p
    BY <1>2, PartsOfJoin
  <2>2. SubSeq(text, Len(p \o part) + 1, Len(p \o part) + Len(r)) = r
    <3>1. p \o part \in Text
      BY <1>2
    <3>2. SubSeq((p \o part) \o r, Len(p \o part) + 1, Len(p \o part) + Len(r)) = r
      BY <3>1, PartsOfJoin
    <3>3. QED
      BY <1>1, <3>2
  <2>3. SubSeq(text, Len(p) + 1, Len(p) + Len(part)) = part
    BY <1>1, MiddleOfJoin
  <2>4. SubSeq(rest, 1, Len(p)) = p /\ SubSeq(rest, Len(p) + 1, Len(p) + Len(r)) = r
    BY <1>1, PartsOfJoin
  <2>5. Len(p) = start
    BY <1>1, <1>6
  <2>6. Erase(text, start, Len(part)) = p \o r
    <3>1. SubSeq(text, start + Len(part) + 1, Len(text)) = r
      BY <1>2, <1>3, <2>2, <2>5
    <3>2. Len(part) # 0
      BY <1>4, <1>6
    <3>3. QED
      BY <2>1, <2>5, <3>1, <3>2 DEF Erase
  <2>7. InsertInto(rest, start, part) = text
    <3>1. SubSeq(rest, start + 1, Len(rest)) = r
      BY <1>2, <2>4, <2>5
    <3>2. InsertInto(rest, start, part) = p \o part \o r
      BY <1>6, <2>4, <2>5, <3>1 DEF InsertInto
    <3>3. QED
      BY <1>1, <3>2
  <2>8. Finds(text, start, part)
    <3>1. start + Len(part) <= Len(text)
      BY <1>3, <1>4, <2>5
    <3>2. QED
      BY <2>3, <2>5, <3>1 DEF Finds, Substr
  <2>9. QED
    BY <1>1, <1>2, <1>3, <2>6, <2>7, <2>8
<1>7. QED
  BY <1>5, <1>6

\* A part that lies in the text is cut out of it.
LEMMA CutOutSubstr ==
  ASSUME NEW text \in Text, NEW from \in Nat, NEW length \in Nat, from + length <= Len(text)
  PROVE  /\ Substr(text, from, length) \in Text /\ Len(Substr(text, from, length)) = length
         /\ Erase(text, from, length) \in Text
         /\ Len(Erase(text, from, length)) = Len(text) - length
         /\ CutOut(text, Substr(text, from, length), from, Erase(text, from, length))
<1> DEFINE p == SubSeq(text, 1, from)
           q == SubSeq(text, from + 1, from + length)
           r == SubSeq(text, from + length + 1, Len(text))
<1>0. PICK n \in Nat : n = Len(text)
  BY JoinIsText
<1>1. /\ from \in 0 .. Len(text) /\ from + length \in 0 .. Len(text)
      /\ 1 \in 1 .. Len(text) + 1 /\ from \in 1 - 1 .. Len(text)
      /\ from + length \in from .. Len(text)
  BY <1>0
<1>2. /\ p \in Text /\ Len(p) = from /\ r \in Text /\ Len(r) = n - (from + length)
      /\ SubSeq(text, 1, from + length) \o r = text
  BY <1>0, <1>1, PartsJoined
<1>3. q \in Text /\ Len(q) = length
  <2>1. from + 1 \in Int /\ from + length \in Int /\ 1 <= from + 1
    OBVIOUS
  <2>2. q \in Text /\ Len(q) = IF from + 1 <= from + length THEN (from + length) - (from + 1) + 1 ELSE 0
    BY <2>1, PartIsText
  <2>3. QED
    BY <2>2
<1>4. p \o q = SubSeq(text, 1, from + length)
  BY <1>1, ConcatAdjacentSubSeq DEF Text
<1>5. text = (p \o q) \o r
  BY <1>2, <1>4
<1>6. Erase(text, from, length) = p \o r
  <2>1. CASE length = 0
    <3>1. p \o SubSeq(text, from + 1, Len(text)) = text
      BY <1>1, PartsJoined
    <3>2. from + length + 1 = from + 1
      BY <2>1
    <3>3. QED
      BY <2>1, <3>1, <3>2 DEF Erase
  <2>2. CASE length # 0
    BY <2>2 DEF Erase
  <2>3. QED
    BY <2>1, <2>2
<1>7. Substr(text, from, length) = q
  BY DEF Substr
<1> HIDE DEF p, q, r
<1>8. p \o r \in Text /\ Len(p \o r) = n - length
  <2>1. p \o r \in Text /\ Len(p \o r) = Len(p) + Len(r)
    BY <1>2, JoinIsText
  <2>2. QED
    BY <1>2, <2>1
<1>9. CutOut(text, q, from, p \o r)
  BY <1>2, <1>5 DEF CutOut
<1>10. QED
  BY <1>0, <1>3, <1>6, <1>7, <1>8, <1>9

\* A text put in at a place of another can be cut out again.
LEMMA CutOutInsert ==
  ASSUME NEW rest \in Text, NEW part \in Text, NEW at \in 0 .. Len(rest)
  PROVE  /\ InsertInto(rest, at, part) \in Text
         /\ Len(InsertInto(rest, at, part)) = Len(rest) + Len(part)
         /\ CutOut(InsertInto(rest, at, part), part, at, rest)
<1> DEFINE p == SubSeq(rest, 1, at)
           r == SubSeq(rest, at + 1, Len(rest))
<1>1. p \in Text /\ r \in Text /\ Len(p) = at /\ Len(r) = Len(rest) - at /\ p \o r = rest
  BY PartsJoined
<1>2. InsertInto(rest, at, part) = (p \o part) \o r
  <2>1. CASE part = <<>>
    BY <1>1, <2>1, JoinIsText DEF InsertInto
  <2>2. CASE part # <<>>
    BY <2>2 DEF InsertInto
  <2>3. QED
    BY <2>1, <2>2
<1> HIDE DEF p, r
<1>3. /\ p \o part \in Text /\ Len(p \o part) = Len(p) + Len(part)
  BY <1>1, JoinIsText
<1>4. (p \o part) \o r \in Text /\ Len((p \o part) \o r) = Len(p \o part) + Len(r)
  BY <1>1, <1>3, JoinIsText
<1>5. Len(rest) \in Nat /\ Len(part) \in Nat
  BY JoinIsText
<1>6. Len((p \o part) \o r) = Len(rest) + Len(part)
  BY <1>1, <1>3, <1>4, <1>5
<1>7. CutOut((p \o part) \o r, part, at, rest)
  BY <1>1 DEF CutOut
<1>8. QED
  BY <1>2, <1>4, <1>6, <1>7

-----------------------------------------------------------------------------
(* Edits and the texts they go between.                                    *)

Kinds == {"insert", "delete", "replace"}
MergeTypes == {"not", "mergeable", "with_previous"}

EditType ==
  [type : Kinds, merge : MergeTypes, backward : BOOLEAN,
   old_cursor : Nat, old_text : Text, old_start : Nat,
   new_cursor : Nat, new_text : Text, new_start : Nat]

\* An edit that others may be merged into is still of the form it was made in.
\* A delete that has grown backwards has a new_start that nobody looks at.
EditKind(e) ==
  e.merge = "mergeable" =>
    /\ e.type = "insert" => e.old_text = <<>>
    /\ e.type # "insert" => e.old_text # <<>>
    /\ e.type = "delete" => e.new_text = <<>>
    /\ e.type # "delete" => e.new_text # <<>> /\ e.old_start = e.new_start

\* Doing e on a gives b, and undoing it on b gives a.
Links(e, a, b) ==
  \E rest \in Text :
    /\ CutOut(a, e.old_text, e.old_start, rest)
    /\ CutOut(b, e.new_text, e.new_start, rest)

LEMMA LinkedEdit ==
  ASSUME NEW e \in EditType, NEW a, NEW b, Links(e, a, b)
  PROVE  /\ a \in Text /\ b \in Text
         /\ Redone(e, a) = b /\ Undone(e, b) = a
         /\ Finds(a, e.old_start, e.old_text) /\ Finds(b, e.new_start, e.new_text)
<1>1. PICK rest \in Text :
        CutOut(a, e.old_text, e.old_start, rest) /\ CutOut(b, e.new_text, e.new_start, rest)
  BY DEF Links
<1>2. /\ e.old_text \in Text /\ e.old_start \in Nat
      /\ e.new_text \in Text /\ e.new_start \in Nat
  BY DEF EditType
<1>3. /\ a \in Text
      /\ Erase(a, e.old_start, Len(e.old_text)) = rest
      /\ InsertInto(rest, e.old_start, e.old_text) = a
      /\ Finds(a, e.old_start, e.old_text)
  BY <1>1, <1>2, CutOutGives
<1>4. /\ b \in Text
      /\ Erase(b, e.new_start, Len(e.new_text)) = rest
      /\ InsertInto(rest, e.new_start, e.new_text) = b
      /\ Finds(b, e.new_start, e.new_text)
  BY <1>1, <1>2, CutOutGives
<1>5. QED
  BY <1>3, <1>4 DEF Redone, Undone

LEMMA LinksBy ==
  ASSUME NEW e, e.old_text \in Text, e.new_text \in Text,
         NEW p \in Text, NEW r \in Text,
         e.old_text # <<>> => Len(p) = e.old_start,
         e.new_text # <<>> => Len(p) = e.new_start
  PROVE  Links(e, (p \o e.old_text) \o r, (p \o e.new_text) \o r)
<1>1. p \o r \in Text
  BY JoinIsText
<1>2. /\ CutOut((p \o e.old_text) \o r, e.old_text, e.old_start, p \o r)
      /\ CutOut((p \o e.new_text) \o r, e.new_text, e.new_start, p \o r)
  BY DEF CutOut
<1>3. QED
  BY <1>1, <1>2 DEF Links

\* Where an edit that others may be merged into changes the text.
Places(e, a, b) ==
  \E p, r \in Text :
    /\ a = (p \o e.old_text) \o r
    /\ b = (p \o e.new_text) \o r
    /\ Len(p) = e.old_start

LEMMA PlaceOfEdit ==
  ASSUME NEW e \in EditType, EditKind(e), e.merge = "mergeable",
         NEW a, NEW b, Links(e, a, b)
  PROVE  Places(e, a, b)
<1>1. PICK rest \in Text :
        CutOut(a, e.old_text, e.old_start, rest) /\ CutOut(b, e.new_text, e.new_start, rest)
  BY DEF Links
<1>2. PICK p \in Text, r \in Text :
        /\ a = (p \o e.old_text) \o r /\ rest = p \o r
        /\ e.old_text # <<>> => Len(p) = e.old_start
  BY <1>1 DEF CutOut
<1>3. PICK q \in Text, t \in Text :
        /\ b = (q \o e.new_text) \o t /\ rest = q \o t
        /\ e.new_text # <<>> => Len(q) = e.new_start
  BY <1>1 DEF CutOut
<1>4. e.old_text \in Text /\ e.new_text \in Text /\ e.type \in Kinds
  BY DEF EditType
<1>5. CASE e.type = "insert"
  <2>1. e.old_text = <<>> /\ Len(q) = e.old_start
    BY <1>3, <1>5 DEF EditKind
  <2>2. a = (q \o e.old_text) \o t
    BY <1>2, <1>3, <2>1, JoinIsText
  <2>3. QED
    BY <1>3, <2>1, <2>2 DEF Places
<1>6. CASE e.type = "delete"
  <2>1. e.new_text = <<>> /\ Len(p) = e.old_start
    BY <1>2, <1>6 DEF EditKind
  <2>2. b = (p \o e.new_text) \o r
    BY <1>2, <1>3, <2>1, JoinIsText
  <2>3. QED
    BY <1>2, <2>1, <2>2 DEF Places
<1>7. CASE e.type = "replace"
  <2>1. Len(p) = e.old_start /\ Len(q) = e.old_start
    BY <1>2, <1>3, <1>7 DEF EditKind
  <2>2. Coincide(p, r, q, t)
    BY <1>2, <1>3, <2>1 DEF Coincide
  <2>3. p = q /\ r = t
    BY <2>2, JoinCancels
  <2>4. QED
    BY <1>2, <1>3, <2>1, <2>3 DEF Places
<1>8. QED
  BY <1>4, <1>5, <1>6, <1>7 DEF Kinds

\* e does what last does and then edit, where last ends.
LEMMA GrowsForward ==
  ASSUME NEW last \in EditType, NEW edit \in EditType, NEW e,
         NEW a, NEW b, NEW c, Places(last, a, b), Places(edit, b, c),
         last.old_start + Len(last.new_text) = edit.old_start,
         e.old_text = last.old_text \o edit.old_text,
         e.new_text = last.new_text \o edit.new_text,
         e.old_start = last.old_start,
         e.new_text # <<>> => e.new_start = last.old_start
  PROVE  Links(e, a, c)
<1>1. PICK p \in Text, r \in Text :
        /\ a = (p \o last.old_text) \o r /\ b = (p \o last.new_text) \o r
        /\ Len(p) = last.old_start
  BY DEF Places
<1>2. PICK q \in Text, t \in Text :
        /\ b = (q \o edit.old_text) \o t /\ c = (q \o edit.new_text) \o t
        /\ Len(q) = edit.old_start
  BY DEF Places
<1>3. PICK o1 \in Text, o2 \in Text, n1 \in Text, n2 \in Text :
        /\ o1 = last.old_text /\ o2 = edit.old_text
        /\ n1 = last.new_text /\ n2 = edit.new_text
  BY DEF EditType
<1>4. /\ p \o n1 \in Text /\ Len(p \o n1) = Len(p) + Len(n1)
      /\ o2 \o t \in Text /\ p \o o1 \in Text
      /\ o1 \o o2 \in Text /\ n1 \o n2 \in Text
  BY JoinIsText
<1>5. Associate(q, o2, t)
  BY JoinAssociates
<1>6. Associate(p \o o1, o2, t)
  BY <1>4, JoinAssociates
<1>7. Associate(p, o1, o2) /\ Associate(p, n1, n2)
  BY JoinAssociates
<1>8. Coincide(p \o n1, r, q, o2 \o t)
  BY <1>1, <1>2, <1>3, <1>4, <1>5 DEF Coincide, Associate
<1>9. q = p \o n1 /\ r = o2 \o t
  BY <1>4, <1>8, JoinCancels
<1>10. a = (p \o (o1 \o o2)) \o t
  BY <1>1, <1>3, <1>6, <1>7, <1>9 DEF Associate
<1>11. c = (p \o (n1 \o n2)) \o t
  BY <1>2, <1>3, <1>7, <1>9 DEF Associate
<1>12. Links(e, (p \o e.old_text) \o t, (p \o e.new_text) \o t)
  BY <1>1, <1>3, <1>4, LinksBy
<1>13. QED
  BY <1>3, <1>10, <1>11, <1>12

\* e takes out what last does and then edit, which ends where last begins.
LEMMA GrowsBackward ==
  ASSUME NEW last \in EditType, NEW edit \in EditType, NEW e,
         NEW a, NEW b, NEW c, Places(last, a, b), Places(edit, b, c),
         last.old_start = edit.old_start + Len(edit.old_text),
         last.new_text = <<>>, edit.new_text = <<>>,
         e.old_text = edit.old_text \o last.old_text, e.new_text = <<>>,
         e.old_start = edit.old_start
  PROVE  Links(e, a, c)
<1>1. PICK p \in Text, r \in Text :
        /\ a = (p \o last.old_text) \o r /\ b = (p \o last.new_text) \o r
        /\ Len(p) = last.old_start
  BY DEF Places
<1>2. PICK q \in Text, t \in Text :
        /\ b = (q \o edit.old_text) \o t /\ c = (q \o edit.new_text) \o t
        /\ Len(q) = edit.old_start
  BY DEF Places
<1>3. PICK o1 \in Text, o2 \in Text : o1 = last.old_text /\ o2 = edit.old_text
  BY DEF EditType
<1>4. /\ q \o o2 \in Text /\ Len(q \o o2) = Len(q) + Len(o2)
      /\ o2 \o o1 \in Text /\ <<>> \in Text
  BY JoinIsText
<1>5. Associate(q, o2, o1)
  BY JoinAssociates
<1>6. p \o <<>> = p
  BY JoinIsText
<1>7. Coincide(p, r, q \o o2, t)
  BY <1>1, <1>2, <1>3, <1>4, <1>6 DEF Coincide
<1>8. p = q \o o2 /\ r = t
  BY <1>4, <1>7, JoinCancels
<1>9. a = (q \o (o2 \o o1)) \o t
  BY <1>1, <1>3, <1>5, <1>8 DEF Associate
<1>10. Links(e, (q \o e.old_text) \o t, (q \o e.new_text) \o t)
  BY <1>2, <1>3, <1>4, LinksBy
<1>11. QED
  BY <1>2, <1>3, <1>9, <1>10

\* Merging the next edit into the last one gives the edit that does both.
LEMMA MergedLinks ==
  ASSUME NEW last \in EditType, NEW edit \in EditType,
         EditKind(last), EditKind(edit), Merges(last, edit),
         NEW a, NEW b, NEW c, Links(last, a, b), Links(edit, b, c)
  PROVE  /\ Merged(last, edit) \in EditType
         /\ EditKind(Merged(last, edit))
         /\ Links(Merged(last, edit), a, c)
<1>1. last.merge = "mergeable" /\ edit.merge = "mergeable"
  BY DEF Merges
<1>p. Places(last, a, b) /\ Places(edit, b, c)
  BY <1>1, PlaceOfEdit
<1> DEFINE o1 == last.old_text
           n1 == last.new_text
           o2 == edit.old_text
           n2 == edit.new_text
           e == Merged(last, edit)
<1>t. o1 \in Text /\ n1 \in Text /\ o2 \in Text /\ n2 \in Text
  BY DEF EditType
<1>4. /\ o1 \in Text /\ n1 \in Text /\ o2 \in Text /\ n2 \in Text
      /\ last.type \in Kinds /\ edit.type \in Kinds
      /\ last.old_start \in Nat /\ edit.old_start \in Nat
      /\ last.new_start \in Nat /\ edit.new_start \in Nat
      /\ edit.new_cursor \in Nat
  BY DEF EditType
<1>5. \A x, y \in Text : x \o y \in Text /\ Len(x \o y) = Len(x) + Len(y)
  BY JoinIsText
<1>6. \A x, y \in Text : (x \o y = <<>>) <=> (x = <<>> /\ y = <<>>)
  <2>1. \A x \in Text : Len(x) \in Nat /\ (x = <<>> <=> Len(x) = 0)
    BY JoinIsText
  <2> QED
    BY <1>5, <2>1
<1>7. CASE last.type = "delete" /\ edit.backward
  <2>1. /\ edit.type = "delete" /\ last.backward
        /\ last.old_start = edit.old_start + Len(o2)
    BY <1>7 DEF Merges, OldEnd
  <2>2. e = [last EXCEPT !.old_start = edit.old_start, !.old_text = o2 \o o1,
                         !.new_cursor = edit.new_cursor]
    BY <1>7, <2>1 DEF Merged
  <2>3. n1 = <<>> /\ n2 = <<>>
    BY <1>1, <1>7, <2>1 DEF EditKind
  <2>4. e \in EditType
    <3>1. o2 \o o1 \in Text
      BY <1>4, JoinIsText
    <3>2. QED
      BY <1>4, <2>2, <3>1 DEF EditType
  <2>5. /\ e.merge = "mergeable" /\ e.type = "delete" /\ e.new_text = <<>>
        /\ e.old_text = o2 \o o1 /\ e.old_start = edit.old_start
    BY <1>1, <1>7, <2>2, <2>3 DEF EditType
  <2>6. EditKind(e)
    <3>1. o1 # <<>>
      BY <1>1, <1>7 DEF EditKind
    <3>2. o2 \o o1 # <<>>
      BY <1>4, <1>6, <3>1
    <3>3. QED
      BY <2>5, <3>2 DEF EditKind
  <2>7. Links(e, a, c)
    BY <1>p, <2>1, <2>3, <2>5, GrowsBackward
  <2>8. QED
    BY <2>4, <2>6, <2>7
<1>8. CASE last.type = "delete" /\ ~edit.backward
  <2>1. /\ edit.type = "delete" /\ ~last.backward
        /\ last.old_start = edit.old_start
    BY <1>8 DEF Merges
  <2>2. e = [last EXCEPT !.old_text = o1 \o o2, !.new_text = n1 \o n2]
    BY <1>8, <2>1 DEF Merged, EditType
  <2>3. n1 = <<>> /\ n2 = <<>>
    BY <1>1, <1>8, <2>1 DEF EditKind
  <2>4. e \in EditType
    <3>1. o1 \o o2 \in Text /\ n1 \o n2 \in Text
      BY <1>4, JoinIsText
    <3>2. QED
      BY <1>4, <2>2, <3>1 DEF EditType
  <2>5. /\ e.merge = "mergeable" /\ e.type = "delete" /\ e.new_text = n1 \o n2
        /\ e.old_text = o1 \o o2 /\ e.old_start = last.old_start
    BY <1>1, <1>8, <2>2 DEF EditType
  <2>6. EditKind(e)
    <3>1. o1 # <<>>
      BY <1>1, <1>8 DEF EditKind
    <3>2. o1 \o o2 # <<>> /\ n1 \o n2 = <<>>
      BY <1>4, <1>6, <2>3, <3>1
    <3>3. QED
      BY <2>5, <3>2 DEF EditKind
  <2>7. n1 \o n2 = <<>> /\ last.old_start + Len(n1) = edit.old_start
    <3>1. Len(n1) = 0
      BY <2>3, JoinIsText
    <3>2. QED
      BY <1>4, <1>6, <2>1, <2>3, <3>1
  <2>8. Links(e, a, c)
    BY <1>p, <2>5, <2>7, GrowsForward
  <2>9. QED
    BY <2>4, <2>6, <2>8
<1>9. CASE last.type # "delete"
  <2>1. edit.type # "delete" /\ last.old_start + Len(n1) = edit.old_start
    <3>1. last.old_start = last.new_start /\ (edit.type # "delete" => edit.old_start = edit.new_start)
      BY <1>1, <1>9 DEF EditKind
    <3>2. QED
      BY <1>9, <3>1 DEF Merges, NewEnd
  <2>2. e = [last EXCEPT !.old_text = o1 \o o2, !.new_text = n1 \o n2,
                         !.new_cursor = edit.new_cursor]
    BY <1>9 DEF Merged, EditType
  <2>3. e \in EditType
    <3>1. o1 \o o2 \in Text /\ n1 \o n2 \in Text
      BY <1>4, JoinIsText
    <3>2. QED
      BY <1>4, <2>2, <3>1 DEF EditType
  <2>4. /\ e.merge = "mergeable" /\ e.type = last.type /\ e.new_text = n1 \o n2
        /\ e.old_text = o1 \o o2 /\ e.old_start = last.old_start
        /\ e.new_start = last.new_start
    BY <1>1, <2>2 DEF EditType
  <2>5. EditKind(e)
    <3>1. n1 \o n2 # <<>> /\ last.old_start = last.new_start
      BY <1>1, <1>4, <1>6, <1>9 DEF EditKind
    <3>2. CASE last.type = "insert"
      <4>1. edit.type = "insert"
        BY <3>2 DEF Merges
      <4>2. o1 = <<>> /\ o2 = <<>>
        BY <1>1, <3>2, <4>1 DEF EditKind
      <4>3. o1 \o o2 = <<>>
        BY <1>4, <1>6, <4>2
      <4>4. QED
        BY <2>4, <3>1, <3>2, <4>3 DEF EditKind
    <3>3. CASE last.type = "replace"
      <4>1. o1 # <<>>
        BY <1>1, <3>3 DEF EditKind
      <4>2. o1 \o o2 # <<>>
        BY <1>4, <1>6, <4>1
      <4>3. QED
        BY <2>4, <3>1, <3>3, <4>2 DEF EditKind
    <3>4. QED
      BY <1>4, <1>9, <3>2, <3>3 DEF Kinds
  <2>6. Links(e, a, c)
    <3>1. last.old_start = last.new_start
      BY <1>1, <1>9 DEF EditKind
    <3>2. QED
      BY <1>p, <2>1, <2>4, <3>1, GrowsForward
  <2>7. QED
    BY <2>3, <2>5, <2>6
<1>10. QED
  BY <1>7, <1>8, <1>9

\* The whole of a text is replaced by the whole of another.
LEMMA WholeLinks ==
  ASSUME NEW e, NEW a \in Text, NEW b \in Text,
         e.old_text = a, e.old_start = 0, e.new_text = b, e.new_start = 0
  PROVE  Links(e, a, b)
<1>1. <<>> \in Text /\ Len(<<>>) = 0
  BY JoinIsText
<1>2. Links(e, (<<>> \o e.old_text) \o <<>>, (<<>> \o e.new_text) \o <<>>)
  BY <1>1, LinksBy
<1>3. \A x \in Text : (<<>> \o x) \o <<>> = x
  BY JoinIsText
<1>4. QED
  BY <1>2, <1>3

\* A replacement that takes the place of the last edit goes back to what was
\* before that one.
LEMMA MergedReplaceLinks ==
  ASSUME NEW last \in EditType, NEW edit \in EditType,
         NEW a, NEW b, NEW c \in Text, Links(last, a, b),
         edit.old_text = b, edit.old_start = 0, edit.new_text = c, edit.new_start = 0
  PROVE  /\ MergedReplace(last, edit) \in EditType
         /\ EditKind(MergedReplace(last, edit))
         /\ Links(MergedReplace(last, edit), a, c)
<1> DEFINE e == MergedReplace(last, edit)
<1>1. a \in Text /\ b \in Text /\ Undone(last, b) = a
  BY LinkedEdit
<1>2. e = [last EXCEPT !.old_text = a, !.old_start = 0, !.backward = FALSE,
                       !.new_text = c, !.new_start = 0, !.merge = "not"]
  BY <1>1 DEF MergedReplace
<1>3. e \in EditType
  BY <1>1, <1>2 DEF EditType, MergeTypes
<1>4. /\ e.old_text = a /\ e.old_start = 0 /\ e.new_text = c /\ e.new_start = 0
      /\ e.merge = "not"
  BY <1>2 DEF EditType
<1>5. EditKind(e)
  BY <1>4 DEF EditKind
<1>6. Links(e, a, c)
  BY <1>1, <1>4, WholeLinks
<1>7. QED
  BY <1>3, <1>5, <1>6

-----------------------------------------------------------------------------
(* The invariant.                                                          *)

RangeType == [start : Nat, end : Nat]

ModelType ==
  [text : Text, selection : RangeType, composition : RangeType,
   edits : Seq(EditType), current : Nat]

Within(range, length) == range.start <= length /\ range.end <= length

Good(m) ==
  /\ m \in ModelType
  /\ Within(m.selection, Len(m.text)) /\ Within(m.composition, Len(m.text))
  /\ m.composition.start <= m.composition.end
  /\ m.current <= Len(m.edits)
  /\ \A i \in 1 .. Len(m.edits) : EditKind(m.edits[i])

\* Each edit links the text before it to the one after it, and the field shows
\* the text that current is at.
History(m, texts) ==
  /\ texts \in Seq(Text)
  /\ Len(texts) = Len(m.edits) + 1
  /\ texts[m.current + 1] = OwnText(m)
  /\ \A i \in 1 .. Len(m.edits) : Links(m.edits[i], texts[i], texts[i + 1])

\* A drop that threw left an edit that links nothing, and is the last call.
HInv ==
  /\ Good(model)
  /\ thrown \/ \E texts : History(model, texts)
  /\ calls \in Nat /\ thrown \in BOOLEAN

LEMMA HistoryLinks ==
  ASSUME NEW m, Good(m), NEW texts, History(m, texts),
         NEW i \in 1 .. Len(m.edits)
  PROVE  /\ m.edits[i] \in EditType /\ EditKind(m.edits[i])
         /\ Redone(m.edits[i], texts[i]) = texts[i + 1]
         /\ Undone(m.edits[i], texts[i + 1]) = texts[i]
         /\ Finds(texts[i], m.edits[i].old_start, m.edits[i].old_text)
         /\ Finds(texts[i + 1], m.edits[i].new_start, m.edits[i].new_text)
<1>1. m.edits \in Seq(EditType) /\ EditKind(m.edits[i])
  BY DEF Good, ModelType
<1>2. m.edits[i] \in EditType
  BY <1>1, ElementOfSeq
<1>3. Links(m.edits[i], texts[i], texts[i + 1])
  BY DEF History
<1>4. QED
  BY <1>1, <1>2, <1>3, LinkedEdit

\* Undoing and redoing goes through the texts that the edits link.
LEMMA HistoryIsTextsOf ==
  ASSUME NEW m, Good(m), NEW texts, History(m, texts)
  PROVE  TextsOf(m) = texts
<1> DEFINE c == m.current
           n == Len(m.edits)
           B(f) == f = [k \in 0 .. m.current |->
                          IF k = m.current THEN OwnText(m) ELSE Undone(m.edits[k + 1], f[k + 1])]
           F(f) == f = [k \in m.current .. Len(m.edits) |->
                          IF k = m.current THEN OwnText(m) ELSE Redone(m.edits[k], f[k - 1])]
           back == CHOOSE f : B(f)
           forth == CHOOSE f : F(f)
           t == [k \in 0 .. c |-> texts[k + 1]]
           u == [k \in c .. n |-> texts[k + 1]]
<1>1. TextsOf(m) = [k \in 1 .. Len(m.edits) + 1 |->
                      IF k <= m.current THEN back[k - 1] ELSE forth[k - 1]]
  BY DEF TextsOf
<1>2. c \in Nat /\ n \in Nat /\ c <= n
  <2>1. m.edits \in Seq(EditType) /\ m.current \in Nat
    BY DEF Good, ModelType
  <2>2. Len(m.edits) \in Nat
    BY <2>1, LenProperties
  <2>3. QED
    BY <2>1, <2>2 DEF Good
<1>3. texts \in Seq(Text) /\ Len(texts) = n + 1 /\ texts[c + 1] = OwnText(m)
  BY DEF History
<1>4. \A i \in 1 .. n : /\ Redone(m.edits[i], texts[i]) = texts[i + 1]
                        /\ Undone(m.edits[i], texts[i + 1]) = texts[i]
  BY HistoryLinks
<1>5. B(t)
  <2>1. ASSUME NEW k \in 0 .. c, k # c
        PROVE  texts[k + 1] = Undone(m.edits[k + 1], t[k + 1])
    <3>1. k + 1 \in 0 .. c /\ k + 1 \in 1 .. n
      BY <1>2, <2>1
    <3>2. t[k + 1] = texts[k + 1 + 1]
      BY <3>1
    <3>3. QED
      BY <1>4, <3>1, <3>2
  <2>2. ASSUME NEW k \in 0 .. c
        PROVE  t[k] = IF k = c THEN OwnText(m) ELSE Undone(m.edits[k + 1], t[k + 1])
    <3>1. t[k] = texts[k + 1]
      OBVIOUS
    <3> HIDE DEF t
    <3>2. QED
      BY <1>3, <2>1, <3>1
  <2>3. t = [k \in 0 .. c |-> t[k]]
    OBVIOUS
  <2> HIDE DEF t
  <2>4. QED
    BY <2>2, <2>3
<1>6. F(u)
  <2>1. ASSUME NEW k \in c .. n, k # c
        PROVE  texts[k + 1] = Redone(m.edits[k], u[k - 1])
    <3>1. k - 1 \in c .. n /\ k \in 1 .. n
      BY <1>2, <2>1
    <3>2. u[k - 1] = texts[k - 1 + 1] /\ k - 1 + 1 = k
      BY <1>2, <3>1
    <3>3. QED
      BY <1>4, <3>1, <3>2
  <2>2. ASSUME NEW k \in c .. n
        PROVE  u[k] = IF k = c THEN OwnText(m) ELSE Redone(m.edits[k], u[k - 1])
    <3>1. u[k] = texts[k + 1]
      OBVIOUS
    <3> HIDE DEF u
    <3>2. QED
      BY <1>3, <2>1, <3>1
  <2>3. u = [k \in c .. n |-> u[k]]
    OBVIOUS
  <2> HIDE DEF u
  <2>4. QED
    BY <2>2, <2>3
<1> HIDE DEF t, u
<1>7. B(back) /\ F(forth)
  <2> HIDE DEF B, F
  <2>1. QED
    BY <1>5, <1>6
<1> HIDE DEF back, forth
<1>8. ASSUME NEW k \in 0 .. c
      PROVE  back[k] = IF k = c THEN OwnText(m) ELSE Undone(m.edits[k + 1], back[k + 1])
  BY <1>7
<1>9. ASSUME NEW k \in c .. n
      PROVE  forth[k] = IF k = c THEN OwnText(m) ELSE Redone(m.edits[k], forth[k - 1])
  BY <1>7
<1> HIDE DEF B, F, c, n
<1>10. \A k \in 0 .. c : back[k] = texts[k + 1]
  <2> DEFINE S == {d \in 0 .. c : back[c - d] # texts[c - d + 1]}
  <2>1. SUFFICES ASSUME NEW k \in 0 .. c, back[k] # texts[k + 1]
                 PROVE  FALSE
    OBVIOUS
  <2>2. c - k \in 0 .. c /\ c - (c - k) = k
    BY <1>2
  <2>3. c - k \in S /\ \A x \in S : x \in Nat
    BY <1>2, <2>1, <2>2
  <2>4. PICK d \in S : \A x \in S : d <= x
    <3> HIDE DEF S
    <3>1. QED
      BY <2>3, LeastElement
  <2>5. d \in 0 .. c /\ back[c - d] # texts[c - d + 1]
    BY <2>4
  <2>6. d # 0
    <3>1. SUFFICES ASSUME d = 0
                   PROVE  FALSE
      OBVIOUS
    <3>2. c - d = c /\ c \in 0 .. c
      BY <1>2, <3>1
    <3>3. back[c] = OwnText(m)
      BY <1>8, <3>2
    <3>4. QED
      BY <1>3, <2>5, <3>2, <3>3
  <2>7. d - 1 \notin S /\ d - 1 \in 0 .. c
    <3>1. d - 1 \in 0 .. c /\ ~(d <= d - 1)
      BY <1>2, <2>5, <2>6
    <3> HIDE DEF S
    <3>2. QED
      BY <2>4, <3>1
  <2>8. c - (d - 1) = c - d + 1 /\ c - d \in 0 .. c /\ c - d # c /\ c - d + 1 \in 1 .. n
    BY <1>2, <2>5, <2>6
  <2>9. back[c - d + 1] = texts[c - d + 1 + 1]
    BY <2>7, <2>8
  <2>10. back[c - d] = Undone(m.edits[c - d + 1], back[c - d + 1])
    BY <1>8, <2>8
  <2>11. back[c - d] = texts[c - d + 1]
    BY <1>4, <2>8, <2>9, <2>10
  <2>12. QED
    BY <2>5, <2>11
<1>11. \A k \in c .. n : forth[k] = texts[k + 1]
  <2> DEFINE S == {k \in c .. n : forth[k] # texts[k + 1]}
  <2>1. SUFFICES ASSUME NEW j \in c .. n, forth[j] # texts[j + 1]
                 PROVE  FALSE
    OBVIOUS
  <2>2. j \in S /\ \A x \in S : x \in Nat
    BY <1>2, <2>1
  <2>3. PICK k \in S : \A x \in S : k <= x
    <3> HIDE DEF S
    <3>1. QED
      BY <2>2, LeastElement
  <2>4. k \in c .. n /\ forth[k] # texts[k + 1]
    BY <2>3
  <2>5. k # c
    <3>1. SUFFICES ASSUME k = c
                   PROVE  FALSE
      OBVIOUS
    <3>2. QED
      BY <1>3, <1>9, <2>4, <3>1
  <2>6. k - 1 \notin S /\ k - 1 \in c .. n /\ k \in 1 .. n /\ k - 1 + 1 = k
    <3>1. k - 1 \in c .. n /\ ~(k <= k - 1) /\ k \in 1 .. n /\ k - 1 + 1 = k
      BY <1>2, <2>4, <2>5
    <3> HIDE DEF S
    <3>2. QED
      BY <2>3, <3>1
  <2>7. forth[k - 1] = texts[k]
    BY <2>6
  <2>8. forth[k] = Redone(m.edits[k], forth[k - 1])
    BY <1>9, <2>4, <2>5
  <2>9. forth[k] = texts[k + 1]
    BY <1>4, <2>6, <2>7, <2>8
  <2>10. QED
    BY <2>4, <2>9
<1>12. ASSUME NEW k \in 1 .. n + 1
       PROVE  texts[k] = IF k <= c THEN back[k - 1] ELSE forth[k - 1]
  <2>1. CASE k <= c
    <3>1. k - 1 \in 0 .. c /\ k - 1 + 1 = k
      BY <1>2, <2>1
    <3>2. QED
      BY <1>10, <2>1, <3>1
  <2>2. CASE ~(k <= c)
    <3>1. k - 1 \in c .. n /\ k - 1 + 1 = k
      BY <1>2, <2>2
    <3>2. QED
      BY <1>11, <2>2, <3>1
  <2>3. QED
    BY <2>1, <2>2
<1>13. texts = [k \in 1 .. n + 1 |-> texts[k]]
  BY <1>3, LenProperties
<1>14. TextsOf(m) = [k \in 1 .. n + 1 |-> IF k <= c THEN back[k - 1] ELSE forth[k - 1]]
  BY <1>1 DEF n, c
<1>15. QED
  BY <1>12, <1>13, <1>14

-----------------------------------------------------------------------------
(* Ranges, the cursor and the composition.                                 *)

LEMMA Ranges ==
  ASSUME NEW range \in RangeType, NEW n \in Nat, Within(range, n)
  PROVE  /\ GetMin(range) \in Nat /\ Length(range) \in Nat
         /\ GetMin(range) + Length(range) <= n
         /\ IsEmpty(range) <=> Length(range) = 0
         /\ range.start <= range.end =>
              GetMin(range) = range.start /\ Length(range) = range.end - range.start
         /\ IsReversed(range) \in BOOLEAN
<1>1. PICK s \in Nat, e \in Nat : s = range.start /\ e = range.end
  BY DEF RangeType
<1>2. s <= n /\ e <= n
  BY <1>1 DEF Within
<1>3. IsReversed(range) \in BOOLEAN
  BY DEF IsReversed
<1>4. GetMin(range) = IF s <= e THEN s ELSE e
  BY <1>1 DEF GetMin, Least
<1>5. Length(range) = (s + e - GetMin(range)) - GetMin(range)
  BY <1>1 DEF Length, GetMax
<1>6. Length(range) = IF s <= e THEN e - s ELSE s - e
  BY <1>4, <1>5
<1>7. CASE s <= e
  BY <1>1, <1>2, <1>3, <1>4, <1>6, <1>7 DEF IsEmpty
<1>8. CASE ~(s <= e)
  <2>1. GetMin(range) = e /\ Length(range) = s - e
    BY <1>4, <1>6, <1>8
  <2>2. GetMin(range) \in Nat /\ Length(range) \in Nat
        /\ GetMin(range) + Length(range) <= n /\ Length(range) # 0 /\ s # e
    BY <1>2, <1>8, <2>1
  <2>3. QED
    BY <1>1, <1>3, <1>8, <2>2 DEF IsEmpty
<1>9. QED
  BY <1>7, <1>8

LEMMA LeastIs ==
  ASSUME NEW a \in Nat, NEW b \in Nat
  PROVE  Least(a, b) \in Nat /\ Least(a, b) <= a /\ Least(a, b) <= b
         /\ (a <= b => Least(a, b) = a)
BY DEF Least

LEMMA SelectRangeIs ==
  ASSUME NEW m \in ModelType, NEW start \in Nat, NEW end \in Nat
  PROVE  LET n == SelectRange(m, start, end) IN
         /\ n \in ModelType
         /\ n.text = m.text /\ n.composition = m.composition
         /\ n.edits = m.edits /\ n.current = m.current
         /\ n.selection = [start |-> Least(start, Len(m.text)), end |-> Least(end, Len(m.text))]
         /\ Within(n.selection, Len(m.text))
<1>1. m.text \in Text /\ Len(m.text) \in Nat
  BY JoinIsText DEF ModelType
<1>2. /\ Least(start, Len(m.text)) \in Nat /\ Least(start, Len(m.text)) <= Len(m.text)
      /\ Least(end, Len(m.text)) \in Nat /\ Least(end, Len(m.text)) <= Len(m.text)
  BY <1>1, LeastIs
<1>3. QED
  BY <1>2 DEF SelectRange, ModelType, RangeType, Within

LEMMA NoComposition ==
  /\ None \in RangeType /\ IsEmpty(None)
  /\ \A n \in Nat : Within(None, n)
  /\ None.start <= None.end
BY DEF None, RangeType, IsEmpty, Within

LEMMA ModifyTextIs ==
  ASSUME NEW m \in ModelType, NEW text \in Text, NEW cursor \in Nat
  PROVE  LET n == ModifyText(m, text, cursor) IN
         /\ n \in ModelType
         /\ n.text = text /\ n.composition = None
         /\ n.edits = m.edits /\ n.current = m.current
         /\ Within(n.selection, Len(text)) /\ Within(n.composition, Len(text))
         /\ ~HasComposition(n) /\ OwnText(n) = text
<1> DEFINE k == [m EXCEPT !.text = text, !.composition = None]
           n == SelectRange(k, cursor, cursor)
<1>1. /\ k \in ModelType /\ k.text = text /\ k.composition = None
      /\ k.edits = m.edits /\ k.current = m.current
  BY NoComposition DEF ModelType
<1>2. ModifyText(m, text, cursor) = n
  BY DEF ModifyText, SetCursorPosition
<1> HIDE DEF k
<1>3. /\ n \in ModelType
      /\ n.text = text /\ n.composition = None
      /\ n.edits = m.edits /\ n.current = m.current
      /\ Within(n.selection, Len(text))
  BY <1>1, SelectRangeIs
<1>4. Len(text) \in Nat
  BY JoinIsText
<1> HIDE DEF n
<1>5. ~HasComposition(n) /\ OwnText(n) = text
  BY <1>3, NoComposition DEF HasComposition, OwnText, CancelComposition
<1>6. QED
  BY <1>2, <1>3, <1>4, <1>5, NoComposition

LEMMA GoodFacts ==
  ASSUME NEW m, Good(m)
  PROVE  /\ m \in ModelType /\ m.text \in Text /\ Len(m.text) \in Nat
         /\ m.selection \in RangeType /\ m.composition \in RangeType
         /\ m.selection.end \in 0 .. Len(m.text) /\ m.selection.start \in 0 .. Len(m.text)
         /\ m.edits \in Seq(EditType) /\ Len(m.edits) \in Nat
         /\ m.current \in Nat /\ m.current <= Len(m.edits)
<1>1. /\ m \in ModelType /\ m.text \in Text /\ m.edits \in Seq(EditType)
      /\ m.selection \in RangeType /\ m.composition \in RangeType
      /\ m.current \in Nat /\ m.current <= Len(m.edits)
  BY DEF Good, ModelType
<1>2. Len(m.text) \in Nat /\ Len(m.edits) \in Nat
  BY <1>1, JoinIsText, LenProperties
<1>3. m.selection.end \in 0 .. Len(m.text) /\ m.selection.start \in 0 .. Len(m.text)
  BY <1>1, <1>2 DEF Good, RangeType, Within
<1>4. QED
  BY <1>1, <1>2, <1>3

\* The same history shows the same text.
LEMMA SameHistory ==
  ASSUME NEW m, NEW n, n.edits = m.edits, n.current = m.current, OwnText(n) = OwnText(m),
         NEW texts, History(m, texts)
  PROVE  History(n, texts)
BY DEF History

LEMMA OwnTextIs ==
  ASSUME NEW m \in ModelType
  PROVE  OwnText(m) = IF HasComposition(m)
                      THEN Erase(m.text, GetMin(m.composition), Length(m.composition))
                      ELSE m.text
<1>1. CASE ~HasComposition(m)
  BY <1>1 DEF OwnText, CancelComposition
<1>2. CASE HasComposition(m)
  BY <1>2 DEF OwnText, CancelComposition, SetCursorPosition, SelectRange, ModelType
<1>3. QED
  BY <1>1, <1>2

LEMMA SelectRangeKeeps ==
  ASSUME NEW m, Good(m), NEW start \in Nat, NEW end \in Nat
  PROVE  LET n == SelectRange(m, start, end) IN
         /\ Good(n)
         /\ n.text = m.text /\ n.composition = m.composition
         /\ n.edits = m.edits /\ n.current = m.current
         /\ n.selection = [start |-> Least(start, Len(m.text)), end |-> Least(end, Len(m.text))]
         /\ HasComposition(n) <=> HasComposition(m)
         /\ OwnText(n) = OwnText(m)
<1> DEFINE n == SelectRange(m, start, end)
<1>1. /\ n \in ModelType
      /\ n.text = m.text /\ n.composition = m.composition
      /\ n.edits = m.edits /\ n.current = m.current
      /\ n.selection = [start |-> Least(start, Len(m.text)), end |-> Least(end, Len(m.text))]
      /\ Within(n.selection, Len(m.text))
  <2>1. m \in ModelType
    BY DEF Good
  <2>2. QED
    BY <2>1, SelectRangeIs
<1> HIDE DEF n
<1>2. Good(n)
  BY <1>1 DEF Good
<1>3. HasComposition(n) <=> HasComposition(m)
  BY <1>1 DEF HasComposition
<1>4. Good(m) /\ Good(n) => OwnText(n) = OwnText(m)
  BY <1>1, <1>3, OwnTextIs DEF Good
<1>5. QED
  BY <1>1, <1>2, <1>3, <1>4 DEF n

\* Cancelling a composition leaves the text that the history knows.
LEMMA CancelKeeps ==
  ASSUME NEW m, Good(m)
  PROVE  LET n == CancelComposition(m) IN
         /\ Good(n) /\ ~HasComposition(n)
         /\ n.edits = m.edits /\ n.current = m.current
         /\ n.text = OwnText(m) /\ OwnText(n) = OwnText(m)
         /\ ~HasComposition(m) => n = m
<1> DEFINE from == GetMin(m.composition)
           length == Length(m.composition)
           text == Erase(m.text, from, length)
           k == ModifyText(m, text, m.composition.start)
<1>1. CASE ~HasComposition(m)
  BY <1>1 DEF CancelComposition, OwnText
<1>2. CASE HasComposition(m)
  <2>1. from \in Nat /\ length \in Nat /\ from + length <= Len(m.text)
    BY GoodFacts, Ranges DEF Good
  <2>2. text \in Text
    BY <2>1, GoodFacts, CutOutSubstr
  <2>3. m.composition.start \in Nat /\ m \in ModelType
    BY GoodFacts DEF RangeType
  <2>4. CancelComposition(m) = k
    BY <1>2 DEF CancelComposition, ModifyText
  <2> HIDE DEF text
  <2>5. /\ k \in ModelType
        /\ k.text = text /\ k.composition = None
        /\ k.edits = m.edits /\ k.current = m.current
        /\ Within(k.selection, Len(text)) /\ Within(k.composition, Len(text))
        /\ ~HasComposition(k) /\ OwnText(k) = text
    BY <2>2, <2>3, ModifyTextIs
  <2> HIDE DEF k
  <2>6. Good(k)
    BY <2>5, NoComposition DEF Good
  <2>7. OwnText(m) = text
    BY <2>4, <2>5 DEF OwnText
  <2>8. QED
    BY <1>2, <2>4, <2>5, <2>6, <2>7
<1>3. QED
  BY <1>1, <1>2

-----------------------------------------------------------------------------
(* An edit is recorded.                                                    *)

EditList(edits) ==
  edits \in Seq(EditType) /\ \A i \in 1 .. Len(edits) : EditKind(edits[i])

Chain(edits, texts) ==
  /\ texts \in Seq(Text)
  /\ Len(texts) = Len(edits) + 1
  /\ \A i \in 1 .. Len(edits) : Links(edits[i], texts[i], texts[i + 1])

\* The first n texts are the same.
Agree(texts, ts, n) == \A i \in 1 .. n : ts[i] = texts[i]

LEMMA FirstPart ==
  ASSUME NEW S, NEW seq \in Seq(S), NEW n \in 0 .. Len(seq)
  PROVE  /\ SubSeq(seq, 1, n) \in Seq(S) /\ Len(SubSeq(seq, 1, n)) = n
         /\ \A i \in 1 .. n : SubSeq(seq, 1, n)[i] = seq[i]
<1>1. Len(seq) \in Nat
  BY LenProperties
<1>2. \A i \in 1 .. n : seq[i] \in S
  <2>1. \A i \in 1 .. n : i \in 1 .. Len(seq)
    BY <1>1
  <2>2. QED
    BY <2>1, ElementOfSeq
<1>3. /\ SubSeq(seq, 1, n) \in Seq(S)
      /\ Len(SubSeq(seq, 1, n)) = IF 1 <= n THEN n - 1 + 1 ELSE 0
      /\ \A i \in 1 .. n - 1 + 1 : SubSeq(seq, 1, n)[i] = seq[1 + i - 1]
  BY <1>2, SubSeqProperties
<1>4. QED
  BY <1>1, <1>3

\* An edit follows the first c edits.
LEMMA Extended ==
  ASSUME NEW edits, EditList(edits), NEW texts, Chain(edits, texts),
         NEW c \in 0 .. Len(edits),
         NEW e \in EditType, EditKind(e), NEW b, Links(e, texts[c + 1], b)
  PROVE  LET es == Append(SubSeq(edits, 1, c), e)
             ts == Append(SubSeq(texts, 1, c + 1), b)
         IN /\ EditList(es) /\ Len(es) = c + 1
            /\ Chain(es, ts) /\ ts[c + 2] = b
            /\ Agree(texts, ts, c + 1)
<1> DEFINE done == SubSeq(edits, 1, c)
           past == SubSeq(texts, 1, c + 1)
           es == Append(done, e)
           ts == Append(past, b)
<1>1. edits \in Seq(EditType) /\ texts \in Seq(Text) /\ b \in Text
  BY LinkedEdit DEF EditList, Chain
<1>2. Len(edits) \in Nat /\ Len(texts) = Len(edits) + 1
  BY <1>1, LenProperties DEF Chain
<1>3. /\ done \in Seq(EditType) /\ Len(done) = c
      /\ \A i \in 1 .. c : done[i] = edits[i]
  BY <1>1, FirstPart
<1>4. /\ past \in Seq(Text) /\ Len(past) = c + 1
      /\ \A i \in 1 .. c + 1 : past[i] = texts[i]
  <2>1. c + 1 \in 0 .. Len(texts)
    BY <1>2
  <2>2. QED
    BY <1>1, <2>1, FirstPart
<1> HIDE DEF done, past
<1>5. /\ es \in Seq(EditType) /\ Len(es) = c + 1 /\ es[c + 1] = e
      /\ \A i \in 1 .. c : es[i] = edits[i]
  BY <1>3, AppendProperties
<1>6. /\ ts \in Seq(Text) /\ Len(ts) = c + 2 /\ ts[c + 2] = b
      /\ \A i \in 1 .. c + 1 : ts[i] = texts[i]
  <2>1. /\ ts \in Seq(Text) /\ Len(ts) = Len(past) + 1 /\ ts[Len(past) + 1] = b
        /\ \A i \in 1 .. Len(past) : ts[i] = past[i]
    BY <1>1, <1>4, AppendProperties
  <2>2. Len(past) + 1 = c + 2
    BY <1>4
  <2>3. QED
    BY <1>4, <2>1, <2>2
<1> HIDE DEF es, ts
<1>7. \A i \in 1 .. c : i \in 1 .. Len(edits) /\ i \in 1 .. c + 1 /\ i + 1 \in 1 .. c + 1
  BY <1>2
<1>8. ASSUME NEW i \in 1 .. c + 1
      PROVE  EditKind(es[i]) /\ Links(es[i], ts[i], ts[i + 1])
  <2>1. CASE i \in 1 .. c
    <3>1. EditKind(edits[i]) /\ Links(edits[i], texts[i], texts[i + 1])
      BY <1>7, <2>1 DEF EditList, Chain
    <3>2. es[i] = edits[i] /\ ts[i] = texts[i] /\ ts[i + 1] = texts[i + 1]
      BY <1>5, <1>6, <1>7, <2>1
    <3>3. QED
      BY <3>1, <3>2
  <2>2. CASE i = c + 1
    <3>1. i + 1 = c + 2 /\ c + 1 \in 1 .. c + 1
      BY <2>2
    <3>2. es[i] = e /\ ts[i] = texts[c + 1] /\ ts[i + 1] = b
      BY <1>5, <1>6, <2>2, <3>1
    <3>3. QED
      BY <3>2
  <2>3. i \in 1 .. c \/ i = c + 1
    OBVIOUS
  <2>4. QED
    BY <2>1, <2>2, <2>3
<1>9. EditList(es)
  BY <1>5, <1>8 DEF EditList
<1>10. Chain(es, ts)
  <2>1. Len(ts) = Len(es) + 1
    BY <1>5, <1>6
  <2>2. QED
    BY <1>5, <1>6, <1>8, <2>1 DEF Chain
<1>11. Agree(texts, ts, c + 1)
  BY <1>6 DEF Agree
<1>12. QED
  BY <1>5, <1>6, <1>9, <1>10, <1>11 DEF es, ts, done, past

\* An edit that takes the place of the last of the first c.
LEMMA LastReplaced ==
  ASSUME NEW edits \in Seq(EditType), NEW c \in 1 .. Len(edits), NEW e \in EditType
  PROVE  [SubSeq(edits, 1, c) EXCEPT ![c] = e] = Append(SubSeq(edits, 1, c - 1), e)
<1> DEFINE done == SubSeq(edits, 1, c)
           before == SubSeq(edits, 1, c - 1)
<1>0. Len(edits) \in Nat
  BY LenProperties
<1>1. c \in 0 .. Len(edits) /\ c - 1 \in 0 .. Len(edits)
  BY <1>0
<1>2. /\ done \in Seq(EditType) /\ Len(done) = c
      /\ \A i \in 1 .. c : done[i] = edits[i]
  BY <1>1, FirstPart
<1>3. /\ before \in Seq(EditType) /\ Len(before) = c - 1
      /\ \A i \in 1 .. c - 1 : before[i] = edits[i]
  BY <1>1, FirstPart
<1> HIDE DEF done, before
<1> DEFINE f == [done EXCEPT ![c] = e]
           g == Append(before, e)
<1>4. c \in 1 .. Len(done)
  BY <1>0, <1>2
<1>5. f \in Seq(EditType) /\ Len(f) = c /\ \A i \in 1 .. c : f[i] = IF i = c THEN e ELSE done[i]
  BY <1>2, <1>4, ExceptSeq
<1>6. /\ g \in Seq(EditType) /\ Len(g) = Len(before) + 1 /\ g[Len(before) + 1] = e
      /\ \A i \in 1 .. Len(before) : g[i] = before[i]
  BY <1>3, AppendProperties
<1> HIDE DEF f, g
<1>7. Len(g) = c /\ g[c] = e /\ \A i \in 1 .. c - 1 : g[i] = edits[i]
  <2>1. Len(before) + 1 = c
    BY <1>0, <1>3
  <2>2. QED
    BY <1>3, <1>6, <2>1
<1>8. \A i \in 1 .. c : f[i] = g[i]
  <2>1. \A i \in 1 .. c : i = c \/ i \in 1 .. c - 1
    BY <1>0
  <2>2. QED
    BY <1>2, <1>5, <1>7, <2>1
<1>9. f = g
  BY <1>5, <1>6, <1>7, <1>8, SeqEqual
<1>10. QED
  BY <1>9 DEF f, g, done, before

\* ts: the texts when the edit is recorded behind the c edits done, as a new
\* one or in the place of the last.
Recorded(c, texts, d, ts) ==
  \/ d = c + 1 /\ Agree(texts, ts, c + 1)
  \/ c > 0 /\ d = c /\ Agree(texts, ts, c)

\* What AddOrMergeEditHistory asks of the edit it is given, when b is the text
\* that the edit makes of a.
Recordable(edit, a, b) ==
  /\ edit \in EditType /\ EditKind(edit) /\ Links(edit, a, b)
  /\ edit.merge = "with_previous" =>
       /\ edit.old_text = a /\ edit.old_start = 0
       /\ edit.new_text = b /\ edit.new_start = 0

LEMMA AddOrMergeRecords ==
  ASSUME NEW m, Good(m), NEW texts, History(m, texts),
         NEW edit, NEW b, Recordable(edit, OwnText(m), b)
  PROVE  LET n == AddOrMerge(m, edit) IN
         /\ n \in ModelType /\ EditList(n.edits)
         /\ n.text = m.text /\ n.selection = m.selection /\ n.composition = m.composition
         /\ n.current = Len(n.edits)
         /\ edit.merge = "not" => n.current = m.current + 1
         /\ \E ts : /\ Chain(n.edits, ts) /\ ts[n.current + 1] = b
                    /\ Recorded(m.current, texts, n.current, ts)
<1> DEFINE c == m.current
           edits == m.edits
           done == SubSeq(edits, 1, c)
           last == edits[c]
           n == AddOrMerge(m, edit)
<1>1. /\ m \in ModelType /\ edits \in Seq(EditType) /\ Len(edits) \in Nat
      /\ c \in Nat /\ c <= Len(edits) /\ c \in 0 .. Len(edits)
  BY GoodFacts
<1>2. EditList(edits) /\ Chain(edits, texts)
  BY <1>1 DEF Good, EditList, History, Chain
<1>3. /\ edit \in EditType /\ EditKind(edit) /\ Links(edit, texts[c + 1], b)
      /\ texts[c + 1] = OwnText(m)
  BY DEF Recordable, History
<1>4. b \in Text
  BY <1>3, LinkedEdit
<1>5. ASSUME NEW e \in EditType, EditKind(e), c > 0, Links(e, texts[c], b),
             n = [m EXCEPT !.edits = [done EXCEPT ![c] = e]], edit.merge # "not"
      PROVE  /\ n \in ModelType /\ EditList(n.edits)
             /\ n.text = m.text /\ n.selection = m.selection /\ n.composition = m.composition
             /\ n.current = Len(n.edits)
             /\ edit.merge = "not" => n.current = m.current + 1
             /\ \E ts : /\ Chain(n.edits, ts) /\ ts[n.current + 1] = b
                        /\ Recorded(m.current, texts, n.current, ts)
  <2> DEFINE es == Append(SubSeq(edits, 1, c - 1), e)
             ts == Append(SubSeq(texts, 1, c - 1 + 1), b)
  <2>1. c \in 1 .. Len(edits) /\ c - 1 \in 0 .. Len(edits) /\ c - 1 + 1 = c /\ c - 1 + 2 = c + 1
    BY <1>1, <1>5
  <2>2. [done EXCEPT ![c] = e] = es
    BY <1>1, <2>1, LastReplaced
  <2>3. Links(e, texts[c - 1 + 1], b)
    BY <1>5, <2>1
  <2>4. /\ EditList(es) /\ Len(es) = c - 1 + 1
        /\ Chain(es, ts) /\ ts[c - 1 + 2] = b
        /\ Agree(texts, ts, c - 1 + 1)
    BY <1>2, <1>5, <2>1, <2>3, Extended
  <2> HIDE DEF es, ts
  <2>5. es \in Seq(EditType) /\ Len(es) = c /\ ts[c + 1] = b /\ Agree(texts, ts, c)
    BY <2>1, <2>4 DEF EditList
  <2>6. n = [m EXCEPT !.edits = es]
    BY <1>5, <2>2
  <2>7. /\ n \in ModelType /\ n.edits = es /\ n.current = c
        /\ n.text = m.text /\ n.selection = m.selection /\ n.composition = m.composition
    BY <1>1, <2>5, <2>6 DEF ModelType
  <2> HIDE DEF n
  <2>8. Recorded(c, texts, c, ts)
    BY <1>5, <2>5 DEF Recorded
  <2>9. QED
    BY <1>5, <2>4, <2>5, <2>7, <2>8
<1>6. CASE c > 0 /\ MergesReplace(last, edit)
  <2>1. edit.merge = "with_previous" /\ n = [m EXCEPT !.edits = [done EXCEPT ![c] = MergedReplace(last, edit)]]
    BY <1>6 DEF MergesReplace, AddOrMerge
  <2>2. c \in 1 .. Len(edits)
    BY <1>1, <1>6
  <2>3. last \in EditType /\ Links(last, texts[c], texts[c + 1])
    BY <1>1, <1>2, <2>2, ElementOfSeq DEF Chain
  <2>4. /\ edit.old_text = texts[c + 1] /\ edit.old_start = 0
        /\ edit.new_text = b /\ edit.new_start = 0
    BY <1>3, <2>1 DEF Recordable
  <2>5. /\ MergedReplace(last, edit) \in EditType
        /\ EditKind(MergedReplace(last, edit))
        /\ Links(MergedReplace(last, edit), texts[c], b)
    <3> HIDE DEF last
    <3>1. QED
      BY <1>3, <1>4, <2>3, <2>4, MergedReplaceLinks
  <2>6. edit.merge # "not"
    BY <2>1
  <2> HIDE DEF last
  <2>7. QED
    BY <1>5, <1>6, <2>1, <2>5, <2>6
<1>7. CASE c > 0 /\ ~MergesReplace(last, edit) /\ Merges(last, edit)
  <2>1. n = [m EXCEPT !.edits = [done EXCEPT ![c] = Merged(last, edit)]]
    BY <1>7 DEF AddOrMerge
  <2>2. c \in 1 .. Len(edits)
    BY <1>1, <1>7
  <2>3. last \in EditType /\ EditKind(last) /\ Links(last, texts[c], texts[c + 1])
    BY <1>1, <1>2, <2>2, ElementOfSeq DEF Chain, EditList
  <2>4. /\ Merged(last, edit) \in EditType
        /\ EditKind(Merged(last, edit))
        /\ Links(Merged(last, edit), texts[c], b)
    <3> HIDE DEF last
    <3>1. QED
      BY <1>3, <1>7, <2>3, MergedLinks
  <2>5. edit.merge # "not"
    BY <1>7 DEF Merges
  <2> HIDE DEF last
  <2>6. QED
    BY <1>5, <1>7, <2>1, <2>4, <2>5
<1>8. CASE ~(c > 0 /\ MergesReplace(last, edit))
           /\ ~(c > 0 /\ ~MergesReplace(last, edit) /\ Merges(last, edit))
  <2> DEFINE es == Append(SubSeq(edits, 1, c), edit)
             ts == Append(SubSeq(texts, 1, c + 1), b)
  <2>1. n = [m EXCEPT !.edits = es, !.current = c + 1]
    BY <1>8 DEF AddOrMerge
  <2>2. /\ EditList(es) /\ Len(es) = c + 1
        /\ Chain(es, ts) /\ ts[c + 2] = b
        /\ Agree(texts, ts, c + 1)
    BY <1>1, <1>2, <1>3, Extended
  <2> HIDE DEF es, ts
  <2>3. es \in Seq(EditType)
    BY <2>2 DEF EditList
  <2>4. /\ n \in ModelType /\ n.edits = es /\ n.current = c + 1
        /\ n.text = m.text /\ n.selection = m.selection /\ n.composition = m.composition
    <3>1. c + 1 \in Nat
      BY <1>1
    <3>2. QED
      BY <1>1, <2>1, <2>3, <3>1 DEF ModelType
  <2>5. Recorded(c, texts, c + 1, ts)
    BY <2>2 DEF Recorded
  <2>6. c + 1 + 1 = c + 2
    BY <1>1
  <2>7. QED
    BY <2>2, <2>4, <2>5, <2>6
<1>9. QED
  BY <1>6, <1>7, <1>8

LEMMA OwnTextOfNone ==
  ASSUME NEW m, ~HasComposition(m)
  PROVE  OwnText(m) = m.text
BY DEF OwnText, CancelComposition

\* An edit is recorded and done.
LEMMA ExecuteRecords ==
  ASSUME NEW m, Good(m), ~HasComposition(m), NEW texts, History(m, texts),
         NEW edit, NEW b, Recordable(edit, m.text, b)
  PROVE  LET n == ExecuteAndRecord(m, edit) IN
         /\ Good(n) /\ ~HasComposition(n)
         /\ n.text = b /\ n.current = Len(n.edits)
         /\ edit.merge = "not" => n.current = m.current + 1
         /\ \E ts : History(n, ts) /\ Recorded(m.current, texts, n.current, ts)
<1> DEFINE k == AddOrMerge(m, edit)
           n == ModifyText(k, b, edit.new_cursor)
<1>1. Recordable(edit, OwnText(m), b)
  BY OwnTextOfNone
<1>2. /\ k \in ModelType /\ EditList(k.edits)
      /\ k.current = Len(k.edits)
      /\ edit.merge = "not" => k.current = m.current + 1
      /\ \E ts : /\ Chain(k.edits, ts) /\ ts[k.current + 1] = b
                 /\ Recorded(m.current, texts, k.current, ts)
  BY <1>1, AddOrMergeRecords
<1>3. /\ edit \in EditType /\ Redone(edit, m.text) = b /\ b \in Text
      /\ edit.new_cursor \in Nat
  BY LinkedEdit DEF Recordable, EditType
<1>4. ExecuteAndRecord(m, edit) = n
  BY <1>3 DEF ExecuteAndRecord
<1> HIDE DEF k
<1>5. /\ n \in ModelType
      /\ n.text = b /\ n.composition = None
      /\ n.edits = k.edits /\ n.current = k.current
      /\ Within(n.selection, Len(b)) /\ Within(n.composition, Len(b))
      /\ ~HasComposition(n) /\ OwnText(n) = b
  BY <1>2, <1>3, ModifyTextIs
<1> HIDE DEF n
<1>6. k.current \in Nat /\ k.current <= Len(k.edits)
  BY <1>2 DEF ModelType
<1>7. Good(n)
  BY <1>2, <1>5, <1>6, NoComposition DEF Good, EditList
<1>8. PICK ts : /\ Chain(k.edits, ts) /\ ts[k.current + 1] = b
                /\ Recorded(m.current, texts, k.current, ts)
  BY <1>2
<1>9. History(n, ts)
  BY <1>5, <1>8 DEF History, Chain
<1>10. QED
  BY <1>2, <1>4, <1>5, <1>7, <1>8, <1>9

LEMMA DeleteRecordable ==
  ASSUME NEW m, Good(m), NEW range \in RangeType, Within(range, Len(m.text)),
         NEW merge \in {"not", "mergeable"}, merge = "mergeable" => ~IsEmpty(range)
  PROVE  LET edit == DeleteEdit(merge, Substr(m.text, GetMin(range), Length(range)),
                                GetMin(range), IsReversed(range))
         IN edit.merge = merge /\ \E b : Recordable(edit, m.text, b)
<1> DEFINE from == GetMin(range)
           length == Length(range)
           part == Substr(m.text, from, length)
           rest == Erase(m.text, from, length)
           edit == DeleteEdit(merge, part, from, IsReversed(range))
<1>1. /\ m.text \in Text /\ from \in Nat /\ length \in Nat /\ from + length <= Len(m.text)
      /\ IsEmpty(range) <=> length = 0
      /\ IsReversed(range) \in BOOLEAN
  BY GoodFacts, Ranges
<1>2. /\ part \in Text /\ Len(part) = length /\ rest \in Text
      /\ CutOut(m.text, part, from, rest)
  BY <1>1, CutOutSubstr
<1>3. CutOut(rest, <<>>, from, rest)
  <2>1. <<>> \in Text /\ rest = (rest \o <<>>) \o <<>> /\ rest = rest \o <<>>
    BY <1>2, JoinIsText
  <2>2. QED
    BY <1>2, <2>1 DEF CutOut
<1> HIDE DEF rest, part, from, length
<1>4. /\ edit.type = "delete" /\ edit.merge = merge
      /\ edit.old_text = part /\ edit.old_start = from
      /\ edit.new_text = <<>> /\ edit.new_start = from
  BY DEF DeleteEdit
<1>5. edit \in EditType
  <2>1. from + Len(part) \in Nat /\ <<>> \in Text
    BY <1>1, <1>2, JoinIsText
  <2>2. QED
    BY <1>1, <1>2, <2>1 DEF DeleteEdit, EditType, Kinds, MergeTypes
<1> HIDE DEF edit
<1>6. EditKind(edit)
  <2>1. merge = "mergeable" => part # <<>>
    BY <1>1, <1>2, JoinIsText
  <2>2. QED
    BY <1>4, <2>1 DEF EditKind
<1>7. Links(edit, m.text, rest)
  BY <1>2, <1>3, <1>4 DEF Links
<1>8. Recordable(edit, m.text, rest)
  BY <1>4, <1>5, <1>6, <1>7 DEF Recordable
<1>9. QED
  BY <1>4, <1>8 DEF edit, part, from, length

LEMMA InsertRecordable ==
  ASSUME NEW a \in Text, NEW text \in Text, NEW at \in 0 .. Len(a),
         NEW merge \in {"not", "mergeable"}, merge = "mergeable" => text # <<>>
  PROVE  LET edit == InsertEdit(merge, text, at)
         IN edit.merge = merge /\ Recordable(edit, a, InsertInto(a, at, text))
<1> DEFINE b == InsertInto(a, at, text)
           edit == InsertEdit(merge, text, at)
<1>1. CutOut(b, text, at, a)
  BY CutOutInsert
<1>2. CutOut(a, <<>>, at, a)
  <2>1. <<>> \in Text /\ a = (a \o <<>>) \o <<>> /\ a = a \o <<>>
    BY JoinIsText
  <2>2. QED
    BY <2>1 DEF CutOut
<1> HIDE DEF b
<1>3. /\ edit.type = "insert" /\ edit.merge = merge
      /\ edit.old_text = <<>> /\ edit.old_start = at
      /\ edit.new_text = text /\ edit.new_start = at
  BY DEF InsertEdit
<1>4. edit \in EditType
  <2>1. at \in Nat /\ at + Len(text) \in Nat /\ <<>> \in Text
    BY JoinIsText
  <2>2. QED
    BY <2>1 DEF InsertEdit, EditType, Kinds, MergeTypes
<1> HIDE DEF edit
<1>5. EditKind(edit)
  BY <1>3 DEF EditKind
<1>6. Links(edit, a, b)
  BY <1>1, <1>2, <1>3 DEF Links
<1>7. Recordable(edit, a, b)
  BY <1>3, <1>4, <1>5, <1>6 DEF Recordable
<1>8. QED
  BY <1>3, <1>7 DEF edit, b

LEMMA ReplaceRecordable ==
  ASSUME NEW m, Good(m), NEW text \in Text,
         NEW old_cursor \in Nat, NEW new_cursor \in Nat,
         NEW start \in 0 .. Len(m.text) - Length(m.selection),
         NEW merge \in MergeTypes,
         merge = "mergeable" =>
           text # <<>> /\ HasSelection(m) /\ start = GetMin(m.selection),
         merge = "with_previous" =>
           start = 0 /\ GetMin(m.selection) = 0 /\ Length(m.selection) = Len(m.text)
  PROVE  LET edit == ReplaceEdit(m, merge, old_cursor, new_cursor, text, start)
         IN edit.merge = merge /\ \E b : Recordable(edit, m.text, b)
<1> DEFINE from == GetMin(m.selection)
           length == Length(m.selection)
           part == Substr(m.text, from, length)
           rest == Erase(m.text, from, length)
           b == InsertInto(rest, start, text)
           edit == ReplaceEdit(m, merge, old_cursor, new_cursor, text, start)
<1>1. /\ m.text \in Text /\ Len(m.text) \in Nat
      /\ from \in Nat /\ length \in Nat /\ from + length <= Len(m.text)
      /\ IsEmpty(m.selection) <=> length = 0
      /\ IsReversed(m.selection) \in BOOLEAN
  BY GoodFacts, Ranges DEF Good
<1>2. /\ part \in Text /\ Len(part) = length /\ rest \in Text
      /\ Len(rest) = Len(m.text) - length
      /\ CutOut(m.text, part, from, rest)
  BY <1>1, CutOutSubstr
<1> HIDE DEF rest
<1>3. b \in Text /\ CutOut(b, text, start, rest)
  <2>1. start \in 0 .. Len(rest)
    BY <1>2
  <2>2. QED
    BY <1>2, <2>1, CutOutInsert
<1>w. ASSUME merge = "with_previous"
      PROVE  part = m.text /\ b = text
  <2>1. from = 0 /\ length = Len(m.text) /\ start = 0
    BY <1>w
  <2>2. part = m.text
    <3>1. part = SubSeq(m.text, 1, Len(m.text))
      BY <1>1, <2>1 DEF Substr
    <3>2. QED
      BY <1>1, <3>1, SubSeqFull DEF Text
  <2>3. rest = <<>>
    BY <1>1, <1>2, <2>1, JoinIsText
  <2>4. PICK p \in Text, r \in Text : b = (p \o text) \o r /\ rest = p \o r
    BY <1>3 DEF CutOut
  <2>5. p = <<>> /\ r = <<>>
    <3>1. Len(p) + Len(r) = 0 /\ Len(p) \in Nat /\ Len(r) \in Nat
      BY <2>3, <2>4, JoinIsText
    <3>2. QED
      BY <3>1, JoinIsText
  <2>6. b = text
    BY <2>4, <2>5, JoinIsText
  <2>7. QED
    BY <2>2, <2>6
<1> HIDE DEF part, b, from, length
<1>4. /\ edit.type = "replace" /\ edit.merge = merge
      /\ edit.old_text = part /\ edit.old_start = from
      /\ edit.new_text = text /\ edit.new_start = start
  BY DEF ReplaceEdit, SelectedText, part, from, length
<1>5. edit \in EditType
  <2>1. start \in Nat /\ edit.backward \in BOOLEAN
    BY <1>1, <1>2 DEF ReplaceEdit, from, length
  <2>2. edit = [type |-> "replace", merge |-> merge, backward |-> IsReversed(m.selection),
                old_cursor |-> old_cursor, old_text |-> part, old_start |-> from,
                new_cursor |-> new_cursor, new_text |-> text, new_start |-> start]
    BY DEF ReplaceEdit, SelectedText, part, from, length
  <2>3. QED
    BY <1>1, <1>2, <2>1, <2>2 DEF EditType, Kinds
<1> HIDE DEF edit
<1>6. EditKind(edit)
  <2>1. HasSelection(m) => part # <<>>
    BY <1>1, <1>2, JoinIsText DEF HasSelection
  <2>2. QED
    BY <1>4, <2>1 DEF EditKind, from
<1>7. Links(edit, m.text, b)
  BY <1>2, <1>3, <1>4 DEF Links
<1>8. Recordable(edit, m.text, b)
  BY <1>4, <1>5, <1>6, <1>7, <1>w DEF Recordable, from
<1>9. QED
  BY <1>4, <1>8 DEF edit

-----------------------------------------------------------------------------
(* The methods that record an edit.                                        *)

\* n is what recording an edit makes of m, whose texts are texts.
Done(m, texts, n, merge) ==
  /\ Good(n) /\ ~HasComposition(n)
  /\ n.current = Len(n.edits)
  /\ merge = "not" => n.current = m.current + 1
  /\ \E ts : History(n, ts) /\ Recorded(m.current, texts, n.current, ts)

LEMMA DoneBy ==
  ASSUME NEW m, Good(m), ~HasComposition(m), NEW texts, History(m, texts),
         NEW edit, NEW merge, edit.merge = merge, \E b : Recordable(edit, m.text, b)
  PROVE  Done(m, texts, ExecuteAndRecord(m, edit), merge)
<1>1. PICK b : Recordable(edit, m.text, b)
  OBVIOUS
<1> DEFINE n == ExecuteAndRecord(m, edit)
<1>2. /\ Good(n) /\ ~HasComposition(n)
      /\ n.current = Len(n.edits)
      /\ edit.merge = "not" => n.current = m.current + 1
      /\ \E ts : History(n, ts) /\ Recorded(m.current, texts, n.current, ts)
  BY <1>1, ExecuteRecords
<1>3. QED
  BY <1>2 DEF Done

\* Moving the cursor afterwards changes nothing of it.
LEMMA DoneSelect ==
  ASSUME NEW m, NEW texts, NEW n, NEW merge, Done(m, texts, n, merge),
         NEW start \in Nat, NEW end \in Nat
  PROVE  Done(m, texts, SelectRange(n, start, end), merge)
<1> DEFINE k == SelectRange(n, start, end)
<1>1. Good(n) /\ ~HasComposition(n) /\ n.current = Len(n.edits)
      /\ (merge = "not" => n.current = m.current + 1)
  BY DEF Done
<1>2. /\ Good(k) /\ k.edits = n.edits /\ k.current = n.current
      /\ ~HasComposition(k) /\ OwnText(k) = OwnText(n)
  <2>1. /\ Good(k) /\ k.edits = n.edits /\ k.current = n.current
        /\ HasComposition(k) <=> HasComposition(n)
        /\ OwnText(k) = OwnText(n)
    BY <1>1, SelectRangeKeeps
  <2> HIDE DEF k
  <2>2. QED
    BY <1>1, <2>1
<1>3. PICK ts : History(n, ts) /\ Recorded(m.current, texts, n.current, ts)
  BY DEF Done
<1> HIDE DEF k
<1>4. History(k, ts)
  BY <1>2, <1>3, SameHistory
<1>5. Done(m, texts, k, merge)
  BY <1>1, <1>2, <1>3, <1>4 DEF Done
<1>6. QED
  BY <1>5 DEF k

LEMMA DeleteDone ==
  ASSUME NEW m, Good(m), ~HasComposition(m), NEW texts, History(m, texts),
         NEW range \in RangeType, Within(range, Len(m.text)),
         NEW merge \in {"not", "mergeable"}, merge = "mergeable" => ~IsEmpty(range)
  PROVE  Done(m, texts, ExecuteAndRecordDelete(m, range, merge), merge)
<1> DEFINE edit == DeleteEdit(merge, Substr(m.text, GetMin(range), Length(range)),
                              GetMin(range), IsReversed(range))
<1>1. edit.merge = merge /\ \E b : Recordable(edit, m.text, b)
  BY DeleteRecordable
<1>2. ExecuteAndRecordDelete(m, range, merge) = ExecuteAndRecord(m, edit)
  BY DEF ExecuteAndRecordDelete
<1> HIDE DEF edit
<1>3. QED
  BY <1>1, <1>2, DoneBy

LEMMA InsertDone ==
  ASSUME NEW m, Good(m), ~HasComposition(m), NEW texts, History(m, texts),
         NEW text \in Text,
         NEW merge \in {"not", "mergeable"}, merge = "mergeable" => text # <<>>
  PROVE  Done(m, texts, ExecuteAndRecordInsert(m, text, merge), merge)
<1> DEFINE edit == InsertEdit(merge, text, Cursor(m))
<1>1. m.text \in Text /\ Cursor(m) \in 0 .. Len(m.text)
  BY GoodFacts DEF Cursor
<1>2. edit.merge = merge /\ Recordable(edit, m.text, InsertInto(m.text, Cursor(m), text))
  BY <1>1, InsertRecordable
<1>3. ExecuteAndRecordInsert(m, text, merge) = ExecuteAndRecord(m, edit)
  BY DEF ExecuteAndRecordInsert
<1> HIDE DEF edit
<1>4. \E b : Recordable(edit, m.text, b)
  BY <1>2
<1>5. QED
  BY <1>2, <1>3, <1>4, DoneBy

LEMMA ReplaceDone ==
  ASSUME NEW m, Good(m), ~HasComposition(m), NEW texts, History(m, texts),
         NEW text \in Text,
         NEW old_cursor \in Nat, NEW new_cursor \in Nat,
         NEW start \in 0 .. Len(m.text) - Length(m.selection),
         NEW merge \in MergeTypes,
         merge = "mergeable" =>
           text # <<>> /\ HasSelection(m) /\ start = GetMin(m.selection),
         merge = "with_previous" =>
           start = 0 /\ GetMin(m.selection) = 0 /\ Length(m.selection) = Len(m.text)
  PROVE  Done(m, texts,
              ExecuteAndRecordReplace(m, merge, old_cursor, new_cursor, text, start), merge)
<1> DEFINE edit == ReplaceEdit(m, merge, old_cursor, new_cursor, text, start)
<1>1. edit.merge = merge /\ \E b : Recordable(edit, m.text, b)
  BY ReplaceRecordable
<1>2. ExecuteAndRecordReplace(m, merge, old_cursor, new_cursor, text, start)
        = ExecuteAndRecord(m, edit)
  BY DEF ExecuteAndRecordReplace, ReplaceEdit
<1> HIDE DEF edit
<1>3. QED
  BY <1>1, <1>2, DoneBy

\* The composition becomes an edit.
LEMMA ConfirmDone ==
  ASSUME NEW m, Good(m), NEW texts, History(m, texts)
  PROVE  LET n == ConfirmComposition(m) IN
         /\ Good(n) /\ ~HasComposition(n)
         /\ n.text = m.text
         /\ ~HasComposition(m) => n = m
         /\ HasComposition(m) => Done(m, texts, n, "not")
<1> DEFINE n == ConfirmComposition(m)
<1>1. CASE ~HasComposition(m)
  BY <1>1 DEF ConfirmComposition
<1>2. CASE HasComposition(m)
  <2> DEFINE from == GetMin(m.composition)
             length == Length(m.composition)
             part == Substr(m.text, from, length)
             edit == InsertEdit("not", part, m.composition.start)
             k == AddOrMerge(m, edit)
             s == SetCursorPosition(k, m.composition.end)
  <2>1. /\ m.text \in Text /\ Len(m.text) \in Nat
        /\ from \in Nat /\ length \in Nat /\ from + length <= Len(m.text)
        /\ from = m.composition.start /\ m.composition.end \in Nat
    BY GoodFacts, Ranges DEF Good, RangeType
  <2>2. OwnText(m) = Erase(m.text, from, length)
    BY <1>2, GoodFacts, OwnTextIs
  <2>3. /\ part \in Text /\ OwnText(m) \in Text /\ Len(OwnText(m)) = Len(m.text) - length
        /\ CutOut(m.text, part, from, OwnText(m))
    <3> DEFINE rest == Erase(m.text, from, length)
    <3> HIDE DEF from, length
    <3>1. /\ part \in Text /\ rest \in Text /\ Len(rest) = Len(m.text) - length
          /\ CutOut(m.text, part, from, rest)
      BY <2>1, CutOutSubstr
    <3>2. OwnText(m) = rest
      BY <2>2
    <3>3. QED
      BY <3>1, <3>2
  <2>4. InsertInto(OwnText(m), from, part) = m.text
    BY <2>1, <2>3, CutOutGives
  <2>5. edit.merge = "not" /\ Recordable(edit, OwnText(m), m.text)
    <3> HIDE DEF part, from, length
    <3>1. from \in 0 .. Len(OwnText(m))
      BY <2>1, <2>3
    <3>2. QED
      BY <2>1, <2>3, <2>4, <3>1, InsertRecordable
  <2> HIDE DEF edit
  <2>6. /\ k \in ModelType /\ EditList(k.edits)
        /\ k.text = m.text /\ k.composition = m.composition
        /\ k.current = Len(k.edits)
        /\ k.current = m.current + 1
        /\ \E ts : /\ Chain(k.edits, ts) /\ ts[k.current + 1] = m.text
                   /\ Recorded(m.current, texts, k.current, ts)
    BY <2>5, AddOrMergeRecords
  <2> HIDE DEF k
  <2>7. /\ s \in ModelType
        /\ s.text = m.text /\ s.edits = k.edits /\ s.current = k.current
        /\ Within(s.selection, Len(m.text))
    BY <2>1, <2>6, SelectRangeIs DEF SetCursorPosition
  <2>8. n = [s EXCEPT !.composition = None]
    BY <1>2 DEF ConfirmComposition, k, edit
  <2> HIDE DEF s, n
  <2>9. /\ n \in ModelType
        /\ n.text = m.text /\ n.edits = k.edits /\ n.current = k.current
        /\ n.composition = None /\ n.selection = s.selection
    BY <2>7, <2>8, NoComposition DEF ModelType
  <2>10. ~HasComposition(n)
    BY <2>9, NoComposition DEF HasComposition
  <2>11. k.current <= Len(k.edits)
    BY <2>6 DEF ModelType
  <2>12. Good(n)
    BY <2>1, <2>6, <2>7, <2>9, <2>11, NoComposition DEF Good, EditList
  <2>13. PICK ts : /\ Chain(k.edits, ts) /\ ts[k.current + 1] = m.text
                   /\ Recorded(m.current, texts, k.current, ts)
    BY <2>6
  <2>14. History(n, ts)
    BY <2>9, <2>10, <2>13, OwnTextOfNone DEF History, Chain
  <2>15. Done(m, texts, n, "not")
    BY <2>6, <2>9, <2>10, <2>12, <2>13, <2>14 DEF Done
  <2>16. QED
    BY <1>2, <2>9, <2>10, <2>12, <2>15 DEF n
<1>3. QED
  BY <1>1, <1>2

-----------------------------------------------------------------------------
(* Undoing and redoing.                                                    *)

LEMMA UndoKeeps ==
  ASSUME NEW m, Good(m), CanUndo(m), NEW texts, History(m, texts)
  PROVE  LET n == UndoIn(m) IN
         /\ Good(n) /\ ~HasComposition(n)
         /\ n.current = m.current - 1 /\ Len(n.edits) = Len(m.edits)
         /\ History(n, texts)
<1> DEFINE clean == CancelComposition(m)
           c == m.current
           edit == m.edits[c]
           k == [clean EXCEPT !.edits[m.current].merge = "not", !.current = @ - 1]
           n == ModifyText(k, Undone(edit, clean.text), edit.old_cursor)
           es == [m.edits EXCEPT ![c].merge = "not"]
           e == [edit EXCEPT !.merge = "not"]
<1>1. UndoIn(m) = n
  BY DEF UndoIn
<1>2. /\ Good(clean) /\ ~HasComposition(clean)
      /\ clean.edits = m.edits /\ clean.current = c
      /\ clean.text = OwnText(m)
  BY CancelKeeps
<1> HIDE DEF clean
<1>3. /\ m.edits \in Seq(EditType) /\ Len(m.edits) \in Nat
      /\ c \in Nat /\ c <= Len(m.edits) /\ c > 0 /\ c \in 1 .. Len(m.edits)
  BY GoodFacts DEF CanUndo
<1>4. /\ edit \in EditType /\ EditKind(edit)
      /\ Undone(edit, texts[c + 1]) = texts[c]
  BY <1>3, HistoryLinks
<1>5. texts \in Seq(Text) /\ Len(texts) = Len(m.edits) + 1 /\ texts[c + 1] = clean.text
  BY <1>2 DEF History
<1>6. texts[c] \in Text
  <2>1. c \in 1 .. Len(texts)
    BY <1>3, <1>5
  <2>2. QED
    BY <1>5, <2>1, ElementOfSeq
<1> HIDE DEF edit
<1>7. e \in EditType /\ edit.old_cursor \in Nat
  BY <1>4 DEF EditType, MergeTypes
<1>8. /\ e.merge = "not" /\ e.old_text = edit.old_text /\ e.old_start = edit.old_start
      /\ e.new_text = edit.new_text /\ e.new_start = edit.new_start
  BY <1>4 DEF EditType
<1> HIDE DEF e
<1>9. EditKind(e)
  BY <1>8 DEF EditKind
<1>10. \A a, b : Links(edit, a, b) => Links(e, a, b)
  BY <1>8 DEF Links
<1>11. /\ es \in Seq(EditType) /\ Len(es) = Len(m.edits)
       /\ \A i \in 1 .. Len(m.edits) : es[i] = IF i = c THEN e ELSE m.edits[i]
  <2>1. es = [m.edits EXCEPT ![c] = e]
    BY DEF e, edit
  <2> HIDE DEF es
  <2>2. QED
    BY <1>3, <1>7, <2>1, ExceptSeq
<1>12. /\ k \in ModelType /\ k.edits = es /\ k.current = c - 1
  <2>1. k = [clean EXCEPT !.edits = es, !.current = c - 1]
    BY <1>2 DEF Good, ModelType
  <2>2. c - 1 \in Nat /\ clean \in ModelType
    BY <1>2, <1>3 DEF Good
  <2> HIDE DEF es, k
  <2>3. QED
    BY <1>11, <2>1, <2>2 DEF ModelType
<1> HIDE DEF es, k
<1>13. Undone(edit, clean.text) = texts[c]
  BY <1>4, <1>5 DEF edit
<1>14. /\ n \in ModelType
       /\ n.text = texts[c] /\ n.composition = None
       /\ n.edits = es /\ n.current = c - 1
       /\ Within(n.selection, Len(texts[c])) /\ Within(n.composition, Len(texts[c]))
       /\ ~HasComposition(n) /\ OwnText(n) = texts[c]
  BY <1>6, <1>7, <1>12, <1>13, ModifyTextIs
<1> HIDE DEF n
<1>15. ASSUME NEW i \in 1 .. Len(m.edits)
       PROVE  EditKind(es[i]) /\ Links(es[i], texts[i], texts[i + 1])
  <2>1. EditKind(m.edits[i]) /\ Links(m.edits[i], texts[i], texts[i + 1])
    BY DEF Good, History
  <2>2. QED
    BY <1>9, <1>10, <1>11, <2>1 DEF edit
<1>16. Good(n)
  <2>1. c - 1 <= Len(es)
    BY <1>3, <1>11
  <2>2. QED
    BY <1>11, <1>14, <1>15, <2>1, NoComposition DEF Good
<1>17. History(n, texts)
  <2>1. c - 1 + 1 = c
    BY <1>3
  <2>2. QED
    BY <1>5, <1>11, <1>14, <1>15, <2>1 DEF History
<1>18. QED
  BY <1>1, <1>11, <1>14, <1>16, <1>17

LEMMA RedoKeeps ==
  ASSUME NEW m, Good(m), CanRedo(m), NEW texts, History(m, texts)
  PROVE  LET n == RedoIn(m) IN
         /\ Good(n) /\ n.current = m.current + 1
         /\ History(n, texts)
<1> DEFINE clean == CancelComposition(m)
           c == m.current
           edit == m.edits[c + 1]
           k == [clean EXCEPT !.current = @ + 1]
           n == ModifyText(k, Redone(edit, clean.text), edit.new_cursor)
<1>1. RedoIn(m) = n
  BY DEF RedoIn
<1>2. /\ Good(clean) /\ ~HasComposition(clean)
      /\ clean.edits = m.edits /\ clean.current = c
      /\ clean.text = OwnText(m)
  BY CancelKeeps
<1> HIDE DEF clean
<1>3. /\ m.edits \in Seq(EditType) /\ Len(m.edits) \in Nat
      /\ c \in Nat /\ c < Len(m.edits) /\ c + 1 \in 1 .. Len(m.edits)
  BY GoodFacts DEF CanRedo
<1>4. /\ edit \in EditType
      /\ Redone(edit, texts[c + 1]) = texts[c + 1 + 1]
  BY <1>3, HistoryLinks
<1>5. texts \in Seq(Text) /\ Len(texts) = Len(m.edits) + 1 /\ texts[c + 1] = clean.text
  BY <1>2 DEF History
<1>6. texts[c + 1 + 1] \in Text
  <2>1. c + 1 + 1 \in 1 .. Len(texts)
    BY <1>3, <1>5
  <2>2. QED
    BY <1>5, <2>1, ElementOfSeq
<1>7. edit.new_cursor \in Nat /\ Redone(edit, clean.text) = texts[c + 1 + 1]
  BY <1>4, <1>5 DEF EditType
<1>8. k \in ModelType /\ k.edits = m.edits /\ k.current = c + 1
  <2>1. clean \in ModelType /\ c + 1 \in Nat
    BY <1>2, <1>3 DEF Good
  <2>2. QED
    BY <1>2, <2>1 DEF ModelType
<1> HIDE DEF k, edit
<1> DEFINE text == texts[c + 1 + 1]
<1>9. /\ n \in ModelType
      /\ n.text = text /\ n.composition = None
      /\ n.edits = m.edits /\ n.current = c + 1
      /\ Within(n.selection, Len(text)) /\ Within(n.composition, Len(text))
      /\ ~HasComposition(n) /\ OwnText(n) = text
  BY <1>6, <1>7, <1>8, ModifyTextIs
<1> HIDE DEF n
<1>10. Good(n)
  BY <1>3, <1>9, NoComposition DEF Good
<1>11. History(n, texts)
  BY <1>9 DEF History
<1>12. QED
  BY <1>1, <1>9, <1>10, <1>11

-----------------------------------------------------------------------------
(* Text is put in.                                                         *)

\* Recording an edit of a model with the same history is recording one of m.
LEMMA DoneFrom ==
  ASSUME NEW m, NEW k, k.current = m.current,
         NEW texts, NEW n, NEW merge, Done(k, texts, n, merge)
  PROVE  Done(m, texts, n, merge)
BY DEF Done

LEMMA InsertTextDone ==
  ASSUME NEW m, Good(m), NEW texts, History(m, texts),
         NEW text \in Text,
         NEW merge \in {"not", "mergeable"}, merge = "mergeable" => text # <<>>
  PROVE  Done(m, texts, InsertTextInternal(m, text, merge), merge)
<1>1. CASE ~HasComposition(m) /\ HasSelection(m)
  <2> DEFINE start == GetMin(m.selection)
             end == start + Len(text)
             n == ExecuteAndRecordReplace(m, merge, Cursor(m), end, text, start)
  <2>1. /\ start \in Nat /\ Length(m.selection) \in Nat
        /\ start + Length(m.selection) <= Len(m.text)
        /\ Len(m.text) \in Nat /\ Cursor(m) \in Nat /\ Len(text) \in Nat
    BY GoodFacts, Ranges, JoinIsText DEF Good, Cursor
  <2>2. start \in 0 .. Len(m.text) - Length(m.selection) /\ end \in Nat
    BY <2>1
  <2>3. merge \in MergeTypes /\ merge # "with_previous"
    BY DEF MergeTypes
  <2>4. Done(m, texts, n, merge)
    BY <1>1, <2>1, <2>2, <2>3, ReplaceDone
  <2>5. InsertTextInternal(m, text, merge) = n
    BY <1>1 DEF InsertTextInternal
  <2>6. QED
    BY <2>4, <2>5
<1>2. CASE ~(~HasComposition(m) /\ HasSelection(m))
  <2> DEFINE clean == CancelComposition(m)
             n == ExecuteAndRecordInsert(clean, text, merge)
  <2>1. /\ Good(clean) /\ ~HasComposition(clean)
        /\ clean.edits = m.edits /\ clean.current = m.current
        /\ OwnText(clean) = OwnText(m)
    BY CancelKeeps
  <2>2. InsertTextInternal(m, text, merge) = n
    BY <1>2 DEF InsertTextInternal
  <2> HIDE DEF clean
  <2>3. History(clean, texts)
    BY <2>1, SameHistory
  <2>4. Done(clean, texts, n, merge)
    BY <2>1, <2>3, InsertDone
  <2>5. QED
    BY <2>1, <2>2, <2>4, DoneFrom
<1>3. QED
  BY <1>1, <1>2

LEMMA ReplaceTextDone ==
  ASSUME NEW m, Good(m), NEW texts, History(m, texts),
         NEW text \in Text,
         NEW merge \in {"not", "mergeable"}, merge = "mergeable" => text # <<>>
  PROVE  Done(m, texts, ReplaceTextInternal(m, text, merge), merge)
<1> DEFINE selected == IF HasComposition(m) THEN CancelComposition(m)
                       ELSE IF HasSelection(m) THEN m
                       ELSE SelectRange(m, Least(Cursor(m) + 1, Len(m.text)), Cursor(m))
<1>1. /\ Good(selected) /\ selected.edits = m.edits /\ selected.current = m.current
      /\ OwnText(selected) = OwnText(m)
  <2>1. CASE HasComposition(m)
    BY <2>1, CancelKeeps
  <2>2. CASE ~HasComposition(m) /\ HasSelection(m)
    BY <2>2
  <2>3. CASE ~HasComposition(m) /\ ~HasSelection(m)
    <3> DEFINE start == Least(Cursor(m) + 1, Len(m.text))
               k == SelectRange(m, start, Cursor(m))
    <3>1. Cursor(m) \in Nat /\ start \in Nat
      <4>1. Cursor(m) \in Nat /\ Cursor(m) + 1 \in Nat /\ Len(m.text) \in Nat
        BY GoodFacts DEF Cursor
      <4>2. QED
        BY <4>1, LeastIs
    <3>2. selected = k
      BY <2>3
    <3> HIDE DEF start
    <3>3. /\ Good(k) /\ k.edits = m.edits /\ k.current = m.current
          /\ OwnText(k) = OwnText(m)
      BY <3>1, SelectRangeKeeps
    <3>4. QED
      BY <3>2, <3>3
  <2>4. QED
    BY <2>1, <2>2, <2>3
<1>2. ReplaceTextInternal(m, text, merge) = InsertTextInternal(selected, text, merge)
  BY DEF ReplaceTextInternal
<1> HIDE DEF selected
<1>3. History(selected, texts)
  BY <1>1, SameHistory
<1>4. Done(selected, texts, InsertTextInternal(selected, text, merge), merge)
  BY <1>1, <1>3, InsertTextDone
<1>5. QED
  BY <1>1, <1>2, <1>4, DoneFrom

-----------------------------------------------------------------------------
(* What a call makes of the history.                                       *)

\* The steps of UndoHistory, of texts of which the field has the one at a.
Goes(texts, a, ts, b) ==
  \/ b = a /\ ts = texts
  \/ b > a /\ Len(ts) = b /\ Agree(texts, ts, a)
  \/ a > 1 /\ b = a /\ Len(ts) = a /\ Agree(texts, ts, a - 1)
  \/ a > 1 /\ b = a - 1 /\ ts = texts
  \/ a < Len(texts) /\ b = a + 1 /\ ts = texts
  \/ b = 1 /\ ts = <<texts[a]>>

Outcome(m, texts, n) ==
  /\ Good(n)
  /\ \E ts : History(n, ts) /\ Goes(texts, m.current + 1, ts, n.current + 1)

LEMMA DoneIsOutcome ==
  ASSUME NEW m, Good(m), NEW texts, NEW n, NEW merge, Done(m, texts, n, merge)
  PROVE  Outcome(m, texts, n)
<1>1. PICK ts : History(n, ts) /\ Recorded(m.current, texts, n.current, ts)
  BY DEF Done
<1>2. Good(n) /\ n.current = Len(n.edits)
  BY DEF Done
<1>3. m.current \in Nat /\ n.current \in Nat /\ Len(ts) = n.current + 1
  BY <1>1, <1>2, GoodFacts DEF History
<1>4. CASE n.current = m.current + 1 /\ Agree(texts, ts, m.current + 1)
  <2>1. Goes(texts, m.current + 1, ts, n.current + 1)
    BY <1>3, <1>4 DEF Goes
  <2>2. QED
    BY <1>1, <1>2, <2>1 DEF Outcome
<1>5. CASE m.current > 0 /\ n.current = m.current /\ Agree(texts, ts, m.current)
  <2>1. m.current + 1 > 1 /\ m.current + 1 - 1 = m.current
    BY <1>3, <1>5
  <2>2. Goes(texts, m.current + 1, ts, n.current + 1)
    BY <1>3, <1>5, <2>1 DEF Goes
  <2>3. QED
    BY <1>1, <1>2, <2>2 DEF Outcome
<1>6. QED
  BY <1>1, <1>4, <1>5 DEF Recorded

\* One edit more, or several.
LEMMA DoneThenDone ==
  ASSUME NEW m, Good(m), NEW texts, NEW k, Done(m, texts, k, "not"),
         NEW n, \A ts : History(k, ts) => Done(k, ts, n, "not")
  PROVE  Outcome(m, texts, n)
<1>1. PICK ts : History(k, ts) /\ Recorded(m.current, texts, k.current, ts)
  BY DEF Done
<1>2. k.current = m.current + 1 /\ m.current \in Nat
  BY GoodFacts DEF Done
<1>3. Agree(texts, ts, m.current + 1)
  BY <1>1, <1>2 DEF Recorded
<1>4. Done(k, ts, n, "not")
  BY <1>1
<1>5. n.current = k.current + 1 /\ Good(n) /\ n.current = Len(n.edits)
  BY <1>4 DEF Done
<1>6. PICK us : History(n, us) /\ Recorded(k.current, ts, n.current, us)
  BY <1>4 DEF Done
<1>7. Agree(ts, us, k.current + 1)
  BY <1>2, <1>5, <1>6 DEF Recorded
<1>8. Agree(texts, us, m.current + 1)
  <2>1. \A i \in 1 .. m.current + 1 : i \in 1 .. k.current + 1
    BY <1>2
  <2>2. QED
    BY <1>3, <1>7, <2>1 DEF Agree
<1>9. Len(us) = n.current + 1
  BY <1>5, <1>6 DEF History
<1>10. n.current + 1 > m.current + 1
  BY <1>2, <1>5
<1>11. Goes(texts, m.current + 1, us, n.current + 1)
  BY <1>8, <1>9, <1>10 DEF Goes
<1>12. QED
  BY <1>5, <1>6, <1>11 DEF Outcome

LEMMA SameIsOutcome ==
  ASSUME NEW m, NEW n, Good(n), n.edits = m.edits, n.current = m.current,
         OwnText(n) = OwnText(m), NEW texts, History(m, texts)
  PROVE  Outcome(m, texts, n)
<1>1. History(n, texts)
  BY SameHistory
<1>2. Goes(texts, m.current + 1, texts, n.current + 1)
  BY DEF Goes
<1>3. QED
  BY <1>1, <1>2 DEF Outcome

\* What shows the same text and has the same history has the same outcome.
LEMMA OutcomeOfSame ==
  ASSUME NEW m, NEW texts, NEW k, Outcome(m, texts, k),
         NEW n, Good(n), n.edits = k.edits, n.current = k.current,
         OwnText(n) = OwnText(k)
  PROVE  Outcome(m, texts, n)
<1>1. PICK ts : History(k, ts) /\ Goes(texts, m.current + 1, ts, k.current + 1)
  BY DEF Outcome
<1>2. History(n, ts)
  BY <1>1, SameHistory
<1>3. QED
  BY <1>1, <1>2 DEF Outcome

LEMMA OutcomeSelect ==
  ASSUME NEW m, NEW texts, NEW k, Outcome(m, texts, k),
         NEW start \in Nat, NEW end \in Nat
  PROVE  Outcome(m, texts, SelectRange(k, start, end))
<1> DEFINE n == SelectRange(k, start, end)
<1>1. Good(k)
  BY DEF Outcome
<1>2. Good(n) /\ n.edits = k.edits /\ n.current = k.current /\ OwnText(n) = OwnText(k)
  BY <1>1, SelectRangeKeeps
<1> HIDE DEF n
<1>3. Outcome(m, texts, n)
  BY <1>2, OutcomeOfSame
<1>4. QED
  BY <1>3 DEF n

LEMMA ConfirmOutcome ==
  ASSUME NEW m, Good(m), NEW texts, History(m, texts)
  PROVE  Outcome(m, texts, ConfirmComposition(m))
<1> DEFINE n == ConfirmComposition(m)
<1>1. /\ Good(n)
      /\ ~HasComposition(m) => n = m
      /\ HasComposition(m) => Done(m, texts, n, "not")
  BY ConfirmDone
<1> HIDE DEF n
<1>2. CASE HasComposition(m)
  BY <1>1, <1>2, DoneIsOutcome DEF n
<1>3. CASE ~HasComposition(m)
  <2>1. n = m
    BY <1>1, <1>3
  <2>2. Outcome(m, texts, n)
    BY <2>1, SameIsOutcome
  <2>3. QED
    BY <2>2 DEF n
<1>4. QED
  BY <1>2, <1>3

LEMMA CancelOutcome ==
  ASSUME NEW m, Good(m), NEW texts, History(m, texts)
  PROVE  Outcome(m, texts, CancelComposition(m))
<1> DEFINE n == CancelComposition(m)
<1>1. Good(n) /\ n.edits = m.edits /\ n.current = m.current /\ OwnText(n) = OwnText(m)
  BY CancelKeeps
<1> HIDE DEF n
<1>2. Outcome(m, texts, n)
  BY <1>1, SameIsOutcome
<1>3. QED
  BY <1>2 DEF n

LEMMA DeleteSelectionDone ==
  ASSUME NEW m, Good(m), ~HasComposition(m), NEW texts, History(m, texts)
  PROVE  Done(m, texts, DeleteSelection(m), "not")
<1>1. m.selection \in RangeType /\ Within(m.selection, Len(m.text))
  BY GoodFacts DEF Good
<1>2. Done(m, texts, ExecuteAndRecordDelete(m, m.selection, "not"), "not")
  BY <1>1, DeleteDone
<1>3. QED
  BY <1>2 DEF DeleteSelection

LEMMA DeleteToOutcome ==
  ASSUME NEW m, Good(m), NEW texts, History(m, texts),
         NEW there \in Int, there # Cursor(m)
  PROVE  Outcome(m, texts, DeleteTo(m, there))
<1>1. CASE HasComposition(m)
  BY <1>1, CancelOutcome DEF DeleteTo
<1>2. CASE ~HasComposition(m) /\ HasSelection(m)
  <2>1. Done(m, texts, DeleteSelection(m), "not")
    BY <1>2, DeleteSelectionDone
  <2>2. QED
    BY <1>2, <2>1, DoneIsOutcome DEF DeleteTo
<1>3. CASE ~HasComposition(m) /\ ~HasSelection(m) /\ there \in 0 .. Len(m.text)
  <2> DEFINE range == [start |-> Cursor(m), end |-> there]
  <2>1. Cursor(m) \in Nat /\ Cursor(m) <= Len(m.text) /\ Len(m.text) \in Nat
    BY GoodFacts DEF Cursor
  <2>2. range \in RangeType /\ Within(range, Len(m.text)) /\ ~IsEmpty(range)
    BY <1>3, <2>1 DEF RangeType, Within, IsEmpty
  <2> HIDE DEF range
  <2>3. Done(m, texts, ExecuteAndRecordDelete(m, range, "mergeable"), "mergeable")
    BY <1>3, <2>2, DeleteDone
  <2>4. DeleteTo(m, there) = ExecuteAndRecordDelete(m, range, "mergeable")
    BY <1>3 DEF DeleteTo, range
  <2>5. QED
    BY <2>3, <2>4, DoneIsOutcome
<1>4. CASE ~HasComposition(m) /\ ~HasSelection(m) /\ ~(there \in 0 .. Len(m.text))
  <2>1. DeleteTo(m, there) = m
    BY <1>4 DEF DeleteTo
  <2>2. QED
    BY <2>1, SameIsOutcome
<1>5. QED
  BY <1>1, <1>2, <1>3, <1>4

LEMMA SetCompositionOutcome ==
  ASSUME NEW m, Good(m), NEW texts, History(m, texts),
         NEW text \in Text, NEW start \in Nat, NEW end \in Nat
  PROVE  Outcome(m, texts, SetComposition(m, text, start, end))
<1> DEFINE clean == IF HasComposition(m) THEN CancelComposition(m)
                    ELSE IF HasSelection(m) THEN DeleteSelection(m) ELSE m
           at == Cursor(clean)
           joined == InsertInto(clean.text, at, text)
           range == [start |-> at, end |-> at + Len(text)]
           k == [clean EXCEPT !.text = joined, !.composition = range]
           n == SelectRange(k, at + Least(start, Len(text)), at + Least(end, Len(text)))
<1>1. Outcome(m, texts, clean) /\ ~HasComposition(clean)
  <2>1. CASE HasComposition(m)
    BY <2>1, CancelKeeps, CancelOutcome
  <2>2. CASE ~HasComposition(m) /\ HasSelection(m)
    <3>1. Done(m, texts, DeleteSelection(m), "not")
      BY <2>2, DeleteSelectionDone
    <3>2. Outcome(m, texts, DeleteSelection(m)) /\ ~HasComposition(DeleteSelection(m))
      BY <3>1, DoneIsOutcome DEF Done
    <3>3. QED
      BY <2>2, <3>2
  <2>3. CASE ~HasComposition(m) /\ ~HasSelection(m)
    BY <2>3, SameIsOutcome
  <2>4. QED
    BY <2>1, <2>2, <2>3
<1>2. SetComposition(m, text, start, end) = IF text = <<>> THEN clean ELSE n
  BY DEF SetComposition
<1> HIDE DEF clean
<1>3. CASE text = <<>>
  BY <1>1, <1>2, <1>3
<1>4. CASE text # <<>>
  <2>1. Good(clean)
    BY <1>1 DEF Outcome
  <2>2. /\ clean \in ModelType /\ clean.text \in Text /\ Len(clean.text) \in Nat
        /\ at \in 0 .. Len(clean.text) /\ at \in Nat
    BY <2>1, GoodFacts DEF Cursor
  <2>3. Len(text) \in Nat /\ Len(text) > 0
    BY <1>4, JoinIsText
  <2>4. /\ joined \in Text /\ Len(joined) = Len(clean.text) + Len(text)
        /\ CutOut(joined, text, at, clean.text)
    BY <2>2, CutOutInsert
  <2>5. Erase(joined, at, Len(text)) = clean.text
    BY <2>2, <2>4, CutOutGives
  <2> HIDE DEF joined, at
  <2>6. /\ range \in RangeType /\ Within(range, Len(joined)) /\ ~IsEmpty(range)
        /\ range.start <= range.end
    BY <2>2, <2>3, <2>4 DEF RangeType, Within, IsEmpty
  <2>7. GetMin(range) = at /\ Length(range) = Len(text)
    <3>1. /\ GetMin(range) = range.start /\ Length(range) = range.end - range.start
      BY <2>2, <2>3, <2>4, <2>6, Ranges
    <3>2. QED
      BY <2>2, <2>3, <3>1
  <2> HIDE DEF range
  <2>8. /\ k \in ModelType /\ k.text = joined /\ k.composition = range
        /\ k.edits = clean.edits /\ k.current = clean.current
        /\ k.selection = clean.selection
    BY <2>2, <2>4, <2>6 DEF ModelType
  <2>9. Within(k.selection, Len(joined))
    <3>1. Within(clean.selection, Len(clean.text)) /\ clean.selection \in RangeType
      BY <2>1, GoodFacts DEF Good
    <3>2. QED
      BY <2>2, <2>3, <2>4, <2>8, <3>1 DEF Within, RangeType
  <2> HIDE DEF k
  <2>10. Good(k)
    BY <2>1, <2>6, <2>8, <2>9 DEF Good
  <2>11. OwnText(k) = OwnText(clean)
    <3>1. HasComposition(k)
      BY <2>6, <2>8 DEF HasComposition
    <3>2. OwnText(k) = clean.text
      BY <2>5, <2>7, <2>8, <3>1, OwnTextIs
    <3>3. QED
      BY <1>1, <3>2, OwnTextOfNone
  <2>12. Outcome(m, texts, k)
    BY <1>1, <2>8, <2>10, <2>11, OutcomeOfSame
  <2>13. at + Least(start, Len(text)) \in Nat /\ at + Least(end, Len(text)) \in Nat
    <3>1. Least(start, Len(text)) \in Nat /\ Least(end, Len(text)) \in Nat
      BY <2>3, LeastIs
    <3>2. QED
      BY <2>2, <3>1
  <2>14. Outcome(m, texts, n)
    BY <2>12, <2>13, OutcomeSelect
  <2>15. QED
    BY <1>2, <1>4, <2>14
<1>5. QED
  BY <1>3, <1>4

\* The whole text is replaced.
LEMMA ReplaceAllDone ==
  ASSUME NEW m, Good(m), ~HasComposition(m), NEW texts, History(m, texts),
         NEW text \in Text, NEW merge \in {"not", "with_previous"}
  PROVE  LET all == SelectRange(m, 0, Len(m.text)) IN
         Done(m, texts,
              ExecuteAndRecordReplace(all, merge, Cursor(m), Least(Cursor(m), Len(text)), text, 0),
              merge)
<1> DEFINE all == SelectRange(m, 0, Len(m.text))
           new_cursor == Least(Cursor(m), Len(text))
           n == ExecuteAndRecordReplace(all, merge, Cursor(m), new_cursor, text, 0)
<1>1. Len(m.text) \in Nat /\ Cursor(m) \in Nat /\ Len(text) \in Nat
  BY GoodFacts, JoinIsText DEF Cursor
<1>2. /\ Good(all)
      /\ all.text = m.text /\ all.edits = m.edits /\ all.current = m.current
      /\ all.selection = [start |-> Least(0, Len(m.text)), end |-> Least(Len(m.text), Len(m.text))]
      /\ HasComposition(all) <=> HasComposition(m)
      /\ OwnText(all) = OwnText(m)
  BY <1>1, SelectRangeKeeps
<1> HIDE DEF all
<1>3. all.selection.start = 0 /\ all.selection.end = Len(all.text)
  <2>1. Least(0, Len(m.text)) = 0 /\ Least(Len(m.text), Len(m.text)) = Len(m.text)
    BY <1>1 DEF Least
  <2>2. QED
    BY <1>2, <2>1
<1>4. GetMin(all.selection) = 0 /\ Length(all.selection) = Len(all.text)
  <2>1. all.selection \in RangeType /\ Within(all.selection, Len(all.text)) /\ Len(all.text) \in Nat
    BY <1>2, GoodFacts DEF Good
  <2>2. all.selection.start <= all.selection.end
    BY <1>3, <2>1
  <2>3. /\ GetMin(all.selection) = all.selection.start
        /\ Length(all.selection) = all.selection.end - all.selection.start
    BY <2>1, <2>2, Ranges
  <2>4. QED
    BY <1>3, <2>1, <2>3
<1>5. History(all, texts)
  BY <1>2, SameHistory
<1>6. new_cursor \in Nat
  BY <1>1, LeastIs
<1>7. 0 \in 0 .. Len(all.text) - Length(all.selection)
  BY <1>1, <1>2, <1>4
<1>8. merge \in MergeTypes /\ merge # "mergeable"
  BY DEF MergeTypes
<1> HIDE DEF new_cursor
<1>9. Done(all, texts, n, merge)
  BY <1>1, <1>2, <1>4, <1>5, <1>6, <1>7, <1>8, ReplaceDone
<1> HIDE DEF n
<1>10. Done(m, texts, n, merge)
  BY <1>2, <1>9, DoneFrom
<1>11. QED
  BY <1>10 DEF n, new_cursor, all

LEMMA SetTextOutcome ==
  ASSUME NEW m, Good(m), NEW texts, History(m, texts), NEW text \in Text
  PROVE  Outcome(m, texts, SetTextIn(m, text))
<1> DEFINE confirmed == ConfirmComposition(m)
           clean == IF HasComposition(m) THEN UndoIn(confirmed) ELSE m
           merge == IF HasComposition(m) THEN "not" ELSE "with_previous"
           all == SelectRange(clean, 0, Len(clean.text))
           replaced == ExecuteAndRecordReplace(all, merge, Cursor(clean),
                                               Least(Cursor(clean), Len(text)), text, 0)
           result == IF confirmed.text # text THEN replaced ELSE confirmed
<1>1. SetTextIn(m, text) = SetCursorPosition(result, Cursor(result))
  BY DEF SetTextIn
<1>2. Outcome(m, texts, replaced)
  <2>1. CASE ~HasComposition(m)
    <3>1. clean = m /\ merge = "with_previous"
      BY <2>1
    <3> HIDE DEF clean, merge
    <3>2. Done(m, texts, replaced, "with_previous")
      BY <2>1, <3>1, ReplaceAllDone
    <3>3. QED
      BY <3>2, DoneIsOutcome
  <2>2. CASE HasComposition(m)
    <3>1. Done(m, texts, confirmed, "not")
      BY <2>2, ConfirmDone
    <3>2. clean = UndoIn(confirmed) /\ merge = "not"
      BY <2>2
    <3> HIDE DEF clean, merge, confirmed
    <3>3. PICK ts : History(confirmed, ts) /\ Recorded(m.current, texts, confirmed.current, ts)
      BY <3>1 DEF Done
    <3>4. Good(confirmed) /\ confirmed.current = m.current + 1 /\ m.current \in Nat
      BY <3>1, GoodFacts DEF Done
    <3>5. CanUndo(confirmed)
      BY <3>4 DEF CanUndo
    <3>6. /\ Good(clean) /\ ~HasComposition(clean)
          /\ clean.current = confirmed.current - 1
          /\ History(clean, ts)
      BY <3>2, <3>3, <3>4, <3>5, UndoKeeps
    <3>7. Done(clean, ts, replaced, "not")
      BY <3>2, <3>6, ReplaceAllDone
    <3> HIDE DEF replaced
    <3>8. clean.current = m.current /\ replaced.current = m.current + 1
      BY <3>4, <3>6, <3>7 DEF Done
    <3>9. Agree(texts, ts, m.current + 1)
      BY <3>3, <3>4 DEF Recorded
    <3>10. PICK us : History(replaced, us) /\ Recorded(m.current, ts, m.current + 1, us)
      BY <3>7, <3>8 DEF Done
    <3>11. Agree(texts, us, m.current + 1)
      BY <3>4, <3>9, <3>10 DEF Recorded, Agree
    <3>12. Done(m, texts, replaced, "not")
      BY <3>7, <3>8, <3>10, <3>11 DEF Done, Recorded
    <3>13. QED
      BY <3>12, DoneIsOutcome
  <2>3. QED
    BY <2>1, <2>2
<1>3. Outcome(m, texts, confirmed)
  BY ConfirmOutcome
<1> HIDE DEF replaced, confirmed
<1>4. Outcome(m, texts, result)
  BY <1>2, <1>3
<1> HIDE DEF result
<1>5. Cursor(result) \in Nat
  BY <1>4, GoodFacts DEF Outcome, Cursor
<1>6. Outcome(m, texts, SelectRange(result, Cursor(result), Cursor(result)))
  BY <1>4, <1>5, OutcomeSelect
<1>7. QED
  BY <1>1, <1>6 DEF SetCursorPosition

LEMMA AppendOutcome ==
  ASSUME NEW m, Good(m), NEW texts, History(m, texts), NEW text \in Text
  PROVE  Outcome(m, texts, AppendIn(m, text))
<1> DEFINE confirmed == ConfirmComposition(m)
           save == Cursor(confirmed)
           length == Len(confirmed.text)
           end == SelectRange(confirmed, length, length)
           n == InsertTextInternal(end, text, "not")
<1>1. AppendIn(m, text) = SelectRange(n, save, save)
  BY DEF AppendIn, SetCursorPosition
<1>2. /\ Good(confirmed)
      /\ ~HasComposition(m) => confirmed = m
      /\ HasComposition(m) => Done(m, texts, confirmed, "not")
  BY ConfirmDone
<1> HIDE DEF confirmed
<1>3. save \in Nat /\ length \in Nat
  BY <1>2, GoodFacts DEF Cursor
<1> HIDE DEF save, length
<1>4. /\ Good(end) /\ end.edits = confirmed.edits /\ end.current = confirmed.current
      /\ OwnText(end) = OwnText(confirmed)
  BY <1>2, <1>3, SelectRangeKeeps
<1> HIDE DEF end
<1>5. ASSUME NEW ts, History(confirmed, ts)
      PROVE  Done(confirmed, ts, n, "not")
  <2>1. History(end, ts)
    BY <1>4, <1>5, SameHistory
  <2>2. Done(end, ts, n, "not")
    BY <1>4, <2>1, InsertTextDone
  <2>3. QED
    BY <1>4, <2>2, DoneFrom
<1> HIDE DEF n
<1>6. Outcome(m, texts, n)
  <2>1. CASE HasComposition(m)
    BY <1>2, <1>5, <2>1, DoneThenDone
  <2>2. CASE ~HasComposition(m)
    <3>1. confirmed = m
      BY <1>2, <2>2
    <3>2. Done(m, texts, n, "not")
      BY <1>5, <3>1
    <3>3. QED
      BY <3>2, DoneIsOutcome
  <2>3. QED
    BY <2>1, <2>2
<1>7. QED
  BY <1>1, <1>3, <1>6, OutcomeSelect

LEMMA CutOutcome ==
  ASSUME NEW m, Good(m), ~HasComposition(m), NEW texts, History(m, texts)
  PROVE  Outcome(m, texts,
                 DeleteSelection(SelectRange(m, m.selection.end, m.selection.start)))
<1> DEFINE k == SelectRange(m, m.selection.end, m.selection.start)
<1>1. m.selection.end \in Nat /\ m.selection.start \in Nat
  BY GoodFacts
<1>2. /\ Good(k) /\ k.edits = m.edits /\ k.current = m.current
      /\ HasComposition(k) <=> HasComposition(m)
      /\ OwnText(k) = OwnText(m)
  BY <1>1, SelectRangeKeeps
<1> HIDE DEF k
<1>3. Done(k, texts, DeleteSelection(k), "not")
  BY <1>2, SameHistory, DeleteSelectionDone
<1>4. Outcome(m, texts, DeleteSelection(k))
  BY <1>2, <1>3, DoneFrom, DoneIsOutcome
<1>5. QED
  BY <1>4 DEF k

\* The edit of a drop is recorded in a text without a composition.
LEMMA DropFacts ==
  ASSUME NEW m, Good(m), NEW text \in Text, NEW position \in Nat
  PROVE  LET clean == CancelComposition(m) IN
         /\ Good(clean) /\ ~HasComposition(clean)
         /\ clean.edits = m.edits /\ clean.current = m.current
         /\ OwnText(clean) = OwnText(m)
         /\ Cursor(clean) \in Nat /\ position + Len(text) \in Nat
         /\ Len(clean.text) \in Nat /\ Length(clean.selection) \in Nat
<1> DEFINE clean == CancelComposition(m)
<1>1. /\ Good(clean) /\ ~HasComposition(clean)
      /\ clean.edits = m.edits /\ clean.current = m.current
      /\ OwnText(clean) = OwnText(m)
  BY CancelKeeps
<1> HIDE DEF clean
<1>2. /\ Cursor(clean) \in Nat /\ Len(clean.text) \in Nat
      /\ Length(clean.selection) \in Nat
  BY <1>1, GoodFacts, Ranges DEF Good, Cursor
<1>3. position + Len(text) \in Nat
  BY JoinIsText
<1>4. QED
  BY <1>1, <1>2, <1>3 DEF clean

LEMMA DropOutcome ==
  ASSUME NEW m, Good(m), NEW texts, History(m, texts),
         NEW text \in Text, NEW position \in Nat,
         position <= Len(CancelComposition(m).text) - Length(CancelComposition(m).selection)
  PROVE  LET clean == CancelComposition(m) IN
         Outcome(m, texts,
                 ExecuteAndRecordReplace(clean, "not", Cursor(clean), position + Len(text),
                                         text, position))
<1> DEFINE clean == CancelComposition(m)
           end == position + Len(text)
           n == ExecuteAndRecordReplace(clean, "not", Cursor(clean), end, text, position)
<1>1. /\ Good(clean) /\ ~HasComposition(clean)
      /\ clean.edits = m.edits /\ clean.current = m.current
      /\ OwnText(clean) = OwnText(m)
      /\ Cursor(clean) \in Nat /\ end \in Nat
      /\ Len(clean.text) \in Nat /\ Length(clean.selection) \in Nat
  BY DropFacts
<1>2. position \in 0 .. Len(clean.text) - Length(clean.selection)
  BY <1>1
<1> HIDE DEF clean, end
<1>3. History(clean, texts)
  BY <1>1, SameHistory
<1>4. "not" \in MergeTypes
  BY DEF MergeTypes
<1>5. Done(clean, texts, n, "not")
  BY <1>1, <1>2, <1>3, <1>4, ReplaceDone
<1> HIDE DEF n
<1>6. Outcome(m, texts, n)
  BY <1>1, <1>5, DoneFrom, DoneIsOutcome
<1>7. QED
  BY <1>6 DEF n, end, clean

\* What a drop that throws leaves: the composition is gone, the edit is there.
LEMMA DropThrows ==
  ASSUME NEW m, Good(m), NEW text \in Text, NEW position \in Nat
  PROVE  LET clean == CancelComposition(m) IN
         Good(AddOrMerge(clean, ReplaceEdit(clean, "not", Cursor(clean), position + Len(text),
                                            text, position)))
<1> DEFINE clean == CancelComposition(m)
           end == position + Len(text)
           edit == ReplaceEdit(clean, "not", Cursor(clean), end, text, position)
           done == SubSeq(clean.edits, 1, clean.current)
           edits == Append(done, edit)
           n == AddOrMerge(clean, edit)
<1>1. Good(clean) /\ Cursor(clean) \in Nat /\ end \in Nat
  BY DropFacts
<1> HIDE DEF clean, end
<1>2. /\ clean \in ModelType /\ clean.text \in Text /\ clean.edits \in Seq(EditType)
      /\ clean.current \in Nat /\ clean.current \in 0 .. Len(clean.edits)
      /\ Len(clean.edits) \in Nat
      /\ \A i \in 1 .. Len(clean.edits) : EditKind(clean.edits[i])
  BY <1>1, GoodFacts DEF Good
<1>3. /\ GetMin(clean.selection) \in Nat /\ Length(clean.selection) \in Nat
      /\ GetMin(clean.selection) + Length(clean.selection) <= Len(clean.text)
      /\ IsReversed(clean.selection) \in BOOLEAN
  BY <1>1, GoodFacts, Ranges DEF Good
<1>4. SelectedText(clean) \in Text
  BY <1>2, <1>3, CutOutSubstr DEF SelectedText
<1>5. edit \in EditType /\ edit.merge = "not"
  BY <1>1, <1>3, <1>4 DEF ReplaceEdit, EditType, Kinds, MergeTypes
<1> HIDE DEF edit
<1>6. EditKind(edit)
  BY <1>5 DEF EditKind
<1>7. n = [clean EXCEPT !.edits = edits, !.current = clean.current + 1]
  BY <1>5 DEF AddOrMerge, MergesReplace, Merges
<1>8. /\ done \in Seq(EditType) /\ Len(done) = clean.current
      /\ \A i \in 1 .. clean.current : done[i] = clean.edits[i]
  BY <1>2, FirstPart
<1> HIDE DEF done
<1>9. /\ edits \in Seq(EditType) /\ Len(edits) = clean.current + 1
      /\ \A i \in 1 .. clean.current : edits[i] = done[i]
      /\ edits[clean.current + 1] = edit
  BY <1>2, <1>5, <1>8, AppendProperties
<1> HIDE DEF edits
<1>10. ASSUME NEW i \in 1 .. Len(edits)
       PROVE  EditKind(edits[i])
  <2>1. CASE i = clean.current + 1
    BY <1>6, <1>9, <2>1
  <2>2. CASE i # clean.current + 1
    <3>1. i \in 1 .. clean.current /\ i \in 1 .. Len(clean.edits)
      BY <1>2, <1>9, <2>2
    <3>2. QED
      BY <1>2, <1>8, <1>9, <3>1
  <2>3. QED
    BY <2>1, <2>2
<1>11. /\ n \in ModelType /\ n.edits = edits /\ n.current = clean.current + 1
       /\ n.text = clean.text /\ n.selection = clean.selection
       /\ n.composition = clean.composition
  <2>1. clean.current + 1 \in Nat
    BY <1>2
  <2>2. QED
    BY <1>2, <1>7, <1>9, <2>1 DEF ModelType
<1> HIDE DEF n
<1>12. Good(n)
  BY <1>1, <1>2, <1>9, <1>10, <1>11 DEF Good
<1>13. QED
  BY <1>12 DEF n, edit, end, clean

LEMMA ForgetOutcome ==
  ASSUME NEW m, Good(m), NEW texts, History(m, texts)
  PROVE  Outcome(m, texts, [m EXCEPT !.edits = <<>>, !.current = 0])
<1> DEFINE n == [m EXCEPT !.edits = <<>>, !.current = 0]
           a == texts[m.current + 1]
           ts == <<a>>
<1>1. m \in ModelType /\ m.current \in Nat /\ m.current <= Len(m.edits) /\ Len(m.edits) \in Nat
  BY GoodFacts
<1>2. <<>> \in Seq(EditType) /\ Len(<<>>) = 0
  BY EmptySeq
<1>3. /\ n \in ModelType /\ n.edits = <<>> /\ n.current = 0
      /\ n.text = m.text /\ n.selection = m.selection /\ n.composition = m.composition
  BY <1>1, <1>2 DEF ModelType
<1> HIDE DEF n
<1>4. Good(n)
  BY <1>2, <1>3 DEF Good
<1>5. HasComposition(n) <=> HasComposition(m)
  BY <1>3 DEF HasComposition
<1>6. OwnText(n) = OwnText(m)
  BY <1>1, <1>3, <1>5, OwnTextIs
<1>7. a \in Text
  <2>1. m.current + 1 \in 1 .. Len(texts) /\ texts \in Seq(Text)
    BY <1>1 DEF History
  <2>2. QED
    BY <2>1, ElementOfSeq
<1>8. a = OwnText(m)
  BY DEF History
<1> HIDE DEF a
<1>9. ts \in Seq(Text) /\ Len(ts) = 1 /\ ts[1] = a
  BY <1>7
<1> HIDE DEF ts
<1>10. History(n, ts)
  BY <1>2, <1>3, <1>6, <1>8, <1>9 DEF History
<1>11. Goes(texts, m.current + 1, ts, n.current + 1)
  BY <1>3 DEF Goes, ts, a
<1>12. Outcome(m, texts, n)
  BY <1>4, <1>10, <1>11 DEF Outcome
<1>13. QED
  BY <1>12 DEF n

LEMMA UndoOutcome ==
  ASSUME NEW m, Good(m), CanUndo(m), NEW texts, History(m, texts)
  PROVE  Outcome(m, texts, UndoIn(m))
<1> DEFINE n == UndoIn(m)
<1>1. Good(n) /\ n.current = m.current - 1 /\ History(n, texts)
  BY UndoKeeps
<1> HIDE DEF n
<1>2. PICK a, b : a = m.current + 1 /\ b = n.current + 1
  OBVIOUS
<1>3. a > 1 /\ b = a - 1
  BY <1>1, <1>2, GoodFacts DEF CanUndo
<1>4. Goes(texts, a, texts, b)
  BY <1>3 DEF Goes
<1>5. QED
  BY <1>1, <1>2, <1>4 DEF Outcome, n

LEMMA RedoOutcome ==
  ASSUME NEW m, Good(m), CanRedo(m), NEW texts, History(m, texts)
  PROVE  Outcome(m, texts, RedoIn(m))
<1> DEFINE n == RedoIn(m)
<1>1. Good(n) /\ n.current = m.current + 1 /\ History(n, texts)
  BY RedoKeeps
<1> HIDE DEF n
<1>2. PICK a, b : a = m.current + 1 /\ b = n.current + 1
  OBVIOUS
<1>3. a < Len(texts) /\ b = a + 1
  <2>1. m.current \in Nat /\ Len(m.edits) \in Nat /\ Len(texts) = Len(m.edits) + 1
    BY GoodFacts DEF History
  <2>2. QED
    BY <1>1, <1>2, <2>1 DEF CanRedo
<1>4. Goes(texts, a, texts, b)
  BY <1>3 DEF Goes
<1>5. QED
  BY <1>1, <1>2, <1>4 DEF Outcome, n

-----------------------------------------------------------------------------
(* The specification.                                                      *)

LEMMA NewIsText ==
  ASSUME calls \in Nat, NEW length \in Nat
  PROVE  New(length) \in Text /\ Len(New(length)) = length
<1>1. MaxLength \in Nat
  BY TextfieldAssumption
<1>2. \A i \in 1 .. length : MaxLength * (calls + 1) + i \in Int
  BY <1>1
<1>3. New(length) \in [1 .. length -> Int]
  BY <1>2 DEF New
<1>4. QED
  BY <1>3 DEF Text, New

LEMMA DropPositionIs ==
  ASSUME Good(model), NEW place \in Positions
  PROVE  DropPosition(place) \in Nat
<1>1. PICK s \in Nat, e \in Nat : s = model.selection.start /\ e = model.selection.end
  BY GoodFacts
<1>2. place \in Nat
  BY GoodFacts DEF Positions
<1>3. GetMin(model.selection) = IF s <= e THEN s ELSE e
  BY <1>1 DEF GetMin, Least
<1>4. GetMax(model.selection) = IF s <= e THEN e ELSE s
  BY <1>1, <1>3 DEF GetMax
<1>5. QED
  BY <1>2, <1>3, <1>4 DEF DropPosition, Least

LEMMA DroppedText ==
  ASSUME Good(model), calls \in Nat, NEW text \in {SelectedText(model), New(1)}
  PROVE  text \in Text
<1>1. New(1) \in Text
  BY NewIsText
<1>2. /\ GetMin(model.selection) \in Nat /\ Length(model.selection) \in Nat
      /\ GetMin(model.selection) + Length(model.selection) <= Len(model.text)
      /\ model.text \in Text
  BY GoodFacts, Ranges DEF Good
<1>3. SelectedText(model) \in Text
  BY <1>2, CutOutSubstr DEF SelectedText
<1>4. QED
  BY <1>1, <1>3

\* Only a drop throws.
LEMMA ThrownGood ==
  ASSUME HInv, Next, thrown'
  PROVE  Good(model')
<1>1. Good(model) /\ calls \in Nat
  BY DEF HInv
<1>2. DeleteSelectionAndInsertTextAt
  BY DEF Next
<1>3. PICK text \in {SelectedText(model), New(1)} \ {<<>>}, place \in Positions :
        LET clean == CancelComposition(model)
            position == DropPosition(place)
        IN model' = AddOrMerge(clean, ReplaceEdit(clean, "not", Cursor(clean),
                                                  position + Len(text), text, position))
  BY <1>2 DEF DeleteSelectionAndInsertTextAt, Next
<1>4. text \in Text /\ DropPosition(place) \in Nat
  BY <1>1, DroppedText, DropPositionIs
<1>5. QED
  BY <1>1, <1>3, <1>4, DropThrows

\* Every call of the text field that returns makes a step of UndoHistory, or none.
LEMMA NextOutcome ==
  ASSUME HInv, Next, ~thrown', NEW texts, History(model, texts)
  PROVE  Outcome(model, texts, model')
<1>1. Good(model) /\ calls \in Nat
  BY DEF HInv
<1>2. /\ model.text \in Text /\ Len(model.text) \in Nat /\ Cursor(model) \in Nat
      /\ model.selection.start \in Nat /\ model.selection.end \in Nat
  BY <1>1, GoodFacts DEF Cursor
<1>3. \A length \in Nat : New(length) \in Text /\ Len(New(length)) = length
  BY <1>1, NewIsText
<1>4. New(1) \in Text /\ New(1) # <<>>
  <2>1. New(1) \in Text /\ Len(New(1)) = 1
    BY <1>3
  <2>2. QED
    BY <2>1, JoinIsText
<1>5. CASE Select
  <2>1. PICK start \in Positions, end \in Positions :
          model' = SelectRange(ConfirmComposition(model), start, end)
    BY <1>5 DEF Select
  <2>2. start \in Nat /\ end \in Nat
    BY <1>2 DEF Positions
  <2>3. QED
    BY <1>1, <2>1, <2>2, ConfirmOutcome, OutcomeSelect
<1>6. CASE InsertText
  <2>1. PICK length \in 0 .. 1 : model' = InsertTextInternal(model, New(length), "not")
    BY <1>6 DEF InsertText
  <2>2. New(length) \in Text
    BY <1>3
  <2>3. Done(model, texts, model', "not")
    BY <1>1, <2>1, <2>2, InsertTextDone
  <2>4. QED
    BY <1>1, <2>3, DoneIsOutcome
<1>7. CASE InsertChar
  <2>1. Done(model, texts, model', "mergeable")
    BY <1>1, <1>4, <1>7, InsertTextDone DEF InsertChar
  <2>2. QED
    BY <1>1, <2>1, DoneIsOutcome
<1>8. CASE ReplaceText
  <2>1. Done(model, texts, model', "not")
    BY <1>1, <1>4, <1>8, ReplaceTextDone DEF ReplaceText
  <2>2. QED
    BY <1>1, <2>1, DoneIsOutcome
<1>9. CASE ReplaceChar
  <2>1. Done(model, texts, model', "mergeable")
    BY <1>1, <1>4, <1>9, ReplaceTextDone DEF ReplaceChar
  <2>2. QED
    BY <1>1, <2>1, DoneIsOutcome
<1>10. CASE Backspace
  <2>1. Cursor(model) - 1 \in Int /\ Cursor(model) - 1 # Cursor(model)
    BY <1>2
  <2>2. QED
    BY <1>1, <1>10, <2>1, DeleteToOutcome DEF Backspace
<1>11. CASE Delete
  <2>1. Cursor(model) + 1 \in Int /\ Cursor(model) + 1 # Cursor(model)
    BY <1>2
  <2>2. QED
    BY <1>1, <1>11, <2>1, DeleteToOutcome DEF Delete
<1>12. CASE SetText
  <2>1. CASE \E length \in 0 .. MaxLength : model' = SetTextIn(model, New(length))
    <3>1. PICK length \in 0 .. MaxLength : model' = SetTextIn(model, New(length))
      BY <2>1
    <3>2. New(length) \in Text
      BY <1>3
    <3>3. QED
      BY <1>1, <3>1, <3>2, SetTextOutcome
  <2>2. CASE model' = SetTextIn(model, model.text)
    BY <1>1, <1>2, <2>2, SetTextOutcome
  <2>3. QED
    BY <1>12, <2>1, <2>2 DEF SetText
<1>13. CASE AppendText
  BY <1>1, <1>4, <1>13, AppendOutcome DEF AppendText
<1>14. CASE Undo
  BY <1>1, <1>14, UndoOutcome DEF Undo
<1>15. CASE Redo
  BY <1>1, <1>15, RedoOutcome DEF Redo
<1>16. CASE Cut
  BY <1>1, <1>16, CutOutcome DEF Cut
<1>17. CASE DeleteSelectionAndInsertTextAt
  <2>1. PICK text \in {SelectedText(model), New(1)} \ {<<>>}, place \in Positions :
          LET clean == CancelComposition(model)
              position == DropPosition(place)
          IN /\ position <= Len(clean.text) - Length(clean.selection)
             /\ model' = ExecuteAndRecordReplace(clean, "not", Cursor(clean),
                                                 position + Len(text), text, position)
    BY <1>17 DEF DeleteSelectionAndInsertTextAt
  <2>2. text \in Text /\ DropPosition(place) \in Nat
    BY <1>1, DroppedText, DropPositionIs
  <2>3. QED
    BY <1>1, <2>1, <2>2, DropOutcome
<1>18. CASE SetCompositionText
  <2>1. PICK length \in 0 .. MaxLength : \E end \in 0 .. length : \E start \in 0 .. end :
          model' = SetComposition(model, New(length), start, end)
    BY <1>18 DEF SetCompositionText
  <2>2. PICK end \in 0 .. length : \E start \in 0 .. end :
          model' = SetComposition(model, New(length), start, end)
    BY <2>1
  <2>3. PICK start \in 0 .. end : model' = SetComposition(model, New(length), start, end)
    BY <2>2
  <2>4. New(length) \in Text /\ start \in Nat /\ end \in Nat
    BY <1>3
  <2>5. QED
    BY <1>1, <2>3, <2>4, SetCompositionOutcome
<1>19. CASE ConfirmCompositionText
  BY <1>1, <1>19, ConfirmOutcome DEF ConfirmCompositionText
<1>20. CASE CancelCompositionText
  BY <1>1, <1>20, CancelOutcome DEF CancelCompositionText
<1>21. CASE ClearEditHistory
  BY <1>1, <1>21, ForgetOutcome DEF ClearEditHistory
<1>22. QED
  BY <1>5, <1>6, <1>7, <1>8, <1>9, <1>10, <1>11, <1>12, <1>13, <1>14, <1>15, <1>16,
     <1>17, <1>18, <1>19, <1>20, <1>21 DEF Next

LEMMA InitHistory ==
  ASSUME Init
  PROVE  HInv /\ ~thrown /\ TextsOf(model) = <<model.text>> /\ model.current = 0
<1>1. PICK length \in 0 .. MaxLength :
        model = [text |-> [i \in 1 .. length |-> i], selection |-> None, composition |-> None,
                 edits |-> <<>>, current |-> 0]
  BY DEF Init
<1>2. PICK text : text = [i \in 1 .. length |-> i]
  OBVIOUS
<1>3. text \in Text
  BY <1>2 DEF Text
<1>4. <<>> \in Seq(EditType) /\ Len(<<>>) = 0
  BY EmptySeq
<1>5. model = [text |-> text, selection |-> None, composition |-> None,
               edits |-> <<>>, current |-> 0]
  BY <1>1, <1>2
<1>6. model \in ModelType
  BY <1>3, <1>4, <1>5, NoComposition DEF ModelType
<1>7. /\ model.text = text /\ model.selection = None /\ model.composition = None
      /\ model.edits = <<>> /\ model.current = 0
  BY <1>5
<1>8. Good(model)
  <2>1. Within(None, Len(text))
    BY <1>3, JoinIsText, NoComposition
  <2>2. QED
    BY <1>4, <1>6, <1>7, <2>1, NoComposition DEF Good
<1>9. OwnText(model) = text
  BY <1>7, NoComposition, OwnTextOfNone DEF HasComposition
<1> DEFINE ts == <<text>>
<1>10. ts \in Seq(Text) /\ Len(ts) = 1 /\ ts[1] = text
  BY <1>3
<1> HIDE DEF ts
<1>11. History(model, ts)
  BY <1>4, <1>7, <1>9, <1>10 DEF History
<1>12. TextsOf(model) = ts
  BY <1>8, <1>11, HistoryIsTextsOf
<1>13. calls \in Nat /\ thrown = FALSE
  BY DEF Init
<1>14. QED
  BY <1>7, <1>8, <1>11, <1>12, <1>13 DEF HInv, ts

LEMMA NextHistory ==
  ASSUME HInv, [Next]_vars
  PROVE  HInv'
<1>1. CASE Next
  <2>1. calls' \in Nat /\ thrown' \in BOOLEAN
    <3>1. calls' = calls + 1 /\ calls \in Nat /\ thrown \in BOOLEAN
      BY <1>1 DEF Next, HInv
    <3>2. UNCHANGED thrown \/ DeleteSelectionAndInsertTextAt
      BY <1>1 DEF Next
    <3>3. CASE DeleteSelectionAndInsertTextAt
      <4>1. thrown' = thrown \/ thrown' = TRUE
        BY <3>3, Zenon DEF DeleteSelectionAndInsertTextAt
      <4>2. CASE thrown' = TRUE
        BY <3>1, <4>2
      <4>3. CASE thrown' = thrown
        BY <3>1, <4>3
      <4>4. QED
        BY <4>1, <4>2, <4>3
    <3>4. QED
      BY <3>1, <3>2, <3>3
  <2>2. CASE thrown'
    BY <1>1, <2>1, <2>2, ThrownGood DEF HInv
  <2>3. CASE ~thrown'
    <3>1. PICK texts : History(model, texts)
      BY <1>1 DEF HInv, Next
    <3>2. Outcome(model, texts, model')
      BY <1>1, <2>3, <3>1, NextOutcome
    <3>3. Good(model') /\ \E ts : History(model', ts)
      BY <3>2 DEF Outcome
    <3>4. QED
      BY <2>1, <3>3 DEF HInv
  <2>4. QED
    BY <2>2, <2>3
<1>2. CASE UNCHANGED vars
  BY <1>2 DEF vars, HInv
<1>3. QED
  BY <1>1, <1>2

\* The invariant: the edits link a row of texts of which the field shows the
\* one at current, and the selection and the composition lie in it.
THEOREM HistoryLinksTexts == Spec => []HInv
<1>1. Init => HInv
  BY InitHistory
<1>2. HInv /\ [Next]_vars => HInv'
  BY NextHistory
<1>3. QED
  BY <1>1, <1>2, PTL DEF Spec

\* Longer texts are beyond the bound of the model.
Fits == Len(model.text) <= MaxLength

LEMMA HistoryTypes ==
  ASSUME HInv, Fits
  PROVE  TypeOK
<1>1. Good(model)
  BY DEF HInv
<1>2. /\ model.text \in Text /\ Len(model.text) \in Nat
      /\ model.selection \in RangeType /\ model.composition \in RangeType
      /\ model.edits \in Seq(EditType) /\ Len(model.edits) \in Nat
      /\ model.current \in Nat /\ model.current <= Len(model.edits)
  BY <1>1, GoodFacts
<1>3. /\ model.selection \in [start : Positions, end : Positions]
      /\ model.composition \in [start : Positions, end : Positions]
  <2>1. Within(model.selection, Len(model.text)) /\ Within(model.composition, Len(model.text))
    BY <1>1 DEF Good
  <2>2. QED
    BY <1>2, <2>1 DEF Within, RangeType, Positions
<1>4. ~IsReversed(model.composition)
  BY <1>1, <1>2 DEF Good, IsReversed, RangeType
<1>5. ASSUME NEW i \in DOMAIN model.edits
      PROVE  /\ model.edits[i].type \in {"insert", "delete", "replace"}
             /\ model.edits[i].merge \in {"not", "mergeable", "with_previous"}
  <2>1. model.edits[i] \in EditType
    BY <1>2, ElementOfSeq, LenProperties
  <2>2. QED
    BY <2>1 DEF EditType, Kinds, MergeTypes
<1>6. QED
  BY <1>2, <1>3, <1>4, <1>5 DEF TypeOK, Fits, HInv

\* The selection and the composition lie in the text, whatever edits were
\* merged, and whatever cursor an edit that is undone or redone brings.
THEOREM TypeOKHolds == Spec => []TypeOK
<1>1. Init => HInv /\ Fits
  <2>1. SUFFICES ASSUME Init
                 PROVE  Fits
    BY InitHistory
  <2>2. PICK length \in 0 .. MaxLength : model.text = [i \in 1 .. length |-> i]
    BY <2>1 DEF Init
  <2>3. Len(model.text) = length
    BY <2>2
  <2>4. MaxLength \in Nat
    BY TextfieldAssumption
  <2>5. QED
    BY <2>3, <2>4 DEF Fits
<1>2. HInv /\ Fits /\ [Next]_vars => HInv' /\ Fits'
  <2>1. Next => Fits'
    BY DEF Next, Bounded, Fits
  <2>2. Fits /\ UNCHANGED vars => Fits'
    BY DEF vars, Fits
  <2>3. QED
    BY <2>1, <2>2, NextHistory
<1>3. HInv /\ Fits => TypeOK
  BY HistoryTypes
<1>4. QED
  BY <1>1, <1>2, <1>3, PTL DEF Spec

\* Whatever is undone or redone finds in the text what it is to take out, in a
\* field of which no call has ended the program.
THEOREM EditsFitHolds == Spec => []EditsFit
<1>1. HInv => EditsFit
  <2>1. SUFFICES ASSUME HInv, ~thrown
                 PROVE  EditsFit
    BY DEF EditsFit
  <2>2. PICK texts : History(model, texts)
    BY <2>1 DEF HInv
  <2>3. Good(model)
    BY <2>1 DEF HInv
  <2>4. TextsOf(model) = texts
    BY <2>2, <2>3, HistoryIsTextsOf
  <2>5. DOMAIN model.edits = 1 .. Len(model.edits)
    BY <2>3, GoodFacts, LenProperties
  <2>6. ASSUME NEW i \in 1 .. Len(model.edits)
        PROVE  /\ Finds(texts[i + 1], model.edits[i].new_start, model.edits[i].new_text)
               /\ Finds(texts[i], model.edits[i].old_start, model.edits[i].old_text)
    BY <2>2, <2>3, HistoryLinks
  <2>7. QED
    BY <2>4, <2>5, <2>6 DEF EditsFit
<1>2. QED
  BY <1>1, HistoryLinksTexts, PTL

LEMMA AgreeIsKept ==
  ASSUME NEW texts \in Seq(Text), NEW ts \in Seq(Text), NEW n \in Nat,
         n <= Len(texts), n <= Len(ts), Agree(texts, ts, n)
  PROVE  SubSeq(ts, 1, n) = SubSeq(texts, 1, n)
<1>1. Len(texts) \in Nat /\ Len(ts) \in Nat
  BY LenProperties
<1>2. n \in 0 .. Len(texts) /\ n \in 0 .. Len(ts)
  BY <1>1
<1> DEFINE f == SubSeq(texts, 1, n)
           g == SubSeq(ts, 1, n)
<1>3. f \in Seq(Text) /\ Len(f) = n /\ \A i \in 1 .. n : f[i] = texts[i]
  BY <1>2, FirstPart
<1>4. g \in Seq(Text) /\ Len(g) = n /\ \A i \in 1 .. n : g[i] = ts[i]
  BY <1>2, FirstPart
<1> HIDE DEF f, g
<1>5. \A i \in 1 .. n : f[i] = g[i]
  BY <1>3, <1>4 DEF Agree
<1>6. f = g
  BY <1>3, <1>4, <1>5, SeqEqual
<1>7. QED
  BY <1>6 DEF f, g

LEMMA StepIsAbstract ==
  ASSUME HInv, Next, ~thrown'
  PROVE  [Abstract!Next]_(Abstract!vars)
<1>1. PICK texts : History(model, texts)
  BY DEF HInv, Next
<1>2. Outcome(model, texts, model')
  BY <1>1, NextOutcome
<1>3. PICK ts : /\ History(model', ts)
                /\ Goes(texts, model.current + 1, ts, model'.current + 1)
  BY <1>2 DEF Outcome
<1>4. Good(model) /\ Good(model')
  BY <1>2 DEF HInv, Outcome
<1>5. TextsOf(model) = texts
  BY <1>1, <1>4, HistoryIsTextsOf
<1>6. TextsOf(model') = ts
  BY <1>3, <1>4, HistoryIsTextsOf
<1>7. PICK a \in Nat, b \in Nat : a = model.current + 1 /\ b = model'.current + 1
  BY <1>4, GoodFacts
<1>8. /\ texts \in Seq(Text) /\ ts \in Seq(Text)
      /\ a <= Len(texts) /\ b <= Len(ts) /\ 1 <= a
  <2>1. /\ model.current \in Nat /\ Len(model.edits) \in Nat
        /\ model.current <= Len(model.edits)
    BY <1>4, GoodFacts
  <2>2. model'.current <= Len(model'.edits) /\ Len(model'.edits) \in Nat /\ model'.current \in Nat
    BY <1>4, GoodFacts
  <2>3. QED
    BY <1>1, <1>3, <1>7, <2>1, <2>2 DEF History
<1>9. CASE b = a /\ ts = texts
  BY <1>5, <1>6, <1>7, <1>9 DEF Abstract!vars
<1>10. CASE b > a /\ Len(ts) = b /\ Agree(texts, ts, a)
  <2>1. SubSeq(ts, 1, a) = SubSeq(texts, 1, a)
    BY <1>8, <1>10, AgreeIsKept
  <2>2. Abstract!Change
    BY <1>5, <1>6, <1>7, <1>10, <2>1 DEF Abstract!Change, Abstract!Kept
  <2>3. QED
    BY <2>2 DEF Abstract!Next
<1>11. CASE a > 1 /\ b = a /\ Len(ts) = a /\ Agree(texts, ts, a - 1)
  <2>1. SubSeq(ts, 1, a - 1) = SubSeq(texts, 1, a - 1)
    BY <1>8, <1>11, AgreeIsKept
  <2>2. Abstract!Merge
    BY <1>5, <1>6, <1>7, <1>11, <2>1 DEF Abstract!Merge, Abstract!Kept
  <2>3. QED
    BY <2>2 DEF Abstract!Next
<1>12. CASE a > 1 /\ b = a - 1 /\ ts = texts
  <2>1. Abstract!Undo
    BY <1>5, <1>6, <1>7, <1>12 DEF Abstract!Undo
  <2>2. QED
    BY <2>1 DEF Abstract!Next
<1>13. CASE a < Len(texts) /\ b = a + 1 /\ ts = texts
  <2>1. Abstract!Redo
    BY <1>5, <1>6, <1>7, <1>13 DEF Abstract!Redo
  <2>2. QED
    BY <2>1 DEF Abstract!Next
<1>14. CASE b = 1 /\ ts = <<texts[a]>>
  <2>1. Abstract!Forget
    BY <1>5, <1>6, <1>7, <1>14 DEF Abstract!Forget
  <2>2. QED
    BY <2>1 DEF Abstract!Next
<1>15. Goes(texts, a, ts, b)
  BY <1>3, <1>7
<1>16. QED
  BY <1>9, <1>10, <1>11, <1>12, <1>13, <1>14, <1>15 DEF Goes

\* Undo and Redo go back and forth among the texts that the field has had, for
\* texts and histories of every length, as long as no drop has thrown.
THEOREM ImplementsUndoHistoryHolds == Spec => ImplementsUndoHistory
<1>1. Init => Abstract!Init
  <2>1. SUFFICES ASSUME Init
                 PROVE  Abstract!Init
    OBVIOUS
  <2>2. TextsOf(model) = <<model.text>> /\ model.current = 0
    BY <2>1, InitHistory
  <2>3. QED
    BY <2>2 DEF Abstract!Init
<1>2. HInv /\ [Next]_vars => [thrown' \/ Abstract!Next]_(Abstract!vars)
  <2>1. UNCHANGED vars => UNCHANGED Abstract!vars
    BY DEF vars, Abstract!vars
  <2>2. QED
    BY <2>1, StepIsAbstract
<1>3. QED
  BY <1>1, <1>2, HistoryLinksTexts, PTL DEF Spec, ImplementsUndoHistory

=============================================================================
