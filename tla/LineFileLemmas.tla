--------------------------- MODULE LineFileLemmas ---------------------------
(***************************************************************************)
(* What the operators of LineFile return and preserve.                     *)
(***************************************************************************)
EXTENDS LineFile, TLAPS

\* An emptied file is a file.
LEMMA EmptyFile == <<>> \in Seq(Lines)
OBVIOUS

\* Lines are numbered from 1.
LEMMA LineNumbers ==
    ASSUME NEW f \in Seq(Lines), NEW i \in DOMAIN f
    PROVE  f[i].id \in Nat /\ f[i].id # 0
<1>1. f[i] \in Lines
  OBVIOUS
<1> QED
  BY <1>1 DEF Lines

\* A pass reads a prefix of the file: lines of the file, at their places.
LEMMA ReadAllPrefix ==
    ASSUME NEW f \in Seq(Lines)
    PROVE  /\ ReadAll(f) \in Seq(Lines)
           /\ DOMAIN ReadAll(f) \subseteq DOMAIN f
           /\ \A i \in DOMAIN ReadAll(f) : ReadAll(f)[i] = f[i]
BY MaxLinesAssumption DEF ReadAll

\* What a pass prints are lines of what it read that are not marked.
LEMMA UnmarkedLines ==
    ASSUME NEW f \in Seq(Lines)
    PROVE  /\ Unmarked(f) \subseteq Nat
           /\ \A n \in Unmarked(f) : \E i \in DOMAIN f : f[i].id = n /\ ~f[i].done
           /\ \A i \in DOMAIN f : f[i].done \/ f[i].id \in Unmarked(f)
<1>1. \A i \in DOMAIN f : f[i].id \in Nat
  BY LineNumbers
<1> QED
  BY <1>1 DEF Unmarked

\* Marking keeps the lines and their order, and leaves none to be shown.
LEMMA MarkedKeepsLines ==
    ASSUME NEW f \in Seq(Lines)
    PROVE  /\ Marked(f) \in Seq(Lines)
           /\ DOMAIN Marked(f) = DOMAIN f
           /\ \A i \in DOMAIN f : Marked(f)[i].id = f[i].id /\ Marked(f)[i].done
<1>1. \A i \in DOMAIN f : f[i] \in Lines
  OBVIOUS
<1>2. \A i \in DOMAIN f : Marked(f)[i] \in Lines
  BY <1>1 DEF Marked, Lines
<1>3. Marked(f) \in Seq(Lines)
  BY <1>2 DEF Marked
<1> QED
  BY <1>1, <1>3 DEF Marked, Lines

\* What is written over a file is a file: each line is a written or an old one.
LEMMA OverwriteLines ==
    ASSUME NEW f \in Seq(Lines), NEW g \in Seq(Lines)
    PROVE  /\ Overwrite(f, g) \in Seq(Lines)
           /\ \A i \in DOMAIN Overwrite(f, g) :
                 \/ i \in DOMAIN g /\ Overwrite(f, g)[i] = g[i]
                 \/ i \in DOMAIN f /\ Overwrite(f, g)[i] = f[i]
           /\ Len(f) = 0 => Overwrite(f, g) = g
<1>1. CASE Len(f) <= Len(g)
  BY <1>1 DEF Overwrite
<1>2. CASE Len(f) > Len(g)
  <2>1. Overwrite(f, g) = g \o SubSeq(f, Len(g) + 1, Len(f))
    BY <1>2 DEF Overwrite
  <2>2. SubSeq(f, Len(g) + 1, Len(f)) \in Seq(Lines)
    OBVIOUS
  <2> DEFINE h == SubSeq(f, Len(g) + 1, Len(f))
  <2>3. \A i \in 1 .. Len(h) : h[i] = f[Len(g) + i]
    OBVIOUS
  <2>4. Len(h) = Len(f) - Len(g)
    BY <1>2
  <2> HIDE DEF h
  <2> DEFINE r == g \o h
  <2>5. r \in Seq(Lines) /\ Len(r) = Len(f)
    BY <2>2, <2>4 DEF h
  <2>6. \A i \in 1 .. Len(f) : r[i] = IF i <= Len(g) THEN g[i] ELSE h[i - Len(g)]
    BY <2>2, <2>4, <2>5 DEF h
  <2>7. \A i \in 1 .. Len(f) : i > Len(g) => h[i - Len(g)] = f[i]
    BY <1>2, <2>3, <2>4
  <2>8. Overwrite(f, g) = r
    BY <2>1 DEF h
  <2> HIDE DEF r
  <2>9. \A i \in 1 .. Len(f) : (i \in 1 .. Len(g) /\ r[i] = g[i]) \/ r[i] = f[i]
    BY <2>6, <2>7
  <2> QED
    BY <1>2, <2>5, <2>8, <2>9
<1> QED
  BY <1>1, <1>2

\* Written into an emptied file, the lines are the whole file.
LEMMA OverwriteEmpty ==
    ASSUME NEW g \in Seq(Lines)
    PROVE  Overwrite(<<>>, g) = g
BY DEF Overwrite

\* With a line at its end it stays a file.
LEMMA AppendType ==
    ASSUME NEW f \in Seq(Lines), NEW l \in Lines
    PROVE  /\ Append(f, l) \in Seq(Lines)
           /\ DOMAIN Append(f, l) = DOMAIN f \cup {Len(f) + 1}
           /\ \A i \in DOMAIN f : Append(f, l)[i] = f[i]
           /\ Append(f, l)[Len(f) + 1] = l
OBVIOUS

\* The producer's line is a line.
LEMMA NewLineType ==
    ASSUME NEW n \in Nat
    PROVE  /\ NewLine(n + 1) \in Lines
           /\ NewLine(n + 1).id = n + 1
           /\ ~NewLine(n + 1).done
BY DEF NewLine, Lines
=============================================================================
