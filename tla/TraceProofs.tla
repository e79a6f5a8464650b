------------------------------ MODULE TraceProofs ------------------------------
(***************************************************************************)
(* What holds of the trace file for any ids, keys, sizes, outcomes of a    *)
(* write or of a rotation, and restarts: what the verification may rely    *)
(* on, what it can tell, and what the next process reads back.  And of     *)
(* the OTLP exporter for queues and batches of any size, any number of     *)
(* attempts and of spans, whatever the collector answers and whenever      *)
(* Close is called: a span is in one place, and counted once.              *)
(***************************************************************************)
EXTENDS TraceChain, OtelExporter, FiniteSetTheorems, SequenceTheorems, WellFoundedInduction, TLAPS

-----------------------------------------------------------------------------
(* Sequences *)

(* Of numbers below a bound one is the least and one the greatest.         *)
LEMMA Extremes ==
  ASSUME NEW n \in Nat, NEW I \in SUBSET (1 .. n), I # {}
  PROVE  /\ Min(I) \in I /\ \A y \in I : Min(I) <= y
         /\ Max(I) \in I /\ \A y \in I : y <= Max(I)
<1>0. I \subseteq Nat
  OBVIOUS
<1>1. \E x \in I : \A y \in I : x <= y
  <2>1. PICK x \in I : \A y \in I : ~ (<<y, x>> \in OpToRel(<, Nat))
    BY <1>0, NatLessThanWellFounded, WFMin
  <2>2. \A y \in I : ~ (y < x)
    BY <1>0, <2>1 DEF OpToRel
  <2> QED
    BY <1>0, <2>2
<1>2. \E x \in I : \A y \in I : x >= y
  <2> DEFINE T == {k \in Nat : n - k \in I}
  <2>1. T \subseteq Nat /\ T # {}
    <3>1. PICK y \in I : TRUE
      OBVIOUS
    <3>2. n - y \in Nat /\ n - (n - y) = y
      OBVIOUS
    <3> QED
      BY <3>1, <3>2
  <2>2. PICK k \in T : \A j \in T : ~ (<<j, k>> \in OpToRel(<, Nat))
    BY <2>1, NatLessThanWellFounded, WFMin
  <2>3. \A j \in T : ~ (j < k)
    BY <2>1, <2>2 DEF OpToRel
  <2>4. ASSUME NEW y \in I PROVE n - k >= y
    <3>1. n - y \in Nat /\ n - (n - y) = y
      OBVIOUS
    <3>2. ~ (n - y < k)
      BY <2>3, <3>1
    <3> QED
      BY <3>1, <3>2
  <2> QED
    BY <2>4
<1> QED
  BY <1>1, <1>2 DEF Min, Max

(* What a sequence is made of.                                             *)
LEMMA SeqFacts ==
  ASSUME NEW ls, IsSeq(ls)
  PROVE  /\ Len(ls) \in Nat /\ DOMAIN ls = 1 .. Len(ls)
         /\ (ls = <<>>) <=> (Len(ls) = 0)
BY DEF IsSeq

(* A sequence of any kind is one of what it is made of.                    *)
LEMMA SeqAgain ==
  ASSUME NEW S, NEW h \in Seq(S)
  PROVE  h \in Seq(ToSet(h))
<1>1. Len(h) \in Nat /\ DOMAIN h = 1 .. Len(h)
  OBVIOUS
<1>2. \A i \in 1 .. Len(h) : h[i] \in ToSet(h)
  BY <1>1 DEF ToSet
<1> QED
  BY <1>1, <1>2

(* One sequence after another.                                             *)
LEMMA Concatenated ==
  ASSUME NEW f, NEW g, IsSeq(f), IsSeq(g)
  PROVE  /\ IsSeq(f \o g) /\ Len(f \o g) = Len(f) + Len(g)
         /\ \A i \in 1 .. Len(f) : (f \o g)[i] = f[i]
         /\ \A i \in 1 .. Len(g) : (f \o g)[Len(f) + i] = g[i]
         /\ f = <<>> => f \o g = g
         /\ g = <<>> => f \o g = f
<1> DEFINE S == ToSet(f) \cup ToSet(g)
<1>1. f \in Seq(S) /\ g \in Seq(S)
  BY DEF IsSeq
<1>2. f \o g \in Seq(S) /\ Len(f \o g) = Len(f) + Len(g)
  BY <1>1
<1>3. \A i \in 1 .. Len(f) + Len(g) : (f \o g)[i] = IF i <= Len(f) THEN f[i] ELSE g[i - Len(f)]
  BY <1>1
<1>4. f \o g \in Seq(ToSet(f \o g))
  BY <1>2, SeqAgain
<1>5. Len(f) \in Nat /\ Len(g) \in Nat
  BY <1>1
<1>6. \A i \in 1 .. Len(g) : (f \o g)[Len(f) + i] = g[i]
  <2> SUFFICES ASSUME NEW i \in 1 .. Len(g) PROVE (f \o g)[Len(f) + i] = g[i]
    OBVIOUS
  <2>1. Len(f) + i \in 1 .. Len(f) + Len(g) /\ ~(Len(f) + i <= Len(f)) /\ Len(f) + i - Len(f) = i
    BY <1>5
  <2> QED
    BY <1>3, <2>1
<1> QED
  BY <1>1, <1>2, <1>3, <1>4, <1>5, <1>6 DEF IsSeq

(* A scanner reads the lines before the first one it cannot take.          *)
LEMMA ScannedIsPrefix ==
  ASSUME NEW ls, IsSeq(ls), NEW T
  PROVE  \E n \in 0 .. Len(ls) :
           /\ IsSeq(Scanned(ls, T)) /\ Len(Scanned(ls, T)) = n
           /\ \A i \in 1 .. n : Scanned(ls, T)[i] = ls[i] /\ ls[i].size \notin T
           /\ n = Len(ls) => Scanned(ls, T) = ls
           /\ n # Len(ls) => ls[n + 1].size \in T
<1>0. PICK m \in Nat : m = Len(ls)
  BY SeqFacts
<1>1. PICK I : I = {i \in 1 .. m : ls[i].size \in T}
  OBVIOUS
<1>2. PICK k : k = IF I = {} THEN 0 ELSE Min(I)
  OBVIOUS
<1>3. Scanned(ls, T) = IF k = 0 THEN ls ELSE SubSeq(ls, 1, k - 1)
  BY <1>0, <1>1, <1>2 DEF Scanned, SelectInSeq
<1>4. ls \in Seq(ToSet(ls))
  BY DEF IsSeq
<1>5. CASE I = {}
  <2>1. k = 0 /\ Scanned(ls, T) = ls /\ m \in 0 .. m
    BY <1>2, <1>3, <1>5
  <2>2. \A i \in 1 .. m : ls[i].size \notin T
    BY <1>1, <1>5
  <2> QED
    BY <1>0, <2>1, <2>2
<1>6. CASE I # {}
  <2>1. I \in SUBSET (1 .. m)
    BY <1>1
  <2>2. k \in I /\ \A y \in I : k <= y
    BY <1>2, <1>6, <2>1, Extremes
  <2>3. k \in 1 .. m /\ ls[k].size \in T
    BY <1>1, <2>2
  <2>4. PICK n \in Nat : k = n + 1 /\ n = k - 1 /\ n \in 0 .. m /\ n # m
    <3>1. k - 1 \in Nat /\ k = (k - 1) + 1 /\ k - 1 \in 0 .. m /\ k - 1 # m
      BY <2>3
    <3> QED
      BY <3>1
  <2>5. \A i \in 1 .. n : i \in 1 .. m /\ ls[i].size \notin T
    BY <1>1, <2>2, <2>4
  <2>6. PICK s : s = SubSeq(ls, 1, n) /\ s = Scanned(ls, T)
    BY <1>3, <2>3, <2>4
  <2>7. \A i \in 1 .. n : ls[i] \in ToSet(ls)
    BY <1>0, <1>4, <2>5
  <2>8. s \in Seq(ToSet(ls)) /\ Len(s) = IF 1 <= n THEN n - 1 + 1 ELSE 0
    BY <2>6, <2>7, SubSeqProperties
  <2>9. Len(s) = n
    BY <2>8
  <2>10. ASSUME NEW i \in 1 .. n PROVE s[i] = ls[i]
    <3>1. s[i] = ls[1 + i - 1] /\ 1 + i - 1 = i
      BY <1>0, <1>4, <2>4, <2>6
    <3> QED
      BY <3>1
  <2>11. IsSeq(s)
    BY <2>8, SeqAgain DEF IsSeq
  <2> QED
    BY <1>0, <2>3, <2>4, <2>5, <2>6, <2>9, <2>10, <2>11
<1> QED
  BY <1>5, <1>6

(* The search for the first chained line of a sequence.                    *)
LEMMA Envelopes ==
  ASSUME NEW ls, Len(ls) \in Nat
  PROVE  FirstEnvelope(ls) \in 0 .. Len(ls)
<1> DEFINE I == {i \in 1 .. Len(ls) : HasEnvelope(ls[i])}
<1>1. FirstEnvelope(ls) = IF I # {} THEN Min(I) ELSE 0
  BY DEF SelectInSeq, FirstEnvelope
<1>2. I \subseteq 1 .. Len(ls)
  OBVIOUS
<1> HIDE DEF I
<1>3. I # {} => Min(I) \in I
  BY <1>2, Extremes
<1>4. I # {} => Min(I) \in 1 .. Len(ls)
  BY <1>2, <1>3
<1> QED
  BY <1>1, <1>4

(* The search for the last one is over the lines a scanner takes.          *)
LEMMA LastOfEnvelopes ==
  ASSUME NEW ls, IsSeq(ls)
  PROVE  /\ LastEnvelope(ls) \in 0 .. Len(ls)
         /\ (\A i \in 1 .. Len(ls) : HasEnvelope(ls[i]) /\ ls[i].size # "huge")
               => LastEnvelope(ls) = Len(ls)
<1>s. PICK s : s = Scanned(ls, {"huge"})
  OBVIOUS
<1>0. PICK n \in 0 .. Len(ls) :
         /\ Len(s) = n
         /\ \A i \in 1 .. n : s[i] = ls[i]
         /\ n # Len(ls) => ls[n + 1].size = "huge"
  BY <1>s, ScannedIsPrefix
<1>m. Len(ls) \in Nat /\ n \in Nat
  BY SeqFacts
<1>1. PICK I : I = {i \in 1 .. n : HasEnvelope(s[i])}
  OBVIOUS
<1>2. LastEnvelope(ls) = IF I # {} THEN Max(I) ELSE 0
  BY <1>s, <1>0, <1>1 DEF SelectLastInSeq, LastEnvelope
<1>3. I # {} => Max(I) \in I /\ \A y \in I : y <= Max(I)
  <2>1. I \in SUBSET (1 .. n)
    BY <1>1
  <2> QED
    BY <1>m, <2>1, Extremes
<1>4. LastEnvelope(ls) \in 0 .. n
  BY <1>1, <1>2, <1>3
<1>5. ASSUME \A i \in 1 .. Len(ls) : HasEnvelope(ls[i]) /\ ls[i].size # "huge"
      PROVE  LastEnvelope(ls) = Len(ls)
  <2>1. n = Len(ls)
    <3>1. n # Len(ls) => n + 1 \in 1 .. Len(ls)
      BY <1>m
    <3> QED
      BY <1>0, <1>5, <3>1
  <2>2. I = 1 .. n
    BY <1>0, <1>1, <1>5, <2>1
  <2>3. CASE n = 0
    BY <1>4, <2>1, <2>3
  <2>4. CASE n # 0
    <3>1. n \in I
      BY <2>2, <2>4
    <3>2. Max(I) \in 1 .. n /\ n <= Max(I)
      BY <1>3, <2>2, <3>1
    <3> QED
      BY <1>2, <2>1, <3>1, <3>2
  <2> QED
    BY <2>3, <2>4
<1> QED
  BY <1>4, <1>5

(* What is under the present key is a tail of the lines.                   *)
LEMMA UnderKeyIsTail ==
  ASSUME NEW ls, IsSeq(ls)
  PROVE  \E k \in 0 .. Len(ls) :
           /\ Len(UnderKey(ls)) = Len(ls) - k
           /\ \A i \in 1 .. Len(ls) - k : UnderKey(ls)[i] = ls[k + i] /\ ls[k + i].key = key
<1>0. Len(ls) \in Nat
  BY SeqFacts
<1> DEFINE I == {i \in 1 .. Len(ls) : ls[i].key # key}
           k == IF I # {} THEN Max(I) ELSE 0
<1>1. UnderKey(ls) = SubSeq(ls, k + 1, Len(ls))
  BY DEF UnderKey, SelectLastInSeq
<1>2. I \subseteq 1 .. Len(ls)
  OBVIOUS
<1>3. I # {} => Max(I) \in I /\ \A y \in I : y <= Max(I)
  <2> HIDE DEF I
  <2> QED
    BY <1>0, <1>2, Extremes
<1>4. k \in 0 .. Len(ls)
  BY <1>0, <1>2, <1>3
<1>5. \A i \in 1 .. Len(ls) : i > k => ls[i].key = key
  BY <1>0, <1>3, <1>4
<1> HIDE DEF I, k
<1>6. ls \in Seq(ToSet(ls))
  BY DEF IsSeq
<1>7. Len(UnderKey(ls)) = Len(ls) - k
  BY <1>0, <1>1, <1>4, <1>6
<1>8. ASSUME NEW i \in 1 .. Len(ls) - k
      PROVE  UnderKey(ls)[i] = ls[k + i] /\ ls[k + i].key = key
  <2>1. k + i \in 1 .. Len(ls) /\ k + i > k
    BY <1>0, <1>4
  <2>2. SubSeq(ls, k + 1, Len(ls))[i] = ls[k + 1 + i - 1]
    BY <1>0, <1>4, <1>6
  <2> QED
    BY <1>1, <1>4, <1>5, <2>1, <2>2
<1> QED
  BY <1>4, <1>7, <1>8

-----------------------------------------------------------------------------
(* The file *)

(* The line appendLocked has sealed, whatever the file made of it.         *)
IsSealed(x) ==
  x.seq = seq + 1 /\ x.prev = prevHash /\ x.hash = sealed + 1 /\ x.run = restarts

(* A write changes nothing or the end of the file, and when it succeeds on *)
(* a file that ends with a whole line it adds one.                         *)
LEMMA WrittenLines ==
  ASSUME NEW f, IsSeq(f), NEW e, NEW o, NEW sz
  PROVE  /\ IsSeq(Written(f, Seal(e, sz), o))
         /\ \/ Written(f, Seal(e, sz), o) = f
            \/ \E n \in 0 .. Len(f) :
                 /\ Len(Written(f, Seal(e, sz), o)) = n + 1
                 /\ \A i \in 1 .. n : Written(f, Seal(e, sz), o)[i] = f[i]
                 /\ IsSealed(Written(f, Seal(e, sz), o)[n + 1])
         /\ o = "written" /\ (f # <<>> => Last(f).form = "whole")
              => /\ Len(Written(f, Seal(e, sz), o)) = Len(f) + 1
                 /\ \A i \in 1 .. Len(f) : Written(f, Seal(e, sz), o)[i] = f[i]
                 /\ IsSealed(Written(f, Seal(e, sz), o)[Len(f) + 1])
                 /\ Written(f, Seal(e, sz), o)[Len(f) + 1].form = "whole"
                 /\ Written(f, Seal(e, sz), o)[Len(f) + 1].size = sz
<1>0. Len(f) \in Nat /\ f \in Seq(ToSet(f)) /\ (f = <<>> <=> Len(f) = 0)
  BY SeqFacts DEF IsSeq
<1> DEFINE form == CASE o = "partial" -> "partial" [] o = "killed" -> "unended" [] OTHER -> "whole"
           open == f # <<>> /\ Last(f).form \in {"partial", "unended"}
           x == [Seal(e, sz) EXCEPT !.form = form]
           y == [Seal(e, sz) EXCEPT !.form = IF form = "partial" THEN "partial" ELSE "merged",
                                    !.size = Longer(Last(f).size, Seal(e, sz).size)]
           W == Written(f, Seal(e, sz), o)
<1>1. IsSealed(x) /\ x.form = form /\ x.size = sz
  BY DEF Seal, IsSealed
<1>2. IsSealed(y)
  BY DEF Seal, IsSealed
<1>3. W = IF o = "lost" THEN f ELSE IF ~open THEN Append(f, x) ELSE Append(Front(f), y)
  BY DEF Written
<1>4. o = "written" => form = "whole"
  OBVIOUS
<1>5. (f # <<>> => Last(f).form = "whole") => ~open
  OBVIOUS
<1> HIDE DEF form, x, y
<1>6. ASSUME NEW z
      PROVE  /\ IsSeq(Append(f, z)) /\ Len(Append(f, z)) = Len(f) + 1
             /\ \A i \in 1 .. Len(f) : Append(f, z)[i] = f[i]
             /\ Append(f, z)[Len(f) + 1] = z
  <2> DEFINE S == ToSet(f) \cup {z}
  <2>1. f \in Seq(S) /\ z \in S
    BY <1>0
  <2> HIDE DEF S
  <2>2. Append(f, z) \in Seq(S)
    BY <2>1
  <2>3. Append(f, z) \in Seq(ToSet(Append(f, z)))
    BY <2>2, SeqAgain
  <2>4. /\ Len(Append(f, z)) = Len(f) + 1 /\ Append(f, z)[Len(f) + 1] = z
        /\ \A i \in 1 .. Len(f) : Append(f, z)[i] = f[i]
    BY <1>0, <2>1
  <2> QED
    BY <2>3, <2>4 DEF IsSeq
<1>7. ASSUME NEW z, open
      PROVE  /\ IsSeq(Append(Front(f), z)) /\ Len(Append(Front(f), z)) = Len(f)
             /\ \A i \in 1 .. Len(f) - 1 : Append(Front(f), z)[i] = f[i]
             /\ Append(Front(f), z)[Len(f)] = z
             /\ Len(f) - 1 \in 0 .. Len(f)
  <2> DEFINE S == ToSet(f) \cup {z}
             g == Front(f)
  <2>0. Len(f) > 0
    BY <1>0, <1>7
  <2>1. f \in Seq(S) /\ z \in S
    BY <1>0
  <2> HIDE DEF S
  <2>2. g \in Seq(S) /\ Len(g) = Len(f) - 1 /\ \A i \in 1 .. Len(f) - 1 : g[i] = f[i]
    <3>1. g = SubSeq(f, 1, Len(f) - 1) /\ Len(f) - 1 \in Nat
      BY <1>0, <2>0 DEF Front
    <3>2. \A i \in 1 .. Len(f) - 1 : f[i] \in S
      BY <1>0, <2>1
    <3>3. g \in Seq(S) /\ Len(g) = IF 1 <= Len(f) - 1 THEN Len(f) - 1 - 1 + 1 ELSE 0
      <4> HIDE DEF g
      <4> QED
        BY <1>0, <3>1, <3>2, SubSeqProperties
    <3>4. Len(g) = Len(f) - 1
      <4> HIDE DEF g
      <4>1. PICK n \in Nat : n = Len(f)
        BY <1>0
      <4>2. n > 0 /\ Len(g) = IF 1 <= n - 1 THEN n - 1 - 1 + 1 ELSE 0
        BY <2>0, <3>3, <4>1
      <4>3. Len(g) = n - 1
        BY <4>2
      <4> QED
        BY <4>1, <4>3
    <3>5. ASSUME NEW i \in 1 .. Len(f) - 1 PROVE g[i] = f[i]
      <4>1. g[i] = f[1 + i - 1] /\ 1 + i - 1 = i
        BY <1>0, <2>1, <3>1
      <4> QED
        BY <4>1
    <3> QED
      BY <3>3, <3>4, <3>5
  <2> HIDE DEF g
  <2>3. /\ Append(g, z) \in Seq(S) /\ Len(Append(g, z)) = Len(f)
        /\ \A i \in 1 .. Len(f) - 1 : Append(g, z)[i] = f[i]
        /\ Append(g, z)[Len(f)] = z
    BY <1>0, <2>0, <2>1, <2>2
  <2>4. IsSeq(Append(g, z))
    BY <2>3, SeqAgain DEF IsSeq
  <2> QED
    BY <1>0, <2>0, <2>3, <2>4 DEF g
<1> HIDE DEF W, open
<1>8. CASE o = "lost"
  BY <1>3, <1>8 DEF W
<1>9. CASE o # "lost" /\ ~open
  <2>1. W = Append(f, x)
    BY <1>3, <1>9
  <2>2. /\ IsSeq(W) /\ Len(W) = Len(f) + 1
        /\ \A i \in 1 .. Len(f) : W[i] = f[i]
        /\ IsSealed(W[Len(f) + 1]) /\ W[Len(f) + 1].form = form /\ W[Len(f) + 1].size = sz
    BY <1>1, <1>6, <2>1
  <2>3. Len(f) \in 0 .. Len(f)
    BY <1>0
  <2> QED
    BY <1>4, <2>2, <2>3 DEF W
<1>10. CASE o # "lost" /\ open
  <2>1. W = Append(Front(f), y)
    BY <1>3, <1>10
  <2>2. /\ IsSeq(W) /\ Len(W) = (Len(f) - 1) + 1
        /\ \A i \in 1 .. Len(f) - 1 : W[i] = f[i]
        /\ IsSealed(W[(Len(f) - 1) + 1])
        /\ Len(f) - 1 \in 0 .. Len(f)
    BY <1>0, <1>2, <1>7, <1>10, <2>1
  <2> QED
    BY <1>5, <1>10, <2>2 DEF W
<1> QED
  BY <1>8, <1>9, <1>10

(* After appendLocked the lines are some of those there were, without what *)
(* was before them when the file was rotated, and the new one, if it got   *)
(* that far.                                                               *)
LEMMA OneMoreLine ==
  ASSUME FilesHold, NEW e, AppendLocked(e)
  PROVE  /\ IsSeq(old') /\ IsSeq(file')
         /\ \E d \in Nat, n \in Nat :
              /\ d + n <= Len(Lines)
              /\ \A i \in 1 .. n : Lines'[i] = Lines[d + i]
              /\ \/ Len(Lines') = n
                 \/ Len(Lines') = n + 1 /\ IsSealed(Lines'[n + 1])
              /\ ~mishap' /\ HeadHolds
                   => /\ d + n = Len(Lines)
                      /\ Len(Lines') = n + 1 /\ IsSealed(Lines'[n + 1])
                      /\ Lines'[n + 1].form = "whole" /\ Lines'[n + 1].size # "huge"
                      /\ ~mishap /\ ~stuck' /\ created'
<1>1. PICK o \in WriteOutcomes, r \in RotateOutcomes, sz \in Sizes :
        LET f == IF stuck THEN file ELSE Written(file, Seal(e, sz), o)
            size == IF stuck THEN fileSize ELSE fileSize + (IF o = "lost" THEN 1 ELSE Space(sz))
        IN /\ up' = (stuck \/ o # "killed")
           /\ mishap' = \/ mishap \/ stuck \/ o # "written" \/ sz = "huge"
                        \/ up' /\ size >= LinesPerFile /\ r # "rotated"
           /\ IF up' /\ size >= LinesPerFile
              THEN Rotate(f, r)
              ELSE /\ file' = f /\ fileSize' = size
                   /\ stuck' = (stuck \/ o \in {"lost", "partial"})
                   /\ UNCHANGED <<old, created>>
  BY DEF AppendLocked
<1> DEFINE f == IF stuck THEN file ELSE Written(file, Seal(e, sz), o)
           m == IF f = file THEN Len(file) ELSE Len(f) - 1
<1>0. IsSeq(old) /\ IsSeq(file) /\ Len(old) \in Nat /\ Len(file) \in Nat
  BY SeqFacts DEF FilesHold
<1>2. /\ IsSeq(f)
      /\ m \in 0 .. Len(file) /\ \A i \in 1 .. m : f[i] = file[i]
      /\ \/ Len(f) = m
         \/ Len(f) = m + 1 /\ IsSealed(f[m + 1])
  BY <1>0, WrittenLines
<1>3. ASSUME ~mishap', HeadHolds
      PROVE  /\ m = Len(file) /\ Len(f) = m + 1 /\ IsSealed(f[m + 1])
             /\ f[m + 1].form = "whole" /\ f[m + 1].size # "huge"
             /\ ~mishap /\ ~stuck /\ created /\ ~stuck' /\ created'
  <2>1. ~mishap /\ ~stuck /\ o = "written" /\ sz # "huge"
    BY <1>1, <1>3
  <2>2. created /\ \A i \in 1 .. Len(Lines) : Lines[i].form = "whole"
    BY <1>3, <2>1 DEF HeadHolds
  <2>3. file # <<>> => Last(file).form = "whole"
    <3> SUFFICES ASSUME file # <<>> PROVE file[Len(file)].form = "whole"
      BY DEF Last
    <3>1. Len(file) \in 1 .. Len(file) /\ Len(old) + Len(file) \in 1 .. Len(old) + Len(file)
      BY <1>0, SeqFacts
    <3> QED
      BY <1>0, <2>2, <3>1, Concatenated DEF Lines
  <2>4. /\ Len(f) = Len(file) + 1
        /\ IsSealed(f[Len(file) + 1])
        /\ f[Len(file) + 1].form = "whole" /\ f[Len(file) + 1].size = sz
    BY <1>0, <2>1, <2>3, WrittenLines
  <2>5. m = Len(file)
    BY <1>0, <2>4
  <2>6. ~stuck' /\ created'
    BY <1>1, <1>3, <2>1, <2>2 DEF Rotate
  <2> QED
    BY <2>1, <2>2, <2>4, <2>5, <2>6
<1>4. \/ old' = old /\ file' = f
      \/ old' = f /\ file' = <<>>
      \/ old' = <<>> /\ file' = f
  BY <1>1 DEF Rotate
<1> HIDE DEF f, m
<1>e. IsSeq(<<>>)
  BY DEF IsSeq
<1>5. CASE old' = old /\ file' = f
  <2>1. Lines' = old \o f
    BY <1>5 DEF Lines
  <2>2. /\ Len(Lines) = Len(old) + Len(file)
        /\ Len(Lines') = Len(old) + Len(f)
    BY <1>0, <1>2, <2>1, Concatenated DEF Lines
  <2>3. ASSUME NEW i \in 1 .. Len(old) + m PROVE Lines'[i] = Lines[0 + i]
    <3>1. CASE i \in 1 .. Len(old)
      BY <1>0, <1>2, <2>1, <3>1, Concatenated DEF Lines
    <3>2. CASE i \notin 1 .. Len(old)
      <4>1. PICK j \in 1 .. m : i = Len(old) + j
        <5>1. i - Len(old) \in 1 .. m /\ i = Len(old) + (i - Len(old))
          BY <1>0, <1>2, <3>2
        <5> QED
          BY <5>1
      <4>2. j \in 1 .. Len(file) /\ j \in 1 .. Len(f) /\ f[j] = file[j]
        BY <1>0, <1>2
      <4>3. Lines'[i] = f[j] /\ Lines[i] = file[j]
        BY <1>0, <1>2, <2>1, <4>1, <4>2, Concatenated DEF Lines
      <4> QED
        BY <4>2, <4>3
    <3> QED
      BY <3>1, <3>2
  <2>4. ASSUME Len(f) = m + 1 PROVE Lines'[Len(old) + m + 1] = f[m + 1]
    <3>1. m + 1 \in 1 .. Len(f) /\ Len(old) + m + 1 = Len(old) + (m + 1)
      BY <1>0, <1>2, <2>4
    <3> QED
      BY <1>0, <1>2, <2>1, <3>1, Concatenated
  <2>5. Len(old) + m \in Nat /\ 0 + (Len(old) + m) <= Len(Lines)
    BY <1>0, <1>2, <2>2
  <2>7. \/ Len(Lines') = Len(old) + m
        \/ Len(Lines') = Len(old) + m + 1 /\ IsSealed(Lines'[Len(old) + m + 1])
    <3>1. CASE Len(f) = m
      BY <2>2, <3>1
    <3>2. CASE Len(f) = m + 1 /\ IsSealed(f[m + 1])
      BY <1>0, <1>2, <2>2, <2>4, <3>2
    <3> QED
      BY <1>2, <3>1, <3>2
  <2>8. ASSUME ~mishap', HeadHolds
        PROVE  /\ 0 + (Len(old) + m) = Len(Lines)
               /\ Len(Lines') = Len(old) + m + 1 /\ IsSealed(Lines'[Len(old) + m + 1])
               /\ Lines'[Len(old) + m + 1].form = "whole" /\ Lines'[Len(old) + m + 1].size # "huge"
               /\ ~mishap /\ ~stuck' /\ created'
    BY <1>0, <1>2, <1>3, <2>2, <2>4, <2>8
  <2>9. IsSeq(old') /\ IsSeq(file')
    BY <1>0, <1>2, <1>5
  <2> QED
    BY <2>3, <2>5, <2>7, <2>8, <2>9
<1>6. CASE (old' = f /\ file' = <<>>) \/ (old' = <<>> /\ file' = f)
  <2>1. Lines' = f
    BY <1>2, <1>6, <1>e, Concatenated DEF Lines
  <2>2. Len(Lines) = Len(old) + Len(file)
    BY <1>0, Concatenated DEF Lines
  <2>3. ASSUME NEW i \in 1 .. m PROVE Lines'[i] = Lines[Len(old) + i]
    <3>1. i \in 1 .. Len(file) /\ f[i] = file[i]
      BY <1>0, <1>2
    <3> QED
      BY <1>0, <2>1, <3>1, Concatenated DEF Lines
  <2>4. m \in Nat /\ Len(old) + m <= Len(Lines)
    BY <1>0, <1>2, <2>2
  <2>5. \/ Len(Lines') = m
        \/ Len(Lines') = m + 1 /\ IsSealed(Lines'[m + 1])
    BY <1>2, <2>1
  <2>6. ASSUME ~mishap', HeadHolds
        PROVE  /\ Len(old) + m = Len(Lines)
               /\ Len(Lines') = m + 1 /\ IsSealed(Lines'[m + 1])
               /\ Lines'[m + 1].form = "whole" /\ Lines'[m + 1].size # "huge"
               /\ ~mishap /\ ~stuck' /\ created'
    BY <1>0, <1>3, <2>1, <2>2, <2>6
  <2>7. IsSeq(old') /\ IsSeq(file')
    BY <1>2, <1>6, <1>e
  <2> QED
    BY <1>0, <2>3, <2>4, <2>5, <2>6, <2>7
<1> QED
  BY <1>4, <1>5, <1>6

-----------------------------------------------------------------------------
(* The inductive invariant *)

(* The store seals a line, restarts, or does nothing to the files.         *)
LEMMA StepKinds ==
  ASSUME [Next]_vars
  PROVE  \/ \E e : AppendLocked(e) /\ UNCHANGED <<key, restarts>>
         \/ Restart
         \/ UNCHANGED <<key, restarts, fileVars>>
<1>1. ASSUME NEW t \in TraceId, Record(t)
      PROVE  \E e : AppendLocked(e) /\ UNCHANGED <<key, restarts>>
  BY <1>1 DEF Record
<1>2. ASSUME NEW c \in DOMAIN calls, Update(c)
      PROVE  \E e : AppendLocked(e) /\ UNCHANGED <<key, restarts>>
  BY <1>2 DEF Update
<1>3. CASE Stop \/ UNCHANGED vars
  BY <1>3 DEF Stop, vars, storeVars, fileVars
<1> QED
  BY <1>1, <1>2, <1>3 DEF Next

(* An empty file holds nothing that could be wrong.                        *)
LEMMA TraceInitHolds == Init => ChainIInv
<1> SUFFICES ASSUME Init PROVE ChainIInv
  OBVIOUS
<1>1. IsSeq(<<>>)
  BY DEF IsSeq
<1>2. Lines = <<>> /\ Len(Lines) = 0
  BY <1>1, Concatenated DEF Init, Lines
<1>3. FilesHold
  <2>1. IsSeq(old) /\ IsSeq(file)
    BY <1>1 DEF Init
  <2>2. seq \in Nat /\ prevHash \in Nat /\ sealed \in Nat /\ restarts \in Nat
    BY DEF Init
  <2>3. stuck \in BOOLEAN /\ created \in BOOLEAN /\ mishap \in BOOLEAN
    BY DEF Init
  <2> QED
    BY <1>2, <2>1, <2>2, <2>3 DEF FilesHold
<1>4. RunsHold
  BY <1>2 DEF RunsHold
<1>5. HeadHolds
  BY <1>2 DEF Init, HeadHolds
<1> QED
  BY <1>3, <1>4, <1>5 DEF ChainIInv

(* What a restart resumes from is a line of the files, and the last one    *)
(* when all of them are whole.                                             *)
LEMMA ResumedHead ==
  ASSUME FilesHold, HeadHolds, Restart
  PROVE  /\ seq' \in Nat /\ prevHash' \in Nat
         /\ ~mishap => seq' = seq /\ prevHash' = prevHash
<1>0. /\ IsSeq(old) /\ IsSeq(file) /\ Len(old) \in Nat /\ Len(file) \in Nat
      /\ (file = <<>> <=> Len(file) = 0) /\ (old = <<>> <=> Len(old) = 0)
  BY SeqFacts DEF FilesHold
<1>l. /\ Len(Lines) = Len(old) + Len(file)
      /\ \A i \in 1 .. Len(old) : old[i] = Lines[i]
      /\ \A i \in 1 .. Len(file) : file[i] = Lines[Len(old) + i]
      /\ IsSeq(Lines) /\ (Lines = <<>> <=> Len(Lines) = 0)
  BY <1>0, Concatenated, SeqFacts DEF Lines
<1> DEFINE i == LastEnvelope(file)
           j == LastEnvelope(old)
<1>1. i \in 0 .. Len(file) /\ j \in 0 .. Len(old)
  BY <1>0, LastOfEnvelopes
<1>2. IF i # 0 THEN seq' = file[i].seq /\ prevHash' = file[i].hash
      ELSE IF j # 0 THEN seq' = old[j].seq /\ prevHash' = old[j].hash
      ELSE seq' = 0 /\ prevHash' = 0
  BY DEF Restart
<1>3. ~mishap => i = Len(file) /\ j = Len(old)
  <2> SUFFICES ASSUME ~mishap PROVE i = Len(file) /\ j = Len(old)
    OBVIOUS
  <2>1. \A k \in 1 .. Len(Lines) : HasEnvelope(Lines[k]) /\ Lines[k].size # "huge"
    BY DEF HeadHolds, HasEnvelope
  <2>2. \A k \in 1 .. Len(old) : HasEnvelope(old[k]) /\ old[k].size # "huge"
    BY <1>0, <1>l, <2>1
  <2>3. \A k \in 1 .. Len(file) : HasEnvelope(file[k]) /\ file[k].size # "huge"
    <3> SUFFICES ASSUME NEW k \in 1 .. Len(file) PROVE HasEnvelope(file[k]) /\ file[k].size # "huge"
      OBVIOUS
    <3>1. Len(old) + k \in 1 .. Len(Lines)
      BY <1>0, <1>l
    <3> QED
      BY <1>l, <2>1, <3>1
  <2> QED
    BY <1>0, <2>2, <2>3, LastOfEnvelopes
<1> HIDE DEF i, j
<1>4. CASE i # 0
  <2>1. i \in 1 .. Len(file) /\ Len(old) + i \in 1 .. Len(Lines)
    BY <1>0, <1>1, <1>l, <1>4
  <2>2. seq' = Lines[Len(old) + i].seq /\ prevHash' = Lines[Len(old) + i].hash
    BY <1>2, <1>4, <1>l, <2>1
  <2>3. seq' \in Nat /\ prevHash' \in Nat
    BY <2>1, <2>2 DEF FilesHold
  <2>4. ~mishap => Len(old) + i = Len(Lines) /\ Lines # <<>>
    BY <1>0, <1>l, <1>3, <2>1
  <2> QED
    BY <2>2, <2>3, <2>4 DEF HeadHolds, Last
<1>5. CASE i = 0 /\ j # 0
  <2>1. j \in 1 .. Len(old) /\ j \in 1 .. Len(Lines)
    BY <1>0, <1>1, <1>l, <1>5
  <2>2. seq' = Lines[j].seq /\ prevHash' = Lines[j].hash
    BY <1>2, <1>5, <1>l, <2>1
  <2>3. seq' \in Nat /\ prevHash' \in Nat
    BY <2>1, <2>2 DEF FilesHold
  <2>4. ~mishap => j = Len(Lines) /\ Lines # <<>>
    BY <1>0, <1>l, <1>3, <1>5, <2>1
  <2> QED
    BY <2>2, <2>3, <2>4 DEF HeadHolds, Last
<1>6. CASE i = 0 /\ j = 0
  <2>1. seq' = 0 /\ prevHash' = 0
    BY <1>2, <1>6
  <2>2. ~mishap => Lines = <<>>
    BY <1>0, <1>l, <1>3, <1>6
  <2> QED
    BY <2>1, <2>2 DEF HeadHolds
<1> QED
  BY <1>4, <1>5, <1>6

(* Sealing a line keeps the invariant: it takes the head's place.          *)
LEMMA AppendStep ==
  ASSUME ChainIInv, NEW e, AppendLocked(e), restarts' = restarts
  PROVE  ChainIInv'
<1>0. FilesHold /\ RunsHold /\ HeadHolds
  BY DEF ChainIInv
<1>1. IsSeq(old') /\ IsSeq(file')
  BY <1>0, OneMoreLine
<1>2. PICK d \in Nat, n \in Nat :
         /\ d + n <= Len(Lines)
         /\ \A i \in 1 .. n : Lines'[i] = Lines[d + i]
         /\ \/ Len(Lines') = n
            \/ Len(Lines') = n + 1 /\ IsSealed(Lines'[n + 1])
         /\ ~mishap' /\ HeadHolds
              => /\ d + n = Len(Lines)
                 /\ Len(Lines') = n + 1 /\ IsSealed(Lines'[n + 1])
                 /\ Lines'[n + 1].form = "whole" /\ Lines'[n + 1].size # "huge"
                 /\ ~mishap /\ ~stuck' /\ created'
  BY <1>0, OneMoreLine
<1>3. seq' = seq + 1 /\ prevHash' = sealed + 1 /\ sealed' = sealed + 1
  BY DEF AppendLocked
<1>l. IsSeq(Lines) /\ Len(Lines) \in Nat /\ (Lines = <<>> <=> Len(Lines) = 0)
  <2>1. IsSeq(Lines)
    BY <1>0, Concatenated DEF FilesHold, Lines
  <2> QED
    BY <2>1, SeqFacts
<1>m. IsSeq(Lines') /\ (Lines' = <<>> <=> Len(Lines') = 0)
  <2>1. IsSeq(Lines')
    BY <1>1, Concatenated DEF Lines
  <2> QED
    BY <2>1, SeqFacts
<1>t. /\ seq \in Nat /\ prevHash \in Nat /\ sealed \in Nat /\ restarts \in Nat
      /\ stuck \in BOOLEAN /\ created \in BOOLEAN /\ mishap \in BOOLEAN
  BY <1>0 DEF FilesHold
<1>4. ASSUME NEW i \in 1 .. Len(Lines')  \* a line that was there, or the new one
      PROVE  \/ i \in 1 .. n /\ d + i \in 1 .. Len(Lines) /\ Lines'[i] = Lines[d + i]
             \/ i = n + 1 /\ IsSealed(Lines'[i])
  BY <1>l, <1>2
<1>5. FilesHold'
  <2>1. \A i \in 1 .. Len(Lines') :
          /\ {Lines'[i].seq, Lines'[i].prev, Lines'[i].hash} \subseteq Nat
          /\ Lines'[i].run \in 0 .. restarts'
    BY <1>0, <1>t, <1>4 DEF FilesHold, IsSealed
  <2>2. seq' \in Nat /\ prevHash' \in Nat /\ sealed' \in Nat /\ restarts' \in Nat
    BY <1>3, <1>t
  <2>3. stuck' \in BOOLEAN /\ created' \in BOOLEAN /\ mishap' \in BOOLEAN
    BY <1>t DEF AppendLocked, Rotate
  <2> QED
    BY <1>1, <2>1, <2>2, <2>3 DEF FilesHold
<1>6. RunsHold'
  <2>1. prevHash' = sealed'
    BY <1>3
  <2>2. ASSUME NEW i \in 2 .. Len(Lines'), Lines'[i].run = Lines'[i-1].run
        PROVE  Lines'[i].hash = Lines'[i].prev + 1
    <3>0. i \in 1 .. Len(Lines') /\ i - 1 \in 1 .. Len(Lines') /\ i - 1 # n + 1 /\ i - 1 \in 1 .. n
      BY <1>2
    <3>1. /\ d + (i - 1) \in 1 .. Len(Lines)
          /\ Lines'[i-1] = Lines[d + (i - 1)]
      BY <1>4, <3>0
    <3>2. CASE i \in 1 .. n
      <4>1. /\ d + i \in 2 .. Len(Lines) /\ d + i - 1 = d + (i - 1)
            /\ Lines'[i] = Lines[d + i]
        <5>1. d \in Nat /\ i \in 2 .. n
          BY <1>2, <3>2
        <5>2. d + i \in 1 .. Len(Lines) /\ Lines'[i] = Lines[d + i]
          BY <1>4, <3>0, <5>1
        <5> QED
          BY <1>l, <5>1, <5>2
      <4> QED
        BY <1>0, <2>2, <3>1, <4>1 DEF RunsHold
    <3>3. CASE i = n + 1
      <4>1. IsSealed(Lines'[i])
        BY <1>4, <3>0, <3>3
      <4>2. Lines[d + (i - 1)].run = restarts
        BY <2>2, <3>1, <4>1 DEF IsSealed
      <4>3. prevHash = sealed
        BY <1>0, <3>1, <4>2 DEF RunsHold
      <4> QED
        BY <1>t, <4>1, <4>3 DEF IsSealed
    <3> QED
      BY <1>4, <3>0, <3>2, <3>3
  <2> QED
    BY <2>1, <2>2 DEF RunsHold
<1>7. HeadHolds'
  <2> SUFFICES ASSUME ~mishap' PROVE
        /\ ~stuck' /\ created'
        /\ \A i \in 1 .. Len(Lines') : Lines'[i].form = "whole" /\ Lines'[i].size # "huge"
        /\ \A i \in 2 .. Len(Lines') : /\ Lines'[i].seq = Lines'[i-1].seq + 1
                                      /\ Lines'[i].prev = Lines'[i-1].hash
        /\ IF Lines' = <<>> THEN seq' = 0 /\ prevHash' = 0
           ELSE seq' = Last(Lines').seq /\ prevHash' = Last(Lines').hash
    BY DEF HeadHolds
  <2>1. /\ d + n = Len(Lines)
        /\ Len(Lines') = n + 1 /\ IsSealed(Lines'[n + 1])
        /\ Lines'[n + 1].form = "whole" /\ Lines'[n + 1].size # "huge"
        /\ ~mishap /\ ~stuck' /\ created'
    BY <1>0, <1>2
  <2>2. /\ \A i \in 1 .. Len(Lines) : Lines[i].form = "whole" /\ Lines[i].size # "huge"
        /\ \A i \in 2 .. Len(Lines) : /\ Lines[i].seq = Lines[i-1].seq + 1
                                      /\ Lines[i].prev = Lines[i-1].hash
        /\ Lines # <<>> => seq = Last(Lines).seq /\ prevHash = Last(Lines).hash
    BY <1>0, <2>1 DEF HeadHolds
  <2>3. \A i \in 1 .. Len(Lines') : Lines'[i].form = "whole" /\ Lines'[i].size # "huge"
    BY <1>4, <2>1, <2>2
  <2>4. ASSUME NEW i \in 2 .. Len(Lines')
        PROVE  Lines'[i].seq = Lines'[i-1].seq + 1 /\ Lines'[i].prev = Lines'[i-1].hash
    <3>0. i \in 1 .. Len(Lines') /\ i - 1 \in 1 .. n
      BY <2>1
    <3>1. Lines'[i-1] = Lines[d + (i - 1)]
      BY <1>2, <3>0
    <3>2. CASE i \in 1 .. n
      <4>1. /\ d + i \in 2 .. Len(Lines) /\ d + i - 1 = d + (i - 1)
            /\ Lines'[i] = Lines[d + i]
        <5>1. d \in Nat /\ i \in 2 .. n
          BY <1>2, <3>2
        <5>2. d + i \in 1 .. Len(Lines) /\ Lines'[i] = Lines[d + i]
          BY <1>4, <3>0, <5>1
        <5> QED
          BY <1>l, <5>1, <5>2
      <4> QED
        BY <2>2, <3>1, <4>1
    <3>3. CASE i = n + 1
      <4>1. d + (i - 1) = Len(Lines) /\ Lines # <<>>
        BY <1>l, <2>1, <3>0, <3>3
      <4>2. seq = Lines[d + (i - 1)].seq /\ prevHash = Lines[d + (i - 1)].hash
        BY <2>2, <4>1 DEF Last
      <4> QED
        BY <2>1, <3>1, <3>3, <4>2 DEF IsSealed
    <3> QED
      BY <2>1, <3>0, <3>2, <3>3
  <2>5. seq' = Last(Lines').seq /\ prevHash' = Last(Lines').hash /\ Lines' # <<>>
    BY <1>3, <1>m, <2>1 DEF Last, IsSealed
  <2> QED
    BY <2>1, <2>3, <2>4, <2>5
<1> QED
  BY <1>5, <1>6, <1>7 DEF ChainIInv

(* A restart resumes the chain and seals nothing.                          *)
LEMMA RestartStep ==
  ASSUME ChainIInv, Restart
  PROVE  ChainIInv'
<1>0. FilesHold /\ RunsHold /\ HeadHolds
  BY DEF ChainIInv
<1>1. /\ restarts' = restarts + 1 /\ stuck' = FALSE /\ created' = TRUE
      /\ UNCHANGED <<file, old, sealed, mishap>>
  BY DEF Restart
<1>2. Lines' = Lines
  BY <1>1 DEF Lines
<1>3. /\ seq' \in Nat /\ prevHash' \in Nat
      /\ ~mishap => seq' = seq /\ prevHash' = prevHash
  BY <1>0, ResumedHead
<1>4. ASSUME NEW i \in 1 .. Len(Lines)
      PROVE  Lines[i].run \in 0 .. restarts' /\ Lines[i].run # restarts'
  BY <1>0, <1>1 DEF FilesHold
<1>5. restarts' \in Nat
  BY <1>0, <1>1 DEF FilesHold
<1>6. FilesHold'
  BY <1>0, <1>1, <1>2, <1>3, <1>4, <1>5 DEF FilesHold
<1>7. RunsHold'
  BY <1>0, <1>2, <1>4 DEF RunsHold
<1>8. HeadHolds'
  BY <1>0, <1>1, <1>2, <1>3 DEF HeadHolds
<1> QED
  BY <1>6, <1>7, <1>8 DEF ChainIInv

(* The invariant of every reachable state of the store: a run seals its    *)
(* lines in order, and as long as every write went through and no line is  *)
(* over 16 MiB the head is the last line of the files, across rotations    *)
(* and restarts.                                                           *)
THEOREM ChainInductive == Spec => []ChainIInv
<1>1. ChainIInv /\ [Next]_vars => ChainIInv'
  <2> SUFFICES ASSUME ChainIInv, [Next]_vars PROVE ChainIInv'
    OBVIOUS
  <2>1. ASSUME UNCHANGED <<key, restarts, fileVars>> PROVE ChainIInv'
    BY <2>1 DEF fileVars, ChainIInv, FilesHold, RunsHold, HeadHolds, Lines
  <2>2. ASSUME NEW e, AppendLocked(e), UNCHANGED <<key, restarts>> PROVE ChainIInv'
    BY <2>2, AppendStep
  <2> QED
    BY <2>1, <2>2, StepKinds, RestartStep
<1> QED
  BY <1>1, TraceInitHolds, PTL DEF Spec

-----------------------------------------------------------------------------
(* What the verification may rely on, and what it can tell *)

(* Under the invariant the verification has nothing to object to, as long  *)
(* as every write went through.                                            *)
LEMMA NothingToReport ==
  ASSUME ChainIInv
  PROVE  ChainVerifies
<1> SUFFICES ASSUME ~mishap PROVE Verifies(UnderKey(Lines), key)
  BY DEF ChainVerifies
<1>1. IsSeq(Lines) /\ Len(Lines) \in Nat
  <2>1. IsSeq(Lines)
    BY Concatenated DEF ChainIInv, FilesHold, Lines
  <2> QED
    BY <2>1, SeqFacts
<1>2. /\ \A i \in 1 .. Len(Lines) : Lines[i].form = "whole" /\ Lines[i].size # "huge"
      /\ \A i \in 2 .. Len(Lines) : /\ Lines[i].seq = Lines[i-1].seq + 1
                                    /\ Lines[i].prev = Lines[i-1].hash
  BY DEF ChainIInv, HeadHolds
<1>3. PICK k \in 0 .. Len(Lines) :
         /\ Len(UnderKey(Lines)) = Len(Lines) - k
         /\ \A i \in 1 .. Len(Lines) - k : /\ UnderKey(Lines)[i] = Lines[k + i]
                                           /\ Lines[k + i].key = key
  BY <1>1, UnderKeyIsTail
<1> DEFINE ls == UnderKey(Lines)
           start == FirstEnvelope(ls)
<1>4. Len(ls) \in Nat /\ start \in 0 .. Len(ls)
  BY <1>1, <1>3, Envelopes
<1>5. ASSUME start # 0, NEW i \in start .. Len(ls)
      PROVE  /\ HasEnvelope(ls[i]) /\ ls[i].size # "huge" /\ HashHolds(ls[i], key)
             /\ i > start => ls[i].seq = ls[i-1].seq + 1 /\ ls[i].prev = ls[i-1].hash
  <2> HIDE DEF ls, start
  <2>0. Len(ls) = Len(Lines) - k
    BY <1>3 DEF ls
  <2>1. i \in 1 .. Len(Lines) - k /\ k + i \in 1 .. Len(Lines)
    BY <1>1, <1>4, <1>5, <2>0
  <2>2. ls[i] = Lines[k + i] /\ ls[i].key = key
    BY <1>3, <2>1 DEF ls
  <2>3. HasEnvelope(ls[i]) /\ ls[i].size # "huge" /\ HashHolds(ls[i], key)
    BY <1>2, <2>1, <2>2 DEF HasEnvelope, HashHolds, Parses
  <2>4. ASSUME i > start
        PROVE  ls[i].seq = ls[i-1].seq + 1 /\ ls[i].prev = ls[i-1].hash
    <3>1. /\ i - 1 \in 1 .. Len(Lines) - k /\ k + i \in 2 .. Len(Lines)
          /\ k + i - 1 = k + (i - 1)
      BY <1>1, <1>4, <1>5, <2>0, <2>4
    <3>2. ls[i-1] = Lines[k + i - 1]
      BY <1>3, <3>1 DEF ls
    <3> QED
      BY <1>2, <2>2, <3>1, <3>2
  <2> QED
    BY <2>3, <2>4
<1> QED
  BY <1>5 DEF Verifies

(* For any sizes, ids and number of restarts, under any sequence of keys:  *)
(* GET /traces/verify on .old and the current file finds no break in what  *)
(* the store wrote under its key, as long as every write and rotation went *)
(* through and no line is over 16 MiB (Store.VerifyChain, rotate,          *)
(* NewPersistentStore).                                                    *)
THEOREM ChainVerifiesAlways == Spec => []ChainVerifies
BY ChainInductive, NothingToReport, PTL

(* Under the invariant a chain without a break hides no lost line.         *)
LEMMA NothingHidden ==
  ASSUME ChainIInv
  PROVE  LossIsDetected
<1> DEFINE ls == UnderKey(Lines)
           start == FirstEnvelope(ls)
<1>1. IsSeq(Lines) /\ Len(Lines) \in Nat
  <2>1. IsSeq(Lines)
    BY Concatenated DEF ChainIInv, FilesHold, Lines
  <2> QED
    BY <2>1, SeqFacts
<1>2. \A i \in 2 .. Len(Lines) :
         Lines[i].run = Lines[i-1].run => Lines[i].hash = Lines[i].prev + 1
  BY DEF ChainIInv, RunsHold
<1>3. PICK k \in 0 .. Len(Lines) :
         /\ Len(UnderKey(Lines)) = Len(Lines) - k
         /\ \A i \in 1 .. Len(Lines) - k : /\ UnderKey(Lines)[i] = Lines[k + i]
                                           /\ Lines[k + i].key = key
  BY <1>1, UnderKeyIsTail
<1>4. Len(ls) \in Nat /\ start \in 0 .. Len(ls)
  BY <1>1, <1>3, Envelopes
<1>5. ASSUME start # 0, Verifies(ls, key), NEW i \in start .. Len(ls)
      PROVE  /\ Parses(ls[i])
             /\ i > start /\ ls[i].run = ls[i-1].run => ls[i].hash = ls[i-1].hash + 1
  <2>1. /\ HashHolds(ls[i], key)
        /\ i > start => ls[i].prev = ls[i-1].hash
    BY <1>5 DEF Verifies
  <2> HIDE DEF ls, start
  <2>2. Len(ls) = Len(Lines) - k
    BY <1>3 DEF ls
  <2>3. ASSUME i > start, ls[i].run = ls[i-1].run
        PROVE  ls[i].hash = ls[i-1].hash + 1
    <3>1. /\ i \in 1 .. Len(Lines) - k /\ i - 1 \in 1 .. Len(Lines) - k
          /\ k + i \in 2 .. Len(Lines) /\ k + i - 1 = k + (i - 1)
      BY <1>1, <1>4, <1>5, <2>2, <2>3
    <3>2. ls[i] = Lines[k + i] /\ ls[i-1] = Lines[k + i - 1]
      BY <1>3, <3>1 DEF ls
    <3>3. ls[i].hash = ls[i].prev + 1
      BY <1>2, <2>3, <3>1, <3>2
    <3> QED
      BY <2>1, <2>3, <3>3
  <2> QED
    BY <2>1, <2>3 DEF HashHolds
<1> QED
  BY <1>5 DEF LossIsDetected

(* Whatever becomes of the writes: when GET /traces/verify finds no break, *)
(* every line from the first chained one on is intact and follows the very *)
(* line its process sealed before it (appendLocked, verifyReader).         *)
THEOREM LossIsDetectedAlways == Spec => []LossIsDetected
BY ChainInductive, NothingHidden, PTL

-----------------------------------------------------------------------------
(* Folding the lines *)

(* The function behind Fold, over the sets of the indices 1 to n: the      *)
(* greatest is folded in last.                                             *)
IsFold(h, ls, n) ==
  h = [s \in SUBSET (1 .. n) |-> IF s = {} THEN <<>> ELSE FoldIn(h[s \ {Max(s)}], ls[Max(s)])]

(* Where there is such a function, Fold reads its value at all the lines. *)
LEMMA FoldIsThatFunction ==
  ASSUME NEW ls, NEW n, DOMAIN ls = 1 .. n
  PROVE  Fold(ls) = (CHOOSE h : IsFold(h, ls, n))[1 .. n]
<1>1. Fold(ls) = (CHOOSE h : h = [s \in SUBSET DOMAIN ls |->
                    IF s = {} THEN <<>> ELSE FoldIn(h[s \ {Max(s)}], ls[Max(s)])])[DOMAIN ls]
  BY DEF Fold, FoldLeft, MapThenFoldSet
<1> QED
  BY <1>1 DEF IsFold

(* There is one, for any number of lines: the one for a line less takes    *)
(* that line in.                                                           *)
LEMMA FoldExists ==
  ASSUME NEW ls, NEW n \in Nat
  PROVE  \E h : IsFold(h, ls, n)
<1> DEFINE None == {m \in Nat : ~ \E h : IsFold(h, ls, m)}
<1>1. 0 \notin None
  <2>1. PICK h : h = [s \in SUBSET (1 .. 0) |-> <<>>]
    OBVIOUS
  <2>2. h = [s \in SUBSET (1 .. 0) |-> IF s = {} THEN <<>> ELSE FoldIn(h[s \ {Max(s)}], ls[Max(s)])]
    <3>1. 1 .. 0 = {}
      OBVIOUS
    <3>2. \A s \in SUBSET (1 .. 0) : s = {}
      BY <3>1
    <3> QED
      BY <2>1, <3>2
  <2> QED
    BY <2>2 DEF IsFold
<1>2. ASSUME NEW m \in Nat, m \notin None
      PROVE  m + 1 \notin None
  <2>1. PICK g : IsFold(g, ls, m)
    BY <1>2
  <2>2. PICK h : h = [s \in SUBSET (1 .. m + 1) |->
                        IF m + 1 \in s THEN FoldIn(g[s \ {m + 1}], ls[m + 1]) ELSE g[s]]
    OBVIOUS
  <2>3. \A s \in SUBSET (1 .. m) : g[s] = IF s = {} THEN <<>> ELSE FoldIn(g[s \ {Max(s)}], ls[Max(s)])
    BY <2>1 DEF IsFold
  <2>4. \A s \in SUBSET (1 .. m) : s \in SUBSET (1 .. m + 1) /\ m + 1 \notin s /\ h[s] = g[s]
    BY <2>2
  <2>5. ASSUME NEW s \in SUBSET (1 .. m + 1)
        PROVE  h[s] = IF s = {} THEN <<>> ELSE FoldIn(h[s \ {Max(s)}], ls[Max(s)])
    <3>1. CASE m + 1 \in s
      <4>1. Max(s) = m + 1
        <5>1. PICK k \in Nat : k = m + 1
          OBVIOUS
        <5>2. s \in SUBSET (1 .. k) /\ s # {} /\ k \in s
          BY <3>1, <5>1
        <5>3. Max(s) \in s /\ \A y \in s : y <= Max(s)
          BY <5>2, Extremes
        <5>4. Max(s) \in 1 .. k /\ k <= Max(s)
          BY <5>2, <5>3
        <5> QED
          BY <5>1, <5>4
      <4>2. s \ {m + 1} \in SUBSET (1 .. m)
        OBVIOUS
      <4>3. h[s \ {m + 1}] = g[s \ {m + 1}]
        BY <2>4, <4>2
      <4>4. h[s] = FoldIn(g[s \ {m + 1}], ls[m + 1])
        BY <2>2, <3>1
      <4> QED
        BY <3>1, <4>1, <4>3, <4>4
    <3>2. CASE m + 1 \notin s
      <4>0. \A x \in s : x \in 1 .. m
        <5>1. \A x \in s : x \in 1 .. m + 1 /\ x # m + 1
          BY <3>2
        <5> QED
          BY <5>1
      <4>1. s \in SUBSET (1 .. m) /\ s \ {Max(s)} \in SUBSET (1 .. m)
        BY <4>0
      <4>2. h[s] = g[s] /\ h[s \ {Max(s)}] = g[s \ {Max(s)}]
        BY <2>4, <4>1
      <4>3. g[s] = IF s = {} THEN <<>> ELSE FoldIn(g[s \ {Max(s)}], ls[Max(s)])
        BY <2>3, <4>1
      <4> QED
        BY <4>2, <4>3
    <3> QED
      BY <3>1, <3>2
  <2>6. h = [s \in SUBSET (1 .. m + 1) |-> IF s = {} THEN <<>> ELSE FoldIn(h[s \ {Max(s)}], ls[Max(s)])]
    BY <2>2, <2>5
  <2>7. IsFold(h, ls, m + 1)
    BY <2>6 DEF IsFold
  <2> QED
    BY <2>7
<1>3. None = {}
  <2> SUFFICES ASSUME None # {} PROVE FALSE
    OBVIOUS
  <2>1. None \subseteq Nat
    OBVIOUS
  <2> HIDE DEF None
  <2>2. PICK m \in None : \A k \in None : ~ (<<k, m>> \in OpToRel(<, Nat))
    BY <2>1, NatLessThanWellFounded, WFMin
  <2>3. \A k \in None : ~ (k < m)
    BY <2>1, <2>2 DEF OpToRel
  <2>4. m # 0 /\ m - 1 \in Nat /\ m - 1 \notin None /\ (m - 1) + 1 = m
    BY <1>1, <2>1, <2>3
  <2> QED
    BY <1>2, <2>4
<1> QED
  BY <1>3

(* What IsFold says of the sets 1 to j. *)
LEMMA FoldOfPrefix ==
  ASSUME NEW ls, NEW n \in Nat, NEW h, IsFold(h, ls, n), NEW j \in Nat, j <= n
  PROVE  /\ h[1 .. 0] = <<>>
         /\ j # 0 => h[1 .. j] = FoldIn(h[1 .. j - 1], ls[j])
<1>1. \A s \in SUBSET (1 .. n) : h[s] = IF s = {} THEN <<>> ELSE FoldIn(h[s \ {Max(s)}], ls[Max(s)])
  BY DEF IsFold
<1>2. h[1 .. 0] = <<>>
  <2>1. 1 .. 0 = {} /\ 1 .. 0 \in SUBSET (1 .. n)
    OBVIOUS
  <2> QED
    BY <1>1, <2>1
<1>3. ASSUME j # 0
      PROVE  h[1 .. j] = FoldIn(h[1 .. j - 1], ls[j])
  <2>1. 1 .. j \in SUBSET (1 .. n) /\ j \in 1 .. j
    BY <1>3
  <2>2. PICK I : I = 1 .. j
    OBVIOUS
  <2>3. I \in SUBSET (1 .. j) /\ I # {} /\ j \in I
    BY <2>1, <2>2
  <2>4. Max(I) \in I /\ \A y \in I : y <= Max(I)
    BY <2>3, Extremes
  <2>5. Max(I) \in 1 .. j /\ j <= Max(I)
    BY <2>2, <2>3, <2>4
  <2>6. Max(I) = j
    BY <2>5
  <2>7. I \ {j} = 1 .. j - 1
    BY <2>2
  <2>8. h[I] = FoldIn(h[I \ {Max(I)}], ls[Max(I)])
    BY <1>1, <2>1, <2>2, <2>3
  <2> QED
    BY <2>2, <2>6, <2>7, <2>8
<1> QED
  BY <1>2, <1>3

(* No lines hold no entries. *)
LEMMA FoldOfNothing == Fold(<<>>) = <<>>
<1>1. DOMAIN <<>> = 1 .. 0
  OBVIOUS
<1>2. PICK h : h = CHOOSE g : IsFold(g, <<>>, 0)
  OBVIOUS
<1>3. IsFold(h, <<>>, 0)
  BY <1>2, FoldExists
<1>4. h[1 .. 0] = <<>>
  BY <1>3, FoldOfPrefix
<1> QED
  BY <1>1, <1>2, <1>4, FoldIsThatFunction

(* Reading one line more folds it into what the lines before it gave.      *)
LEMMA FoldOneMore ==
  ASSUME NEW ls, IsSeq(ls), NEW l
  PROVE  Fold(Append(ls, l)) = FoldIn(Fold(ls), l)
<1>0. PICK n \in Nat : n = Len(ls)
  BY SeqFacts
<1> DEFINE S == ToSet(ls) \cup {l}
<1>1. ls \in Seq(S) /\ l \in S
  BY DEF IsSeq
<1> HIDE DEF S
<1>2. PICK ms : ms = Append(ls, l)
  OBVIOUS
<1>3. DOMAIN ls = 1 .. n /\ DOMAIN ms = 1 .. n + 1 /\ ms[n + 1] = l /\ \A i \in 1 .. n : ms[i] = ls[i]
  BY <1>0, <1>1, <1>2
<1>4. PICK g : g = CHOOSE h : IsFold(h, ls, n)
  OBVIOUS
<1>5. PICK h : h = CHOOSE f : IsFold(f, ms, n + 1)
  OBVIOUS
<1>6. IsFold(g, ls, n) /\ IsFold(h, ms, n + 1)
  BY <1>4, <1>5, FoldExists
<1> DEFINE Differ == {j \in Nat : j <= n /\ h[1 .. j] # g[1 .. j]}
<1>7. Differ = {}
  <2> SUFFICES ASSUME Differ # {} PROVE FALSE
    OBVIOUS
  <2>1. Differ \subseteq Nat
    OBVIOUS
  <2>2. PICK j \in Differ : \A k \in Differ : ~ (<<k, j>> \in OpToRel(<, Nat))
    <3> HIDE DEF Differ
    <3> QED
      BY <2>1, NatLessThanWellFounded, WFMin
  <2>3. \A k \in Differ : ~ (k < j)
    BY <2>1, <2>2 DEF OpToRel
  <2>4. j \in Nat /\ j <= n /\ h[1 .. j] # g[1 .. j]
    OBVIOUS
  <2>5. h[1 .. 0] = <<>> /\ g[1 .. 0] = <<>>
    <3>1. 0 <= n + 1 /\ n + 1 \in Nat /\ 0 <= n
      OBVIOUS
    <3>2. h[1 .. 0] = <<>>
      BY <1>6, <3>1, FoldOfPrefix
    <3>3. g[1 .. 0] = <<>>
      BY <1>6, <3>1, FoldOfPrefix
    <3> QED
      BY <3>2, <3>3
  <2>6. j # 0
    BY <2>4, <2>5
  <2>7. j - 1 \in Nat /\ j - 1 <= n /\ j - 1 < j /\ j <= n + 1 /\ n + 1 \in Nat /\ j \in 1 .. n
    BY <2>4, <2>6
  <2>8. h[1 .. j - 1] = g[1 .. j - 1]
    BY <2>3, <2>7
  <2>9. h[1 .. j] = FoldIn(h[1 .. j - 1], ms[j])
    BY <1>6, <2>4, <2>6, <2>7, FoldOfPrefix
  <2>10. g[1 .. j] = FoldIn(g[1 .. j - 1], ls[j])
    <3> HIDE DEF Differ
    <3> QED
      BY <1>6, <2>4, <2>6, FoldOfPrefix
  <2> QED
    BY <1>3, <2>4, <2>7, <2>8, <2>9, <2>10
<1>8. h[1 .. n] = g[1 .. n]
  BY <1>7
<1>9. h[1 .. n + 1] = FoldIn(h[1 .. n], l)
  <2>1. n + 1 \in Nat /\ n + 1 <= n + 1 /\ n + 1 # 0 /\ (n + 1) - 1 = n
    OBVIOUS
  <2>2. h[1 .. n + 1] = FoldIn(h[1 .. (n + 1) - 1], ms[n + 1])
    BY <1>6, <2>1, FoldOfPrefix
  <2> QED
    BY <1>3, <2>1, <2>2
<1>10. Fold(ls) = g[1 .. n] /\ Fold(ms) = h[1 .. n + 1]
  BY <1>3, <1>4, <1>5, FoldIsThatFunction
<1> QED
  BY <1>2, <1>8, <1>9, <1>10

-----------------------------------------------------------------------------
(* Lists of entries *)

(* One more at the end, or another in the place of one. *)
LEMMA OneAppended ==
  ASSUME NEW es, IsSeq(es), NEW e
  PROVE  /\ IsSeq(Append(es, e)) /\ Len(Append(es, e)) = Len(es) + 1
         /\ DOMAIN Append(es, e) = 1 .. Len(es) + 1
         /\ \A i \in 1 .. Len(es) : Append(es, e)[i] = es[i]
         /\ Append(es, e)[Len(es) + 1] = e
<1> DEFINE S == ToSet(es) \cup {e}
<1>1. es \in Seq(S) /\ e \in S
  BY DEF IsSeq
<1> HIDE DEF S
<1>2. Append(es, e) \in Seq(S)
  BY <1>1
<1>3. Append(es, e) \in Seq(ToSet(Append(es, e)))
  BY <1>2, SeqAgain
<1>4. /\ Len(Append(es, e)) = Len(es) + 1 /\ Append(es, e)[Len(es) + 1] = e
      /\ DOMAIN Append(es, e) = 1 .. Len(es) + 1
      /\ \A i \in 1 .. Len(es) : Append(es, e)[i] = es[i]
  BY <1>1
<1> QED
  BY <1>3, <1>4 DEF IsSeq

(* Replacing one leaves the others where they are. *)
LEMMA OneReplaced ==
  ASSUME NEW es, IsSeq(es), NEW i \in 1 .. Len(es), NEW e
  PROVE  /\ IsSeq([es EXCEPT ![i] = e]) /\ Len([es EXCEPT ![i] = e]) = Len(es)
         /\ DOMAIN [es EXCEPT ![i] = e] = 1 .. Len(es)
         /\ \A j \in 1 .. Len(es) : j # i => [es EXCEPT ![i] = e][j] = es[j]
         /\ [es EXCEPT ![i] = e][i] = e
<1> DEFINE S == ToSet(es) \cup {e}
<1>1. es \in Seq(S) /\ e \in S
  BY DEF IsSeq
<1> HIDE DEF S
<1>2. [es EXCEPT ![i] = e] \in Seq(S)
  BY <1>1
<1>3. [es EXCEPT ![i] = e] \in Seq(ToSet([es EXCEPT ![i] = e]))
  BY <1>2, SeqAgain
<1>4. /\ Len([es EXCEPT ![i] = e]) = Len(es) /\ [es EXCEPT ![i] = e][i] = e
      /\ DOMAIN [es EXCEPT ![i] = e] = 1 .. Len(es)
      /\ \A j \in 1 .. Len(es) : j # i => [es EXCEPT ![i] = e][j] = es[j]
  BY <1>1
<1> QED
  BY <1>3, <1>4 DEF IsSeq

(* Two sequences with the same elements are the same.                      *)
LEMMA SameSequence ==
  ASSUME NEW es, NEW fs, IsSeq(es), IsSeq(fs), Len(es) = Len(fs),
         \A i \in 1 .. Len(es) : es[i] = fs[i]
  PROVE  es = fs
<1> DEFINE S == ToSet(es) \cup ToSet(fs)
<1>1. es \in Seq(S) /\ fs \in Seq(S)
  BY DEF IsSeq
<1> HIDE DEF S
<1> QED
  BY <1>1

(* The newest entries are a tail: all of them, or as many as memory holds. *)
IsTail(ns, es, d) ==
  /\ d \in Nat /\ d <= Len(es) /\ IsSeq(ns) /\ Len(ns) = Len(es) - d
  /\ \A i \in 1 .. Len(es) - d : ns[i] = es[d + i]

Dropped(es) == IF Len(es) > MaxEntries THEN Len(es) - MaxEntries ELSE 0

(* The newest MaxEntries are what is left after dropping from the front. *)
LEMMA NewestIsTail ==
  ASSUME NEW es, IsSeq(es)
  PROVE  IsTail(Newest(es), es, Dropped(es))
<1>0. MaxEntries \in Nat \ {0}
  BY TraceConstants
<1>1. PICK n \in Nat : n = Len(es)
  BY SeqFacts
<1>2. PICK d : d = Dropped(es)
  OBVIOUS
<1>3. d \in Nat /\ d <= n /\ (n > MaxEntries => d + 1 = n - MaxEntries + 1) /\ (n <= MaxEntries => d + 1 = 1)
  BY <1>0, <1>1, <1>2 DEF Dropped
<1>4. Newest(es) = SubSeq(es, d + 1, n)
  <2>1. CASE n > MaxEntries
    <3>1. Newest(es) = SubSeq(es, Len(es) - MaxEntries + 1, Len(es))
      BY <1>1, <2>1 DEF Newest
    <3>2. Len(es) - MaxEntries + 1 = d + 1
      BY <1>1, <1>3, <2>1
    <3> QED
      BY <1>1, <3>1, <3>2
  <2>2. CASE ~(n > MaxEntries)
    <3>1. Newest(es) = SubSeq(es, 1, Len(es))
      BY <1>1, <2>2 DEF Newest
    <3>2. d + 1 = 1
      BY <1>0, <1>1, <1>3, <2>2
    <3> QED
      BY <1>1, <3>1, <3>2
  <2> QED
    BY <2>1, <2>2
<1>5. es \in Seq(ToSet(es))
  BY DEF IsSeq
<1>6. PICK ns : ns = Newest(es)
  OBVIOUS
<1>7. ns \in Seq(ToSet(es)) /\ Len(ns) = n - d
  <2>1. \A i \in d + 1 .. n : es[i] \in ToSet(es)
    BY <1>1, <1>3, <1>5
  <2>2. ns \in Seq(ToSet(es)) /\ Len(ns) = IF d + 1 <= n THEN n - (d + 1) + 1 ELSE 0
    BY <1>1, <1>3, <1>4, <1>5, <1>6, <2>1, SubSeqProperties
  <2> QED
    BY <1>3, <2>2
<1>8. ASSUME NEW i \in 1 .. n - d PROVE ns[i] = es[d + i]
  <2>1. d + 1 + i - 1 = d + i
    BY <1>3
  <2>2. SubSeq(es, d + 1, n)[i] = es[d + 1 + i - 1]
    BY <1>1, <1>3, <1>5
  <2> QED
    BY <1>4, <1>6, <2>1, <2>2
<1>9. IsSeq(ns)
  BY <1>7, SeqAgain DEF IsSeq
<1> QED
  BY <1>1, <1>2, <1>3, <1>6, <1>7, <1>8, <1>9 DEF IsTail

(* Reading a line more, memory evicts what it evicted when it recorded it. *)
LEMMA NewestOfAppended ==
  ASSUME NEW fs, IsSeq(fs), NEW e
  PROVE  Newest(Append(Newest(fs), e)) = Newest(Append(fs, e))
<1>0. MaxEntries \in Nat \ {0}
  BY TraceConstants
<1>1. PICK n \in Nat : n = Len(fs)
  BY SeqFacts
<1>2. PICK ns, d : ns = Newest(fs) /\ d = Dropped(fs)
  OBVIOUS
<1>3. IsTail(ns, fs, d)
  BY <1>2, NewestIsTail
<1>4. PICK xs, ys : xs = Append(ns, e) /\ ys = Append(fs, e)
  OBVIOUS
<1>5. PICK m \in Nat : m = n - d /\ Len(ns) = m /\ d \in Nat
  <2>1. d \in Nat /\ d <= n /\ Len(ns) = n - d
    BY <1>1, <1>3 DEF IsTail
  <2>2. n - d \in Nat
    BY <2>1
  <2> QED
    BY <2>1, <2>2
<1>6. /\ IsSeq(xs) /\ Len(xs) = m + 1 /\ xs[m + 1] = e /\ \A i \in 1 .. m : xs[i] = ns[i]
      /\ IsSeq(ys) /\ Len(ys) = n + 1 /\ ys[n + 1] = e /\ \A i \in 1 .. n : ys[i] = fs[i]
  <2>1. IsSeq(ns)
    BY <1>3 DEF IsTail
  <2> QED
    BY <1>1, <1>4, <1>5, <2>1, OneAppended
<1>7. PICK da, db : da = Dropped(xs) /\ db = Dropped(ys)
  OBVIOUS
<1>8. IsTail(Newest(xs), xs, da) /\ IsTail(Newest(ys), ys, db)
  BY <1>6, <1>7, NewestIsTail
<1>9. db = d + da /\ da \in Nat /\ da <= m + 1
  <2>1. d = IF n > MaxEntries THEN n - MaxEntries ELSE 0
    BY <1>1, <1>2 DEF Dropped
  <2>2. da = IF m + 1 > MaxEntries THEN m + 1 - MaxEntries ELSE 0
    <3>1. da = Dropped(xs) /\ Len(xs) = m + 1
      BY <1>6, <1>7
    <3>2. CASE m + 1 > MaxEntries
      <4>1. Dropped(xs) = Len(xs) - MaxEntries
        BY <3>1, <3>2 DEF Dropped
      <4> QED
        BY <1>0, <3>1, <3>2, <4>1
    <3>3. CASE ~(m + 1 > MaxEntries)
      BY <3>1, <3>3 DEF Dropped
    <3> QED
      BY <3>2, <3>3
  <2>3. db = IF n + 1 > MaxEntries THEN n + 1 - MaxEntries ELSE 0
    <3>1. db = Dropped(ys) /\ Len(ys) = n + 1
      BY <1>6, <1>7
    <3>2. CASE n + 1 > MaxEntries
      <4>1. Dropped(ys) = Len(ys) - MaxEntries
        BY <3>1, <3>2 DEF Dropped
      <4> QED
        BY <1>0, <3>1, <3>2, <4>1
    <3>3. CASE ~(n + 1 > MaxEntries)
      BY <3>1, <3>3 DEF Dropped
    <3> QED
      BY <3>2, <3>3
  <2>4. CASE n > MaxEntries
    BY <1>0, <1>5, <2>1, <2>2, <2>3, <2>4
  <2>5. CASE n = MaxEntries
    BY <1>0, <1>5, <2>1, <2>2, <2>3, <2>5
  <2>6. CASE n < MaxEntries
    BY <1>0, <1>5, <2>1, <2>2, <2>3, <2>6
  <2> QED
    BY <1>0, <2>4, <2>5, <2>6
<1>10. PICK k \in Nat : k = m + 1 - da /\ Len(Newest(xs)) = k /\ Len(Newest(ys)) = k
  BY <1>5, <1>6, <1>8, <1>9 DEF IsTail
<1>11. ASSUME NEW i \in 1 .. k PROVE Newest(xs)[i] = Newest(ys)[i]
  <2>1. Newest(xs)[i] = xs[da + i]
    BY <1>6, <1>8, <1>10 DEF IsTail
  <2>2. i \in 1 .. Len(ys) - db
    BY <1>5, <1>6, <1>9, <1>10
  <2>3. Newest(ys)[i] = ys[db + i]
    BY <1>8, <2>2 DEF IsTail
  <2>4. CASE da + i <= m
    <3>1. da + i \in 1 .. m /\ db + i \in 1 .. n /\ d + (da + i) = db + i
      BY <1>5, <1>9, <2>4
    <3>2. xs[da + i] = ns[da + i] /\ ys[db + i] = fs[db + i]
      BY <1>6, <3>1
    <3>3. ns[da + i] = fs[d + (da + i)]
      BY <1>1, <1>3, <1>5, <3>1 DEF IsTail
    <3> QED
      BY <2>1, <2>3, <3>1, <3>2, <3>3
  <2>5. CASE ~(da + i <= m)
    <3>1. da + i = m + 1 /\ db + i = n + 1
      BY <1>5, <1>9, <1>10, <2>5
    <3> QED
      BY <1>6, <2>1, <2>3, <3>1
  <2> QED
    BY <1>9, <2>4, <2>5
<1>12. IsSeq(Newest(xs)) /\ IsSeq(Newest(ys))
  BY <1>8 DEF IsTail
<1> QED
  BY <1>2, <1>4, <1>10, <1>11, <1>12, SameSequence

Replaced(s, k, e) == [s EXCEPT ![k] = e]

(* What it leaves and what it puts in. *)
LEMMA ReplacedOne ==
  ASSUME NEW s, IsSeq(s), NEW k \in 1 .. Len(s), NEW e
  PROVE  /\ IsSeq(Replaced(s, k, e)) /\ Len(Replaced(s, k, e)) = Len(s)
         /\ Replaced(s, k, e)[k] = e
         /\ \A j \in 1 .. Len(s) : j # k => Replaced(s, k, e)[j] = s[j]
<1> DEFINE r == [s EXCEPT ![k] = e]
<1>1. IsSeq(r) /\ Len(r) = Len(s) /\ r[k] = e /\ \A j \in 1 .. Len(s) : j # k => r[j] = s[j]
  BY OneReplaced
<1>2. Replaced(s, k, e) = r
  BY DEF Replaced
<1> HIDE DEF r
<1> QED
  BY <1>1, <1>2

(* So does replacing one of those it kept.                                 *)
LEMMA NewestOfReplaced ==
  ASSUME NEW fs, IsSeq(fs), NEW i \in 1 .. Len(Newest(fs)), NEW e, NEW k, k = Dropped(fs) + i
  PROVE  Newest(Replaced(fs, k, e)) = Replaced(Newest(fs), i, e)
<1> SUFFICES Newest([fs EXCEPT ![k] = e]) = [Newest(fs) EXCEPT ![i] = e]
  BY DEF Replaced
<1>1. PICK n \in Nat : n = Len(fs)
  BY SeqFacts
<1>2. PICK ns, d : ns = Newest(fs) /\ d = Dropped(fs)
  OBVIOUS
<1>3. IsTail(ns, fs, d)
  BY <1>2, NewestIsTail
<1>4. PICK m \in Nat : m = n - d /\ Len(ns) = m /\ d \in Nat
  <2>1. d \in Nat /\ d <= n /\ Len(ns) = n - d
    BY <1>1, <1>3 DEF IsTail
  <2>2. n - d \in Nat
    BY <2>1
  <2> QED
    BY <2>1, <2>2
<1>5. i \in 1 .. m /\ k \in 1 .. n /\ k = d + i
  BY <1>2, <1>4
<1>6. PICK xs, ys : xs = [ns EXCEPT ![i] = e] /\ ys = [fs EXCEPT ![k] = e]
  OBVIOUS
<1>7. /\ IsSeq(xs) /\ Len(xs) = m /\ xs[i] = e /\ \A j \in 1 .. m : j # i => xs[j] = ns[j]
      /\ IsSeq(ys) /\ Len(ys) = n /\ ys[k] = e /\ \A j \in 1 .. n : j # k => ys[j] = fs[j]
  <2>1. IsSeq(ns) /\ i \in 1 .. Len(ns) /\ k \in 1 .. Len(fs)
    BY <1>1, <1>3, <1>4, <1>5 DEF IsTail
  <2>2. /\ IsSeq(xs) /\ Len(xs) = Len(ns) /\ xs[i] = e
        /\ \A j \in 1 .. Len(ns) : j # i => xs[j] = ns[j]
    <3>1. xs = Replaced(ns, i, e)
      BY <1>6 DEF Replaced
    <3> QED
      BY <2>1, <3>1, ReplacedOne
  <2>3. /\ IsSeq(ys) /\ Len(ys) = Len(fs) /\ ys[k] = e
        /\ \A j \in 1 .. Len(fs) : j # k => ys[j] = fs[j]
    <3>1. ys = Replaced(fs, k, e)
      BY <1>6 DEF Replaced
    <3> QED
      BY <2>1, <3>1, ReplacedOne
  <2> QED
    BY <1>1, <1>4, <2>2, <2>3
<1>8. Dropped(ys) = d
  BY <1>1, <1>2, <1>7 DEF Dropped
<1>9. IsTail(Newest(ys), ys, d)
  BY <1>7, <1>8, NewestIsTail
<1>10. ASSUME NEW j \in 1 .. m PROVE xs[j] = Newest(ys)[j]
  <2>1. Newest(ys)[j] = ys[d + j]
    BY <1>4, <1>7, <1>9 DEF IsTail
  <2>2. CASE j = i
    BY <1>5, <1>7, <2>1, <2>2
  <2>3. CASE j # i
    <3>1. d + j \in 1 .. n /\ d + j # k
      BY <1>4, <1>5, <2>3
    <3>2. xs[j] = ns[j] /\ ys[d + j] = fs[d + j]
      BY <1>7, <2>3, <3>1
    <3>3. ns[j] = fs[d + j]
      BY <1>1, <1>3, <1>4 DEF IsTail
    <3> QED
      BY <2>1, <3>2, <3>3
  <2> QED
    BY <2>2, <2>3
<1>11. IsSeq(Newest(ys)) /\ Len(Newest(ys)) = m
  BY <1>4, <1>7, <1>9 DEF IsTail
<1> QED
  BY <1>2, <1>6, <1>7, <1>10, <1>11, SameSequence

-----------------------------------------------------------------------------
(* One entry per call *)

EachOf(cs, es) ==
  /\ IsSeq(es)
  /\ \A i \in DOMAIN es :
       /\ IsEntry(es[i]) /\ es[i].rev \in Nat /\ es[i].call \in DOMAIN cs
       /\ es[i].tid = cs[es[i].call]
       /\ \A j \in DOMAIN es : es[i].call = es[j].call => i = j

LatestOf(es, t) == SelectLastInSeq(es, LAMBDA e : e.tid = t)

(* The search for the latest entry of a trace id. *)
LEMMA LatestIsLatest ==
  ASSUME NEW es, IsSeq(es), NEW t
  PROVE  /\ LatestOf(es, t) = 0 \/ (IsLatest(es, LatestOf(es, t)) /\ es[LatestOf(es, t)].tid = t)
         /\ LatestOf(es, t) = 0 => \A i \in DOMAIN es : es[i].tid # t
<1>1. PICK n \in Nat : n = Len(es) /\ DOMAIN es = 1 .. n
  BY SeqFacts
<1>2. PICK I : I = {i \in 1 .. n : es[i].tid = t}
  OBVIOUS
<1>3. LatestOf(es, t) = IF I # {} THEN Max(I) ELSE 0
  BY <1>1, <1>2 DEF LatestOf, SelectLastInSeq
<1>4. CASE I = {}
  BY <1>1, <1>2, <1>3, <1>4
<1>5. CASE I # {}
  <2>1. I \in SUBSET (1 .. n)
    BY <1>2
  <2>2. PICK m : m = Max(I) /\ m \in I /\ \A y \in I : y <= m
    BY <1>5, <2>1, Extremes
  <2>3. m \in 1 .. n /\ es[m].tid = t /\ LatestOf(es, t) = m /\ m # 0
    BY <1>2, <1>3, <1>5, <2>2
  <2>4. \A j \in DOMAIN es : es[j].tid = es[m].tid => j <= m
    BY <1>1, <1>2, <2>2, <2>3
  <2> QED
    BY <1>1, <2>3, <2>4 DEF IsLatest
<1> QED
  BY <1>4, <1>5

(* A call recorded has an entry of its own. *)
LEMMA RecordedIsNew ==
  ASSUME NEW cs, IsSeq(cs), NEW es, EachOf(cs, es), NEW t, NEW e,
         IsEntry(e), e.rev = 0, e.call = Len(cs) + 1, e.tid = t
  PROVE  EachOf(Append(cs, t), Append(es, e))
<1>1. PICK m \in Nat : m = Len(cs) /\ DOMAIN cs = 1 .. m
  BY SeqFacts
<1>2. PICK n \in Nat : n = Len(es) /\ DOMAIN es = 1 .. n
  BY SeqFacts DEF EachOf
<1>3. PICK ds, fs : ds = Append(cs, t) /\ fs = Append(es, e)
  OBVIOUS
<1>4. DOMAIN ds = 1 .. m + 1 /\ ds[m + 1] = t /\ \A i \in 1 .. m : ds[i] = cs[i]
  BY <1>1, <1>3, OneAppended
<1>5. IsSeq(fs) /\ DOMAIN fs = 1 .. n + 1 /\ fs[n + 1] = e /\ \A i \in 1 .. n : fs[i] = es[i]
  BY <1>2, <1>3, OneAppended DEF EachOf
<1>6. \A i \in 1 .. n : /\ IsEntry(es[i]) /\ es[i].rev \in Nat /\ es[i].call \in 1 .. m /\ es[i].tid = cs[es[i].call]
                         /\ \A j \in 1 .. n : es[i].call = es[j].call => i = j
  BY <1>1, <1>2 DEF EachOf
<1>7. ASSUME NEW i \in 1 .. n + 1
      PROVE  /\ IsEntry(fs[i]) /\ fs[i].rev \in Nat /\ fs[i].call \in 1 .. m + 1 /\ fs[i].tid = ds[fs[i].call]
             /\ \A j \in 1 .. n + 1 : fs[i].call = fs[j].call => i = j
  <2>1. CASE i = n + 1
    <3>1. fs[i] = e /\ \A j \in 1 .. n : fs[j].call # e.call
      BY <1>1, <1>5, <1>6, <2>1
    <3> QED
      BY <1>1, <1>4, <2>1, <3>1
  <2>2. CASE i \in 1 .. n
    <3>1. fs[i] = es[i] /\ fs[i].call \in 1 .. m /\ fs[i].call # e.call
      BY <1>1, <1>5, <1>6, <2>2
    <3>2. IsEntry(fs[i]) /\ fs[i].rev \in Nat /\ fs[i].tid = ds[fs[i].call] /\ fs[i].call \in 1 .. m + 1
      BY <1>4, <1>6, <2>2, <3>1
    <3>3. \A j \in 1 .. n + 1 : fs[i].call = fs[j].call => i = j
      <4>1. \A j \in 1 .. n : fs[i].call = fs[j].call => i = j
        BY <1>5, <1>6, <2>2, <3>1
      <4>2. fs[i].call # fs[n + 1].call
        BY <1>5, <3>1
      <4> QED
        BY <4>1, <4>2
    <3> QED
      BY <3>2, <3>3
  <2> QED
    BY <2>1, <2>2
<1> QED
  BY <1>3, <1>4, <1>5, <1>7 DEF EachOf

(* A tail of them has each of its own. *)
LEMMA TailHasEach ==
  ASSUME NEW cs, NEW es, EachOf(cs, es), NEW ns, NEW d, IsTail(ns, es, d)
  PROVE  /\ EachOf(cs, ns)
         /\ \A i \in DOMAIN ns : d + i \in DOMAIN es /\ ns[i] = es[d + i]
         /\ \A i \in DOMAIN ns : IsLatest(ns, i) => IsLatest(es, d + i)
<1>1. PICK n \in Nat : n = Len(es) /\ DOMAIN es = 1 .. n
  BY SeqFacts DEF EachOf
<1>2. /\ d \in Nat /\ d <= n /\ IsSeq(ns) /\ DOMAIN ns = 1 .. n - d
      /\ \A i \in 1 .. n - d : ns[i] = es[d + i]
  BY <1>1, SeqFacts DEF IsTail
<1>3. \A i \in 1 .. n - d : d + i \in 1 .. n
  BY <1>2
<1>4. \A i \in 1 .. n : /\ IsEntry(es[i]) /\ es[i].rev \in Nat /\ es[i].call \in DOMAIN cs /\ es[i].tid = cs[es[i].call]
                         /\ \A j \in 1 .. n : es[i].call = es[j].call => i = j
  BY <1>1 DEF EachOf
<1>5. ASSUME NEW i \in 1 .. n - d, NEW j \in 1 .. n - d, ns[i].call = ns[j].call
      PROVE  i = j
  <2>1. d + i = d + j
    BY <1>2, <1>3, <1>4, <1>5
  <2> QED
    BY <1>2, <2>1
<1>6. EachOf(cs, ns)
  BY <1>2, <1>3, <1>4, <1>5 DEF EachOf
<1>7. ASSUME NEW i \in 1 .. n - d, IsLatest(ns, i), NEW j \in 1 .. n, es[j].tid = es[d + i].tid
      PROVE  j <= d + i
  <2>1. CASE j <= d
    BY <1>2, <2>1
  <2>2. CASE j > d
    <3>1. PICK k \in 1 .. n - d : j = d + k
      <4>1. j - d \in 1 .. n - d /\ j = d + (j - d)
        BY <1>2, <2>2
      <4> QED
        BY <4>1
    <3>2. ns[k].tid = ns[i].tid
      BY <1>2, <1>7, <3>1
    <3>3. k <= i
      BY <1>2, <1>7, <3>2 DEF IsLatest
    <3> QED
      BY <1>2, <3>1, <3>3
  <2> QED
    BY <1>2, <2>1, <2>2
<1> QED
  BY <1>1, <1>2, <1>3, <1>6, <1>7 DEF IsLatest

(* A revision keeps the call and its trace id.                             *)
LEMMA RevisedIsItsCall ==
  ASSUME NEW cs, NEW es, EachOf(cs, es), NEW i \in DOMAIN es, NEW e,
         IsEntry(e) /\ e.rev \in Nat, e.call = es[i].call, e.tid = es[i].tid
  PROVE  EachOf(cs, [es EXCEPT ![i] = e])
<1>1. PICK n \in Nat : n = Len(es) /\ DOMAIN es = 1 .. n
  BY SeqFacts DEF EachOf
<1>2. PICK fs : fs = [es EXCEPT ![i] = e]
  OBVIOUS
<1>3. IsSeq(fs) /\ DOMAIN fs = 1 .. n /\ fs[i] = e /\ \A j \in 1 .. n : j # i => fs[j] = es[j]
  BY <1>1, <1>2, OneReplaced DEF EachOf
<1>4. \A j \in 1 .. n : fs[j].call = es[j].call /\ fs[j].tid = es[j].tid /\ IsEntry(fs[j]) /\ fs[j].rev \in Nat
  BY <1>1, <1>3 DEF EachOf
<1> QED
  BY <1>1, <1>2, <1>3, <1>4 DEF EachOf

(* An entry that a list has not yet, added to it. *)
LEMMA AddedIsItsCall ==
  ASSUME NEW cs, NEW es, EachOf(cs, es), NEW e,
         IsEntry(e) /\ e.rev \in Nat, e.call \in DOMAIN cs, e.tid = cs[e.call],
         \A i \in DOMAIN es : es[i].tid # e.tid
  PROVE  EachOf(cs, Append(es, e))
<1>1. PICK n \in Nat : n = Len(es) /\ DOMAIN es = 1 .. n
  BY SeqFacts DEF EachOf
<1>2. PICK fs : fs = Append(es, e)
  OBVIOUS
<1>3. IsSeq(fs) /\ DOMAIN fs = 1 .. n + 1 /\ fs[n + 1] = e /\ \A j \in 1 .. n : fs[j] = es[j]
  BY <1>1, <1>2, OneAppended DEF EachOf
<1>4. \A j \in 1 .. n : /\ IsEntry(es[j]) /\ es[j].rev \in Nat /\ es[j].call \in DOMAIN cs /\ es[j].tid = cs[es[j].call]
                         /\ es[j].call # e.call
                         /\ \A k \in 1 .. n : es[j].call = es[k].call => j = k
  BY <1>1 DEF EachOf
<1>5. ASSUME NEW j \in 1 .. n + 1
      PROVE  /\ IsEntry(fs[j]) /\ fs[j].rev \in Nat /\ fs[j].call \in DOMAIN cs /\ fs[j].tid = cs[fs[j].call]
             /\ \A k \in 1 .. n + 1 : fs[j].call = fs[k].call => j = k
  <2>1. CASE j = n + 1
    BY <1>3, <1>4, <2>1
  <2>2. CASE j \in 1 .. n
    BY <1>3, <1>4, <2>2
  <2> QED
    BY <2>1, <2>2
<1> QED
  BY <1>2, <1>3, <1>5 DEF EachOf

(* What lists that agree say of two of their entries. *)
LEMMA WhatAgreeSays ==
  ASSUME NEW es, NEW fs, Agree(es, fs), NEW i \in DOMAIN es, NEW j \in DOMAIN fs
  PROVE  /\ es[i].call = fs[j].call => es[i] = fs[j]
         /\ IsLatest(es, i) /\ IsLatest(fs, j) /\ es[i].tid = fs[j].tid => es[i] = fs[j]
<1>1. ASSUME es[i].call = fs[j].call PROVE es[i] = fs[j]
  BY <1>1 DEF Agree
<1>2. ASSUME IsLatest(es, i), IsLatest(fs, j), es[i].tid = fs[j].tid PROVE es[i] = fs[j]
  BY <1>2 DEF Agree
<1> QED
  BY <1>1, <1>2

(* The latest of a trace id is one entry. *)
LEMMA OneLatest ==
  ASSUME NEW es, NEW i \in Nat, NEW j \in Nat, IsLatest(es, i), IsLatest(es, j), es[i].tid = es[j].tid
  PROVE  i = j
<1>1. i \in DOMAIN es /\ j \in DOMAIN es /\ i <= j /\ j <= i
  BY DEF IsLatest
<1> QED
  BY <1>1

(* The end of a list is the latest of its trace id, and the others are the *)
(* latest of theirs only if they were.                                     *)
LEMMA LatestOfAppended ==
  ASSUME NEW es, IsSeq(es), NEW e, NEW i \in DOMAIN Append(es, e), IsLatest(Append(es, e), i)
  PROVE  \/ i = Len(es) + 1 /\ Append(es, e)[i] = e
         \/ i \in DOMAIN es /\ Append(es, e)[i] = es[i] /\ IsLatest(es, i) /\ es[i].tid # e.tid
<1>1. PICK n \in Nat : n = Len(es) /\ DOMAIN es = 1 .. n
  BY SeqFacts
<1>2. PICK fs : fs = Append(es, e)
  OBVIOUS
<1>3. DOMAIN fs = 1 .. n + 1 /\ fs[n + 1] = e /\ \A j \in 1 .. n : fs[j] = es[j]
  BY <1>1, <1>2, OneAppended
<1>4. \A j \in 1 .. n + 1 : fs[j].tid = fs[i].tid => j <= i
  BY <1>2, <1>3 DEF IsLatest
<1>5. CASE i = n + 1
  BY <1>1, <1>2, <1>3, <1>5
<1>6. CASE i \in 1 .. n
  <2>1. e.tid # es[i].tid
    BY <1>3, <1>4, <1>6
  <2>2. \A j \in 1 .. n : es[j].tid = es[i].tid => j <= i
    BY <1>3, <1>4, <1>6
  <2> QED
    BY <1>1, <1>2, <1>3, <1>6, <2>1, <2>2 DEF IsLatest
<1> QED
  BY <1>2, <1>3, <1>5, <1>6

(* Replacing an entry by one of its trace id moves no latest.              *)
LEMMA LatestOfRevised ==
  ASSUME NEW es, IsSeq(es), NEW k \in DOMAIN es, NEW e, e.tid = es[k].tid,
         NEW i, IsLatest([es EXCEPT ![k] = e], i)
  PROVE  IsLatest(es, i)
<1>1. PICK n \in Nat : n = Len(es) /\ DOMAIN es = 1 .. n
  BY SeqFacts
<1>2. PICK fs : fs = [es EXCEPT ![k] = e]
  OBVIOUS
<1>3. DOMAIN fs = 1 .. n /\ fs[k] = e /\ \A j \in 1 .. n : j # k => fs[j] = es[j]
  BY <1>1, <1>2, OneReplaced
<1>4. \A j \in 1 .. n : fs[j].tid = es[j].tid
  BY <1>1, <1>3
<1> QED
  BY <1>1, <1>2, <1>3, <1>4 DEF IsLatest

(* Lists that agree on what was recorded agree on one entry more.          *)
LEMMA AgreeOnRecorded ==
  ASSUME NEW cs, NEW es, NEW fs, EachOf(cs, es), EachOf(cs, fs), Agree(es, fs),
         NEW e, e.call \notin DOMAIN cs
  PROVE  Agree(Append(es, e), Append(fs, e))
<1>1. PICK n \in Nat : n = Len(es) /\ DOMAIN es = 1 .. n
  BY SeqFacts DEF EachOf
<1>2. PICK m \in Nat : m = Len(fs) /\ DOMAIN fs = 1 .. m
  BY SeqFacts DEF EachOf
<1>3. PICK xs, ys : xs = Append(es, e) /\ ys = Append(fs, e)
  OBVIOUS
<1>4. /\ DOMAIN xs = 1 .. n + 1 /\ xs[n + 1] = e /\ \A i \in 1 .. n : xs[i] = es[i]
      /\ DOMAIN ys = 1 .. m + 1 /\ ys[m + 1] = e /\ \A j \in 1 .. m : ys[j] = fs[j]
  BY <1>1, <1>2, <1>3, OneAppended DEF EachOf
<1>5. \A i \in 1 .. n : es[i].call # e.call
  BY <1>1 DEF EachOf
<1>6. \A j \in 1 .. m : fs[j].call # e.call
  BY <1>2 DEF EachOf
<1>7. ASSUME NEW i \in 1 .. n + 1, NEW j \in 1 .. m + 1, xs[i].call = ys[j].call
      PROVE  xs[i] = ys[j]
  <2>1. CASE i = n + 1
    BY <1>4, <1>6, <1>7, <2>1
  <2>2. CASE i \in 1 .. n
    <3>1. j \in 1 .. m
      BY <1>4, <1>5, <1>7, <2>2
    <3> QED
      BY <1>1, <1>2, <1>4, <1>7, <2>2, <3>1, WhatAgreeSays
  <2> QED
    BY <2>1, <2>2
<1>8. ASSUME NEW i \in 1 .. n + 1, NEW j \in 1 .. m + 1, IsLatest(xs, i), IsLatest(ys, j), xs[i].tid = ys[j].tid
      PROVE  xs[i] = ys[j]
  <2>1. \/ i = n + 1 /\ xs[i] = e
        \/ i \in 1 .. n /\ xs[i] = es[i] /\ IsLatest(es, i) /\ es[i].tid # e.tid
    BY <1>1, <1>3, <1>4, <1>8, LatestOfAppended DEF EachOf
  <2>2. \/ j = m + 1 /\ ys[j] = e
        \/ j \in 1 .. m /\ ys[j] = fs[j] /\ IsLatest(fs, j) /\ fs[j].tid # e.tid
    BY <1>2, <1>3, <1>4, <1>8, LatestOfAppended DEF EachOf
  <2> QED
    BY <1>1, <1>2, <1>8, <2>1, <2>2, WhatAgreeSays
<1> QED
  BY <1>3, <1>4, <1>7, <1>8 DEF Agree

(* Eviction takes nothing from it. *)
LEMMA AgreeOnTail ==
  ASSUME NEW cs, NEW es, NEW fs, EachOf(cs, es), Agree(es, fs), NEW ns, NEW d, IsTail(ns, es, d)
  PROVE  Agree(ns, fs)
<1>1. \A i \in DOMAIN ns : d + i \in DOMAIN es /\ ns[i] = es[d + i] /\ (IsLatest(ns, i) => IsLatest(es, d + i))
  BY TailHasEach
<1>2. ASSUME NEW i \in DOMAIN ns, NEW j \in DOMAIN fs,
             ns[i].call = fs[j].call \/ (IsLatest(ns, i) /\ IsLatest(fs, j) /\ ns[i].tid = fs[j].tid)
      PROVE  ns[i] = fs[j]
  <2>1. PICK k \in DOMAIN es : ns[i] = es[k] /\ (IsLatest(ns, i) => IsLatest(es, k))
    BY <1>1
  <2> QED
    BY <1>2, <2>1, WhatAgreeSays
<1> QED
  BY <1>2 DEF Agree

(* And a list agrees with itself. *)
LEMMA AgreeWithItself ==
  ASSUME NEW cs, NEW es, EachOf(cs, es)
  PROVE  Agree(es, es)
<1>1. PICK n \in Nat : n = Len(es) /\ DOMAIN es = 1 .. n
  BY SeqFacts DEF EachOf
<1>2. ASSUME NEW i \in 1 .. n, NEW j \in 1 .. n, es[i].call = es[j].call
      PROVE  es[i] = es[j]
  BY <1>1, <1>2 DEF EachOf
<1>3. ASSUME NEW i \in 1 .. n, NEW j \in 1 .. n, IsLatest(es, i), IsLatest(es, j), es[i].tid = es[j].tid
      PROVE  es[i] = es[j]
  <2>1. i \in Nat /\ j \in Nat
    OBVIOUS
  <2> QED
    BY <1>3, <2>1, OneLatest
<1> QED
  BY <1>1, <1>2, <1>3 DEF Agree

(* Lists that agree agree on a revision of the latest of a trace id, put   *)
(* in the place of it in both.                                             *)
LEMMA AgreeOnRevised ==
  ASSUME NEW cs, NEW es, NEW fs, EachOf(cs, es), EachOf(cs, fs), Agree(es, fs),
         NEW i, NEW k, IsLatest(es, i), IsLatest(fs, k), es[i].tid = fs[k].tid,
         NEW e, e.call = es[i].call, e.tid = es[i].tid
  PROVE  Agree([es EXCEPT ![i] = e], [fs EXCEPT ![k] = e])
<1>1. PICK n \in Nat : n = Len(es) /\ DOMAIN es = 1 .. n
  BY SeqFacts DEF EachOf
<1>2. PICK m \in Nat : m = Len(fs) /\ DOMAIN fs = 1 .. m
  BY SeqFacts DEF EachOf
<1>3. i \in 1 .. n /\ k \in 1 .. m /\ es[i] = fs[k] /\ IsSeq(es) /\ IsSeq(fs)
  <2>1. i \in DOMAIN es /\ k \in DOMAIN fs
    BY DEF IsLatest
  <2>2. es[i] = fs[k]
    BY <2>1, WhatAgreeSays
  <2>3. IsSeq(es) /\ IsSeq(fs)
    BY DEF EachOf
  <2> QED
    BY <1>1, <1>2, <2>1, <2>2, <2>3
<1>4. PICK xs, ys : xs = [es EXCEPT ![i] = e] /\ ys = [fs EXCEPT ![k] = e]
  OBVIOUS
<1>5. /\ DOMAIN xs = 1 .. n /\ xs[i] = e /\ \A j \in 1 .. n : j # i => xs[j] = es[j]
      /\ DOMAIN ys = 1 .. m /\ ys[k] = e /\ \A j \in 1 .. m : j # k => ys[j] = fs[j]
  BY <1>1, <1>2, <1>3, <1>4, OneReplaced
<1>6. /\ \A a, b \in 1 .. n : es[a].call = es[b].call => a = b
      /\ \A a, b \in 1 .. m : fs[a].call = fs[b].call => a = b
  BY <1>1, <1>2 DEF EachOf
<1>7. ASSUME NEW a \in 1 .. n, NEW b \in 1 .. m, xs[a].call = ys[b].call
      PROVE  xs[a] = ys[b]
  <2>1. es[a].call = fs[b].call
    BY <1>3, <1>5, <1>7
  <2>2. a = i <=> b = k
    BY <1>3, <1>6, <2>1
  <2>3. es[a] = fs[b]
    BY <1>1, <1>2, <2>1, WhatAgreeSays
  <2> QED
    BY <1>5, <2>2, <2>3
<1>8. ASSUME NEW a \in 1 .. n, NEW b \in 1 .. m, IsLatest(xs, a), IsLatest(ys, b), xs[a].tid = ys[b].tid
      PROVE  xs[a] = ys[b]
  <2>1. IsLatest(es, a) /\ IsLatest(fs, b)
    BY <1>1, <1>2, <1>3, <1>4, <1>8, LatestOfRevised
  <2>2. es[a].tid = fs[b].tid
    BY <1>3, <1>5, <1>8
  <2>3. es[a] = fs[b]
    BY <1>1, <1>2, <2>1, <2>2, WhatAgreeSays
  <2>4. a = i <=> b = k
    BY <1>3, <1>6, <2>3
  <2> QED
    BY <1>5, <2>3, <2>4
<1> QED
  BY <1>4, <1>5, <1>7, <1>8 DEF Agree

(* And on a revision added to a list that had lost its call.               *)
LEMMA AgreeOnAdded ==
  ASSUME NEW cs, NEW es, NEW fs, EachOf(cs, es), EachOf(cs, fs), Agree(es, fs),
         NEW i, IsLatest(es, i), \A j \in DOMAIN fs : fs[j].tid # es[i].tid,
         NEW e, e.call = es[i].call, e.tid = es[i].tid
  PROVE  Agree([es EXCEPT ![i] = e], Append(fs, e))
<1>1. PICK n \in Nat : n = Len(es) /\ DOMAIN es = 1 .. n
  BY SeqFacts DEF EachOf
<1>2. PICK m \in Nat : m = Len(fs) /\ DOMAIN fs = 1 .. m
  BY SeqFacts DEF EachOf
<1>3. i \in 1 .. n /\ IsSeq(es) /\ IsSeq(fs)
  BY <1>1 DEF IsLatest, EachOf
<1>4. PICK xs, ys : xs = [es EXCEPT ![i] = e] /\ ys = Append(fs, e)
  OBVIOUS
<1>5. /\ DOMAIN xs = 1 .. n /\ xs[i] = e /\ \A j \in 1 .. n : j # i => xs[j] = es[j]
      /\ DOMAIN ys = 1 .. m + 1 /\ ys[m + 1] = e /\ \A j \in 1 .. m : ys[j] = fs[j]
  BY <1>1, <1>2, <1>3, <1>4, OneReplaced, OneAppended
<1>6. /\ \A a, b \in 1 .. n : es[a].call = es[b].call => a = b
      /\ \A b \in 1 .. m : fs[b].call # e.call
  <2>1. \A a, b \in 1 .. n : es[a].call = es[b].call => a = b
    BY <1>1 DEF EachOf
  <2>2. es[i].tid = cs[es[i].call] /\ \A b \in 1 .. m : fs[b].tid = cs[fs[b].call]
    BY <1>1, <1>2, <1>3 DEF EachOf
  <2> QED
    BY <1>2, <2>1, <2>2
<1>7. ASSUME NEW a \in 1 .. n, NEW b \in 1 .. m + 1, xs[a].call = ys[b].call
      PROVE  xs[a] = ys[b]
  <2>1. CASE b = m + 1
    <3>1. es[a].call = es[i].call
      BY <1>3, <1>5, <1>7, <2>1
    <3>2. a = i
      BY <1>3, <1>6, <3>1
    <3> QED
      BY <1>5, <2>1, <3>2
  <2>2. CASE b \in 1 .. m
    <3>1. a # i
      BY <1>5, <1>6, <1>7, <2>2
    <3> QED
      BY <1>1, <1>2, <1>5, <1>7, <2>2, <3>1, WhatAgreeSays
  <2> QED
    BY <2>1, <2>2
<1>8. ASSUME NEW a \in 1 .. n, NEW b \in 1 .. m + 1, IsLatest(xs, a), IsLatest(ys, b), xs[a].tid = ys[b].tid
      PROVE  xs[a] = ys[b]
  <2>1. IsLatest(es, a)
    BY <1>1, <1>3, <1>4, <1>8, LatestOfRevised
  <2>2. \/ b = m + 1 /\ ys[b] = e
        \/ b \in 1 .. m /\ ys[b] = fs[b] /\ IsLatest(fs, b) /\ fs[b].tid # e.tid
    BY <1>2, <1>3, <1>4, <1>5, <1>8, LatestOfAppended
  <2>3. es[a].tid = xs[a].tid
    BY <1>3, <1>5
  <2>4. CASE b = m + 1
    <3>1. a \in Nat /\ i \in Nat
      BY <1>3
    <3>2. a = i
      BY <1>5, <1>8, <2>1, <2>3, <2>4, <3>1, OneLatest
    <3> QED
      BY <1>5, <2>4, <3>2
  <2>5. CASE b \in 1 .. m
    <3>1. ys[b] = fs[b] /\ IsLatest(fs, b) /\ es[a].tid = fs[b].tid /\ a # i
      BY <1>2, <1>3, <1>5, <1>8, <2>2, <2>3, <2>5
    <3> QED
      BY <1>1, <1>2, <1>5, <2>1, <2>5, <3>1, WhatAgreeSays
  <2> QED
    BY <2>2, <2>4, <2>5
<1>9. Agree(xs, ys)
  BY <1>5, <1>7, <1>8 DEF Agree
<1> QED
  BY <1>4, <1>9

-----------------------------------------------------------------------------
(* What a restart reads back *)

(* A line that reads, folded in: a new call is one entry more, a revision  *)
(* takes the place of the latest of its trace id.                          *)
LEMMA FoldedIn ==
  ASSUME NEW es, NEW l, Parses(l)
  PROVE  /\ l.entry.rev = 0 => FoldIn(es, l) = Append(es, l.entry)
         /\ l.entry.rev > 0 /\ LatestOf(es, l.entry.tid) = 0 => FoldIn(es, l) = Append(es, l.entry)
         /\ l.entry.rev > 0 /\ LatestOf(es, l.entry.tid) # 0
               => FoldIn(es, l) = [es EXCEPT ![LatestOf(es, l.entry.tid)] = l.entry]
<1>1. PICK i : i = LatestOf(es, l.entry.tid)
  OBVIOUS
<1>2. FoldIn(es, l) = CASE ~Parses(l) -> es
                        [] Parses(l) /\ i # 0 /\ l.entry.rev > 0 -> [es EXCEPT ![i] = l.entry]
                        [] OTHER -> Append(es, l.entry)
  BY <1>1 DEF FoldIn, LatestOf
<1>3. l.entry.rev = 0 => ~(l.entry.rev > 0)
  OBVIOUS
<1> QED
  BY <1>1, <1>2, <1>3

(* As long as no write fails, a sealed line is one line more of the        *)
(* current file, or went away with it.                                     *)
LEMMA WholeLineMore ==
  ASSUME ChainIInv, NEW e, AppendLocked(e), ~mishap'
  PROVE  /\ ~mishap
         /\ \E l : /\ Parses(l) /\ l.entry = e
                  /\ \/ file' = Append(file, l) /\ old' = old
                     \/ file' = <<>> /\ old' # <<>>
<1>0. /\ IsSeq(old) /\ IsSeq(file) /\ Len(old) \in Nat /\ Len(file) \in Nat
      /\ DOMAIN file = 1 .. Len(file) /\ (file = <<>> <=> Len(file) = 0)
  BY SeqFacts DEF ChainIInv, FilesHold
<1>1. PICK o \in WriteOutcomes, r \in RotateOutcomes, sz \in Sizes :
        LET f == IF stuck THEN file ELSE Written(file, Seal(e, sz), o)
            size == IF stuck THEN fileSize ELSE fileSize + (IF o = "lost" THEN 1 ELSE Space(sz))
        IN /\ up' = (stuck \/ o # "killed")
           /\ mishap' = \/ mishap \/ stuck \/ o # "written" \/ sz = "huge"
                        \/ up' /\ size >= LinesPerFile /\ r # "rotated"
           /\ IF up' /\ size >= LinesPerFile
              THEN Rotate(f, r)
              ELSE /\ file' = f /\ fileSize' = size
                   /\ stuck' = (stuck \/ o \in {"lost", "partial"})
                   /\ UNCHANGED <<old, created>>
  BY DEF AppendLocked
<1>2. ~mishap /\ ~stuck /\ o = "written"
  BY <1>1
<1>3. created /\ \A i \in 1 .. Len(Lines) : Lines[i].form = "whole"
  BY <1>2 DEF ChainIInv, HeadHolds
<1>4. file # <<>> => Last(file).form = "whole"
  <2> SUFFICES ASSUME file # <<>> PROVE file[Len(file)].form = "whole"
    BY DEF Last
  <2>1. Len(file) \in 1 .. Len(file) /\ Len(old) + Len(file) \in 1 .. Len(old) + Len(file)
    BY <1>0
  <2> QED
    BY <1>0, <1>3, <2>1, Concatenated DEF Lines
<1>5. PICK l : l = [Seal(e, sz) EXCEPT !.form = "whole"]
  OBVIOUS
<1>6. Parses(l) /\ l.entry = e
  BY <1>5 DEF Seal, Parses
<1>7. Written(file, Seal(e, sz), o) = Append(file, l)
  BY <1>2, <1>4, <1>5 DEF Written
<1>8. Append(file, l) # <<>>
  <2>1. PICK f : f = Append(file, l)
    OBVIOUS
  <2>2. IsSeq(f) /\ Len(f) = Len(file) + 1
    BY <1>0, <2>1, OneAppended
  <2>3. f # <<>>
    BY <1>0, <2>2, SeqFacts
  <2> QED
    BY <2>1, <2>3
<1>9. \/ file' = Append(file, l) /\ old' = old
      \/ file' = <<>> /\ old' = Append(file, l)
  BY <1>1, <1>2, <1>3, <1>7 DEF Rotate
<1> QED
  BY <1>2, <1>6, <1>8, <1>9

(* What memory, the calls, the file and its .old say together when the     *)
(* file is read to its end.                                                *)
Told(es, cs, f, o) ==
  /\ EachOf(cs, es) /\ EachOf(cs, Fold(f))
  /\ Agree(es, Fold(f))
  /\ \A k \in DOMAIN f : \E j \in DOMAIN Fold(f) : Fold(f)[j].call = f[k].entry.call
  /\ o = <<>> => es = Newest(Fold(f))

(* Nothing is read from an empty file. *)
LEMMA ToldOfNothing ==
  ASSUME NEW es, NEW cs, NEW o, EachOf(cs, es), o # <<>> \/ es = <<>>
  PROVE  Told(es, cs, <<>>, o)
<1>1. IsSeq(<<>>)
  BY DEF IsSeq
<1>2. DOMAIN <<>> = {}
  BY <1>1, SeqFacts
<1>3. EachOf(cs, <<>>) /\ Agree(es, <<>>)
  BY <1>1, <1>2 DEF EachOf, Agree
<1>4. Newest(<<>>) = <<>>
  <2>1. IsTail(Newest(<<>>), <<>>, Dropped(<<>>))
    BY <1>1, NewestIsTail
  <2>2. Len(<<>>) = 0
    OBVIOUS
  <2>3. PICK ns, d : ns = Newest(<<>>) /\ d = Dropped(<<>>)
    OBVIOUS
  <2>4. d \in Nat /\ d <= 0 /\ Len(ns) = 0 - d /\ IsSeq(ns)
    BY <2>1, <2>2, <2>3 DEF IsTail
  <2>5. Len(ns) = 0
    BY <2>4
  <2> QED
    BY <2>3, <2>4, <2>5, SeqFacts
<1> QED
  BY <1>2, <1>3, <1>4, FoldOfNothing DEF Told

(* A call recorded. *)
LEMMA ToldOfRecorded ==
  ASSUME NEW es, NEW cs, NEW f, NEW o, IsSeq(cs), IsSeq(f), Told(es, cs, f, o),
         NEW t, NEW l, NEW e, Parses(l), l.entry = e,
         IsEntry(e), e.rev = 0, e.call = Len(cs) + 1, e.tid = t,
         NEW f2, NEW o2, (f2 = Append(f, l) /\ o2 = o) \/ (f2 = <<>> /\ o2 # <<>>)
  PROVE  Told(Newest(Append(es, e)), Append(cs, t), f2, o2)
<1>1. EachOf(cs, es) /\ EachOf(cs, Fold(f)) /\ Agree(es, Fold(f)) /\ IsSeq(es) /\ IsSeq(Fold(f))
  BY DEF Told, EachOf
<1>2. PICK xs, ds, ns, d : xs = Append(es, e) /\ ds = Append(cs, t) /\ ns = Newest(xs) /\ d = Dropped(xs)
  OBVIOUS
<1>3. EachOf(ds, xs)
  BY <1>1, <1>2, RecordedIsNew
<1>4. IsTail(ns, xs, d)
  BY <1>2, <1>3, NewestIsTail DEF EachOf
<1>5. EachOf(ds, ns)
  BY <1>3, <1>4, TailHasEach
<1>6. CASE f2 = <<>> /\ o2 # <<>>
  BY <1>2, <1>5, <1>6, ToldOfNothing
<1>7. CASE f2 = Append(f, l) /\ o2 = o
  <2>1. PICK fs, ys : fs = Fold(f) /\ ys = Append(fs, e)
    OBVIOUS
  <2>2. Fold(f2) = ys
    BY <1>7, <2>1, FoldOneMore, FoldedIn
  <2>3. EachOf(ds, ys)
    BY <1>1, <1>2, <2>1, RecordedIsNew
  <2>4. Agree(xs, ys)
    <3>1. e.call \notin DOMAIN cs
      BY SeqFacts
    <3> QED
      BY <1>1, <1>2, <2>1, <3>1, AgreeOnRecorded
  <2>5. Agree(ns, ys)
    BY <1>3, <1>4, <2>4, AgreeOnTail
  <2>6. \A k \in DOMAIN f2 : \E j \in DOMAIN ys : ys[j].call = f2[k].entry.call
    <3>1. PICK n \in Nat, m \in Nat : n = Len(f) /\ DOMAIN f = 1 .. n /\ m = Len(fs) /\ DOMAIN fs = 1 .. m
      BY <1>1, <2>1, SeqFacts
    <3>2. DOMAIN f2 = 1 .. n + 1 /\ f2[n + 1] = l /\ \A k \in 1 .. n : f2[k] = f[k]
      BY <1>7, <3>1, OneAppended
    <3>3. DOMAIN ys = 1 .. m + 1 /\ ys[m + 1] = e /\ \A j \in 1 .. m : ys[j] = fs[j]
      BY <1>1, <2>1, <3>1, OneAppended
    <3>4. \A k \in 1 .. n : \E j \in 1 .. m : fs[j].call = f[k].entry.call
      BY <2>1, <3>1 DEF Told
    <3>5. ASSUME NEW k \in 1 .. n + 1
          PROVE  \E j \in 1 .. m + 1 : ys[j].call = f2[k].entry.call
      <4>1. CASE k = n + 1
        <5>1. m + 1 \in 1 .. m + 1 /\ ys[m + 1].call = f2[k].entry.call
          BY <3>2, <3>3, <4>1
        <5> QED
          BY <5>1
      <4>2. CASE k \in 1 .. n
        <5>1. PICK j \in 1 .. m : fs[j].call = f[k].entry.call
          BY <3>4, <4>2
        <5>2. j \in 1 .. m + 1 /\ ys[j].call = f2[k].entry.call
          BY <3>2, <3>3, <4>2, <5>1
        <5> QED
          BY <5>2
      <4> QED
        BY <4>1, <4>2
    <3> QED
      BY <3>2, <3>3, <3>5
  <2>7. o2 = <<>> => ns = Newest(ys)
    <3> SUFFICES ASSUME o2 = <<>> PROVE ns = Newest(ys)
      OBVIOUS
    <3>1. es = Newest(fs)
      BY <1>7, <2>1 DEF Told
    <3>2. Newest(Append(Newest(fs), e)) = Newest(Append(fs, e))
      BY <1>1, <2>1, NewestOfAppended
    <3> QED
      BY <1>2, <2>1, <3>1, <3>2
  <2> QED
    BY <1>2, <1>5, <2>2, <2>3, <2>5, <2>6, <2>7 DEF Told
<1> QED
  BY <1>6, <1>7

(* A revision of the latest entry of its trace id. *)
LEMMA ToldOfRevised ==
  ASSUME NEW es, NEW cs, NEW f, NEW o, IsSeq(cs), IsSeq(f), Told(es, cs, f, o),
         NEW i, IsLatest(es, i),
         NEW l, NEW e, Parses(l), l.entry = e,
         IsEntry(e), e.rev \in Nat, e.rev > 0, e.call = es[i].call, e.tid = es[i].tid,
         NEW f2, NEW o2, (f2 = Append(f, l) /\ o2 = o) \/ (f2 = <<>> /\ o2 # <<>>)
  PROVE  Told([es EXCEPT ![i] = e], cs, f2, o2)
<1>1. EachOf(cs, es) /\ EachOf(cs, Fold(f)) /\ Agree(es, Fold(f)) /\ IsSeq(es) /\ IsSeq(Fold(f))
  BY DEF Told, EachOf
<1>2. PICK xs : xs = [es EXCEPT ![i] = e]
  OBVIOUS
<1>3. i \in DOMAIN es
  BY DEF IsLatest
<1>4. EachOf(cs, xs)
  BY <1>1, <1>2, <1>3, RevisedIsItsCall
<1>5. CASE f2 = <<>> /\ o2 # <<>>
  BY <1>2, <1>4, <1>5, ToldOfNothing
<1>6. CASE f2 = Append(f, l) /\ o2 = o
  <2>1. PICK fs, k : fs = Fold(f) /\ k = LatestOf(fs, e.tid)
    OBVIOUS
  <2>2. /\ k = 0 \/ (IsLatest(fs, k) /\ fs[k].tid = e.tid)
        /\ k = 0 => \A j \in DOMAIN fs : fs[j].tid # e.tid
    BY <1>1, <2>1, LatestIsLatest
  <2>3. PICK n \in Nat, m \in Nat : n = Len(f) /\ DOMAIN f = 1 .. n /\ m = Len(fs) /\ DOMAIN fs = 1 .. m
    BY <1>1, <2>1, SeqFacts
  <2>4. DOMAIN f2 = 1 .. n + 1 /\ f2[n + 1] = l /\ \A a \in 1 .. n : f2[a] = f[a]
    BY <1>6, <2>3, OneAppended
  <2>5. \A a \in 1 .. n : \E j \in 1 .. m : fs[j].call = f[a].entry.call
    BY <2>1, <2>3 DEF Told
  <2>6. CASE k # 0
    <3>1. PICK ys : ys = [fs EXCEPT ![k] = e]
      OBVIOUS
    <3>2. Fold(f2) = ys
      <4>1. Fold(f2) = FoldIn(fs, l)
        BY <1>6, <2>1, FoldOneMore
      <4>2. l.entry.rev > 0 /\ LatestOf(fs, l.entry.tid) # 0
        BY <2>1, <2>6
      <4>3. FoldIn(fs, l) = [fs EXCEPT ![LatestOf(fs, l.entry.tid)] = l.entry]
        BY <4>2, FoldedIn
      <4> QED
        BY <2>1, <3>1, <4>1, <4>3
    <3>3. IsLatest(fs, k) /\ fs[k].tid = e.tid /\ k \in 1 .. m /\ k \in DOMAIN fs
      BY <2>2, <2>3, <2>6 DEF IsLatest
    <3>4. es[i] = fs[k]
      BY <1>1, <1>3, <2>1, <3>3, WhatAgreeSays
    <3>5. EachOf(cs, ys)
      BY <1>1, <2>1, <3>1, <3>3, <3>4, RevisedIsItsCall
    <3>6. Agree(xs, ys)
      BY <1>1, <1>2, <2>1, <3>1, <3>3, AgreeOnRevised
    <3>7. DOMAIN ys = 1 .. m /\ ys[k] = e /\ \A j \in 1 .. m : j # k => ys[j] = fs[j]
      BY <1>1, <2>1, <2>3, <3>1, <3>3, OneReplaced
    <3>8. ASSUME NEW a \in 1 .. n + 1
          PROVE  \E j \in 1 .. m : ys[j].call = f2[a].entry.call
      <4>1. CASE a = n + 1
        <5>1. ys[k].call = f2[a].entry.call
          BY <2>4, <3>7, <4>1
        <5> QED
          BY <3>3, <5>1
      <4>2. CASE a \in 1 .. n
        <5>1. PICK j \in 1 .. m : fs[j].call = f[a].entry.call
          BY <2>5, <4>2
        <5>2. ys[j].call = fs[j].call
          BY <3>4, <3>7
        <5>3. f2[a] = f[a]
          BY <2>4, <4>2
        <5> QED
          BY <5>1, <5>2, <5>3
      <4> QED
        BY <4>1, <4>2
    <3>9. o2 = <<>> => xs = Newest(ys)
      <4> SUFFICES ASSUME o2 = <<>> PROVE xs = Newest(ys)
        OBVIOUS
      <4>1. PICK d : d = Dropped(fs)
        OBVIOUS
      <4>2. es = Newest(fs) /\ IsTail(es, fs, d)
        BY <1>1, <1>6, <2>1, <4>1, NewestIsTail DEF Told
      <4>3. d + i \in DOMAIN fs /\ es[i] = fs[d + i]
        BY <1>1, <1>3, <2>1, <4>2, TailHasEach
      <4>4. k = d + i
        BY <1>1, <2>1, <3>3, <3>4, <4>3 DEF EachOf
      <4>5. i \in 1 .. Len(es)
        BY <1>1, <1>3, SeqFacts
      <4>6. i \in 1 .. Len(Newest(fs)) /\ k = Dropped(fs) + i
        BY <4>1, <4>2, <4>4, <4>5
      <4>7. IsSeq(fs)
        BY <1>1, <2>1 DEF EachOf
      <4>8. Newest(Replaced(fs, k, e)) = Replaced(Newest(fs), i, e)
        BY <4>6, <4>7, NewestOfReplaced
      <4> QED
        BY <1>2, <3>1, <4>2, <4>8 DEF Replaced
    <3> QED
      BY <1>2, <1>4, <2>4, <3>2, <3>5, <3>6, <3>7, <3>8, <3>9 DEF Told
  <2>7. CASE k = 0
    <3>1. PICK ys : ys = Append(fs, e)
      OBVIOUS
    <3>2. Fold(f2) = ys
      <4>1. Fold(f2) = FoldIn(fs, l)
        BY <1>6, <2>1, FoldOneMore
      <4>2. l.entry.rev > 0 /\ LatestOf(fs, l.entry.tid) = 0
        BY <2>1, <2>7
      <4>3. FoldIn(fs, l) = Append(fs, l.entry)
        BY <4>2, FoldedIn
      <4> QED
        BY <3>1, <4>1, <4>3
    <3>3. \A j \in DOMAIN fs : fs[j].tid # es[i].tid
      BY <2>2, <2>7
    <3>4. EachOf(cs, ys)
      <4>1. e.call \in DOMAIN cs /\ e.tid = cs[e.call]
        BY <1>1, <1>3 DEF EachOf
      <4> QED
        BY <1>1, <2>1, <2>2, <2>7, <3>1, <4>1, AddedIsItsCall
    <3>5. Agree(xs, ys)
      BY <1>1, <1>2, <2>1, <3>1, <3>3, AgreeOnAdded
    <3>6. DOMAIN ys = 1 .. m + 1 /\ ys[m + 1] = e /\ \A j \in 1 .. m : ys[j] = fs[j]
      BY <1>1, <2>1, <2>3, <3>1, OneAppended
    <3>7. ASSUME NEW a \in 1 .. n + 1
          PROVE  \E j \in 1 .. m + 1 : ys[j].call = f2[a].entry.call
      <4>1. CASE a = n + 1
        <5>1. m + 1 \in 1 .. m + 1 /\ ys[m + 1].call = f2[a].entry.call
          BY <2>4, <3>6, <4>1
        <5> QED
          BY <5>1
      <4>2. CASE a \in 1 .. n
        <5>1. PICK j \in 1 .. m : fs[j].call = f[a].entry.call
          BY <2>5, <4>2
        <5>2. j \in 1 .. m + 1 /\ ys[j].call = f2[a].entry.call
          BY <2>4, <3>6, <4>2, <5>1
        <5> QED
          BY <5>2
      <4> QED
        BY <4>1, <4>2
    <3>8. o2 # <<>>
      <4> SUFFICES ASSUME o2 = <<>> PROVE FALSE
        OBVIOUS
      <4>1. PICK d : d = Dropped(fs)
        OBVIOUS
      <4>2. IsTail(es, fs, d)
        BY <1>1, <1>6, <2>1, <4>1, NewestIsTail DEF Told
      <4>3. d + i \in DOMAIN fs /\ es[i] = fs[d + i]
        BY <1>1, <1>3, <2>1, <4>2, TailHasEach
      <4> QED
        BY <3>3, <4>3
    <3> QED
      BY <1>2, <1>4, <2>4, <3>2, <3>4, <3>5, <3>6, <3>7, <3>8 DEF Told
  <2> QED
    BY <2>6, <2>7
<1> QED
  BY <1>5, <1>6

(* A restart takes over what it reads of it. *)
LEMMA ToldOfRead ==
  ASSUME NEW es, NEW cs, NEW f, NEW o, Told(es, cs, f, o)
  PROVE  Told(Newest(Fold(f)), cs, f, o)
<1>1. PICK fs, ns, d : fs = Fold(f) /\ ns = Newest(fs) /\ d = Dropped(fs)
  OBVIOUS
<1>2. EachOf(cs, fs) /\ IsSeq(fs)
  BY <1>1 DEF Told, EachOf
<1>3. IsTail(ns, fs, d)
  BY <1>1, <1>2, NewestIsTail
<1>4. EachOf(cs, ns)
  BY <1>2, <1>3, TailHasEach
<1>5. Agree(ns, fs)
  BY <1>2, <1>3, AgreeWithItself, AgreeOnTail
<1> QED
  BY <1>1, <1>2, <1>4, <1>5 DEF Told

(* And when only its lines s are read, up to one too long.                 *)
ToldPart(es, cs, f, s) ==
  /\ EachOf(cs, es) /\ EachOf(cs, Fold(s))
  /\ \A k \in DOMAIN s : \E j \in DOMAIN Fold(s) : Fold(s)[j].call = f[k].entry.call
  /\ \A i \in DOMAIN es, j \in DOMAIN Fold(s) :
       /\ es[i].call = Fold(s)[j].call
       /\ \A k \in {n \in DOMAIN f : f[n].entry.call = es[i].call} : k <= Len(s)
       => es[i] = Fold(s)[j]

Tells(es, cs, f, o) ==
  /\ ToldPart(es, cs, f, Read(f))
  /\ Read(f) = f => Told(es, cs, f, o)

(* This is the invariant, of the state's own lists. *)
LEMMA TellsIsReadBack == ReadBackHolds <=> IsSeq(calls) /\ (~mishap => Tells(entries, calls, file, old))
<1>1. ReadBackHolds <=>
        /\ IsSeq(calls)
        /\ ~mishap => /\ ToldPart(entries, calls, file, Read(file))
                      /\ Read(file) = file => /\ Agree(entries, Fold(Read(file)))
                                              /\ old = <<>> => entries = Newest(Fold(Read(file)))
  BY DEF ReadBackHolds, ToldPart, EachOf, EachItsCall, AgreeButFor, LinesOf
<1>2. ToldPart(entries, calls, file, Read(file)) /\ Read(file) = file =>
        (Told(entries, calls, file, old) <=> /\ Agree(entries, Fold(Read(file)))
                                             /\ old = <<>> => entries = Newest(Fold(Read(file))))
  BY DEF Told, ToldPart
<1> QED
  BY <1>1, <1>2 DEF Tells

(* A part that is the whole. *)
LEMMA PartOfWhole ==
  ASSUME NEW es, NEW cs, NEW f, NEW o, Told(es, cs, f, o)
  PROVE  ToldPart(es, cs, f, f)
<1>1. ASSUME NEW i \in DOMAIN es, NEW j \in DOMAIN Fold(f), es[i].call = Fold(f)[j].call
      PROVE  es[i] = Fold(f)[j]
  BY <1>1, WhatAgreeSays DEF Told
<1> QED
  BY <1>1 DEF Told, ToldPart

(* What is read of a file with one line more: that line too, unless it is  *)
(* too long or one before it is.                                           *)
LEMMA ReadOneMore ==
  ASSUME NEW f, IsSeq(f), NEW l
  PROVE  \/ Read(f) = f /\ Read(Append(f, l)) = Append(f, l)
         \/ Read(Append(f, l)) = Read(f) /\ Read(Append(f, l)) # Append(f, l)
<1>1. PICK g, T, s, t : /\ g = Append(f, l) /\ T = {"long", "huge"}
                        /\ s = Scanned(f, T) /\ t = Scanned(g, T)
  OBVIOUS
<1>2. Read(f) = s /\ Read(g) = t
  BY <1>1 DEF Read
<1>3. PICK b \in Nat : b = Len(f)
  BY SeqFacts
<1>4. IsSeq(g) /\ Len(g) = b + 1 /\ \A i \in 1 .. b : g[i] = f[i]
  BY <1>1, <1>3, OneAppended
<1>5. PICK n \in 0 .. b : /\ IsSeq(s) /\ Len(s) = n
                          /\ \A i \in 1 .. n : s[i] = f[i] /\ f[i].size \notin T
                          /\ n = b => s = f
                          /\ n # b => f[n + 1].size \in T
  BY <1>1, <1>3, ScannedIsPrefix
<1>c. PICK c \in Nat : c = b + 1 /\ Len(g) = c
  BY <1>4
<1>g. IsSeq(g)
  BY <1>4
<1>t. t = Scanned(g, T)
  BY <1>1
<1>6. PICK m \in 0 .. c : /\ IsSeq(t) /\ Len(t) = m
                          /\ \A i \in 1 .. m : t[i] = g[i] /\ g[i].size \notin T
                          /\ m = c => t = g
                          /\ m # c => g[m + 1].size \in T
  BY <1>g, <1>t, <1>c, ScannedIsPrefix
<1>7. CASE m = c
  <2>1. n = b
    <3> SUFFICES ASSUME n # b PROVE FALSE
      OBVIOUS
    <3>1. n + 1 \in 1 .. b /\ n + 1 \in 1 .. m
      BY <1>c, <1>7
    <3>2. g[n + 1] = f[n + 1]
      BY <1>4, <3>1
    <3> QED
      BY <1>5, <1>6, <3>1, <3>2
  <2> QED
    BY <1>1, <1>2, <1>5, <1>6, <1>7, <2>1
<1>8. CASE m # c
  <2>1. m = n
    <3>1. CASE m < n
      <4>1. m + 1 \in 1 .. b /\ m + 1 \in 1 .. n
        BY <3>1
      <4>2. g[m + 1] = f[m + 1]
        BY <1>4, <4>1
      <4> QED
        BY <1>5, <1>6, <1>8, <4>1, <4>2
    <3>2. CASE n < m
      <4>1. n + 1 \in 1 .. b /\ n + 1 \in 1 .. m /\ n # b
        BY <1>c, <1>8, <3>2
      <4>2. g[n + 1] = f[n + 1]
        BY <1>4, <4>1
      <4> QED
        BY <1>5, <1>6, <4>1, <4>2
    <3> QED
      BY <3>1, <3>2
  <2>2. \A i \in 1 .. Len(t) : t[i] = s[i]
    <3> SUFFICES ASSUME NEW i \in 1 .. n PROVE t[i] = s[i]
      BY <1>6, <2>1
    <3>1. i \in 1 .. b
      OBVIOUS
    <3> QED
      BY <1>4, <1>5, <1>6, <2>1, <3>1
  <2>3. t = s
    BY <1>5, <1>6, <2>1, <2>2, SameSequence
  <2>4. t # g
    BY <1>c, <1>6, <1>8
  <2> QED
    BY <1>1, <1>2, <2>3, <2>4
<1> QED
  BY <1>7, <1>8

(* What is read is no more than the file. *)
LEMMA ReadIsNoMore ==
  ASSUME NEW f, IsSeq(f)
  PROVE  IsSeq(Read(f)) /\ Len(Read(f)) \in 0 .. Len(f)
BY ScannedIsPrefix DEF Read

(* A call recorded leaves the others theirs. *)
LEMMA EachOfMore ==
  ASSUME NEW cs, IsSeq(cs), NEW es, EachOf(cs, es), NEW t
  PROVE  EachOf(Append(cs, t), es)
<1>0. PICK m \in Nat : m = Len(cs) /\ DOMAIN cs = 1 .. m
  BY SeqFacts
<1>1. PICK ds : ds = Append(cs, t)
  OBVIOUS
<1>2. DOMAIN ds = 1 .. m + 1 /\ \A i \in 1 .. m : ds[i] = cs[i]
  BY <1>0, <1>1, OneAppended
<1>3. \A i \in DOMAIN es : es[i].call \in 1 .. m /\ es[i].tid = cs[es[i].call]
  BY <1>0 DEF EachOf
<1>4. \A i \in DOMAIN es : es[i].call \in DOMAIN ds /\ es[i].tid = ds[es[i].call]
  BY <1>2, <1>3
<1> QED
  BY <1>1, <1>4 DEF EachOf

(* The line of a call recorded, out of reach of the scanner. *)
LEMMA PartOfRecorded ==
  ASSUME NEW es, NEW cs, NEW f, NEW s, IsSeq(cs), IsSeq(f), IsSeq(s), Len(s) \in 0 .. Len(f),
         ToldPart(es, cs, f, s),
         NEW t, NEW l, NEW e, IsEntry(e), e.rev = 0, e.call = Len(cs) + 1, e.tid = t
  PROVE  ToldPart(Newest(Append(es, e)), Append(cs, t), Append(f, l), s)
<1>1. PICK xs, ds, ns, d, fs, g : /\ xs = Append(es, e) /\ ds = Append(cs, t) /\ ns = Newest(xs)
                                  /\ d = Dropped(xs) /\ fs = Fold(s) /\ g = Append(f, l)
  OBVIOUS
<1>2. PICK n \in Nat, m \in Nat, b \in Nat :
         /\ n = Len(es) /\ DOMAIN es = 1 .. n /\ m = Len(cs) /\ DOMAIN cs = 1 .. m
         /\ b = Len(f) /\ DOMAIN f = 1 .. b
  BY SeqFacts DEF ToldPart, EachOf
<1>3. EachOf(cs, es) /\ EachOf(cs, fs) /\ EachOf(ds, fs) /\ EachOf(ds, xs)
  BY <1>1, EachOfMore, RecordedIsNew DEF ToldPart
<1>4. IsTail(ns, xs, d)
  BY <1>1, <1>3, NewestIsTail DEF EachOf
<1>5. EachOf(ds, ns) /\ \A i \in DOMAIN ns : d + i \in DOMAIN xs /\ ns[i] = xs[d + i]
  BY <1>3, <1>4, TailHasEach
<1>6. DOMAIN xs = 1 .. n + 1 /\ xs[n + 1] = e /\ \A i \in 1 .. n : xs[i] = es[i]
  BY <1>1, <1>2, <1>3, OneAppended DEF EachOf
<1>7. DOMAIN g = 1 .. b + 1 /\ \A k \in 1 .. b : g[k] = f[k]
  BY <1>1, <1>2, OneAppended
<1>8. DOMAIN s \subseteq 1 .. b
  BY <1>2, SeqFacts
<1>9. \A k \in DOMAIN s : \E j \in DOMAIN fs : fs[j].call = g[k].entry.call
  BY <1>1, <1>7, <1>8 DEF ToldPart
<1>10. ASSUME NEW i \in DOMAIN ns, NEW j \in DOMAIN fs, ns[i].call = fs[j].call,
              \A k \in {a \in DOMAIN g : g[a].entry.call = ns[i].call} : k <= Len(s)
       PROVE  ns[i] = fs[j]
  <2>1. PICK p \in 1 .. n + 1 : ns[i] = xs[p]
    BY <1>5, <1>6
  <2>2. fs[j].call \in 1 .. m
    BY <1>2, <1>3 DEF EachOf
  <2>3. p # n + 1
    BY <1>2, <1>6, <1>10, <2>1, <2>2
  <2>4. p \in DOMAIN es /\ ns[i] = es[p]
    BY <1>2, <1>6, <2>1, <2>3
  <2>5. \A k \in {a \in DOMAIN f : f[a].entry.call = es[p].call} : k <= Len(s)
    <3> SUFFICES ASSUME NEW k \in DOMAIN f, f[k].entry.call = es[p].call PROVE k <= Len(s)
      OBVIOUS
    <3>1. k \in DOMAIN g /\ g[k].entry.call = ns[i].call
      BY <1>2, <1>7, <2>4
    <3> QED
      BY <1>10, <3>1
  <2>6. es[p].call = fs[j].call
    BY <1>10, <2>4
  <2>7. es[p] = fs[j]
    BY <1>1, <2>4, <2>5, <2>6 DEF ToldPart
  <2> QED
    BY <2>4, <2>7
<1> QED
  BY <1>1, <1>3, <1>5, <1>9, <1>10 DEF ToldPart

(* The line of a revision, out of reach of the scanner: its call is one    *)
(* the rest of the file has something to say of.                           *)
LEMMA PartOfRevised ==
  ASSUME NEW es, NEW cs, NEW f, NEW s, IsSeq(f), IsSeq(s), Len(s) \in 0 .. Len(f),
         ToldPart(es, cs, f, s), NEW i \in DOMAIN es,
         NEW l, NEW e, l.entry = e, IsEntry(e), e.rev \in Nat, e.call = es[i].call, e.tid = es[i].tid
  PROVE  ToldPart([es EXCEPT ![i] = e], cs, Append(f, l), s)
<1>1. PICK xs, fs, g : xs = [es EXCEPT ![i] = e] /\ fs = Fold(s) /\ g = Append(f, l)
  OBVIOUS
<1>2. PICK n \in Nat, b \in Nat : n = Len(es) /\ DOMAIN es = 1 .. n /\ b = Len(f) /\ DOMAIN f = 1 .. b
  BY SeqFacts DEF ToldPart, EachOf
<1>3. EachOf(cs, es) /\ EachOf(cs, fs) /\ EachOf(cs, xs)
  BY <1>1, RevisedIsItsCall DEF ToldPart
<1>4. DOMAIN xs = 1 .. n /\ xs[i] = e /\ \A a \in 1 .. n : a # i => xs[a] = es[a]
  BY <1>1, <1>2, <1>3, OneReplaced DEF EachOf
<1>5. DOMAIN g = 1 .. b + 1 /\ g[b + 1] = l /\ \A k \in 1 .. b : g[k] = f[k]
  BY <1>1, <1>2, OneAppended
<1>6. DOMAIN s \subseteq 1 .. b /\ Len(s) \in 0 .. b
  BY <1>2, SeqFacts
<1>7. \A k \in DOMAIN s : \E j \in DOMAIN fs : fs[j].call = g[k].entry.call
  BY <1>1, <1>5, <1>6 DEF ToldPart
<1>8. ASSUME NEW a \in DOMAIN xs, NEW j \in DOMAIN fs, xs[a].call = fs[j].call,
             \A k \in {c \in DOMAIN g : g[c].entry.call = xs[a].call} : k <= Len(s)
      PROVE  xs[a] = fs[j]
  <2>1. a # i
    <3> SUFFICES ASSUME a = i PROVE FALSE
      OBVIOUS
    <3>1. b + 1 \in DOMAIN g /\ g[b + 1].entry.call = xs[a].call
      BY <1>4, <1>5
    <3>2. b + 1 <= Len(s)
      BY <1>8, <3>1
    <3> QED
      BY <1>6, <3>2
  <2>2. a \in DOMAIN es /\ xs[a] = es[a]
    BY <1>2, <1>4, <2>1
  <2>3. \A k \in {c \in DOMAIN f : f[c].entry.call = es[a].call} : k <= Len(s)
    <3> SUFFICES ASSUME NEW k \in DOMAIN f, f[k].entry.call = es[a].call PROVE k <= Len(s)
      OBVIOUS
    <3>1. k \in DOMAIN g /\ g[k].entry.call = xs[a].call
      BY <1>2, <1>5, <2>2
    <3> QED
      BY <1>8, <3>1
  <2>4. es[a].call = fs[j].call
    BY <1>8, <2>2
  <2>5. es[a] = fs[j]
    BY <1>1, <2>2, <2>3, <2>4 DEF ToldPart
  <2> QED
    BY <2>2, <2>5
<1> QED
  BY <1>1, <1>3, <1>7, <1>8 DEF ToldPart

(* A restart takes over what it reads. *)
LEMMA TellsRead ==
  ASSUME NEW es, NEW cs, NEW f, NEW o, Tells(es, cs, f, o)
  PROVE  Tells(Newest(Fold(Read(f))), cs, f, o)
<1>1. PICK s, fs, ns, d : s = Read(f) /\ fs = Fold(s) /\ ns = Newest(fs) /\ d = Dropped(fs)
  OBVIOUS
<1>2. ToldPart(es, cs, f, s) /\ EachOf(cs, fs)
  BY <1>1 DEF Tells, ToldPart
<1>3. IsTail(ns, fs, d)
  BY <1>1, <1>2, NewestIsTail DEF EachOf
<1>4. EachOf(cs, ns) /\ Agree(ns, fs)
  BY <1>2, <1>3, TailHasEach, AgreeWithItself, AgreeOnTail
<1>5. ASSUME NEW i \in DOMAIN ns, NEW j \in DOMAIN fs, ns[i].call = fs[j].call
      PROVE  ns[i] = fs[j]
  BY <1>4, <1>5, WhatAgreeSays
<1>6. ToldPart(ns, cs, f, s)
  BY <1>1, <1>2, <1>4, <1>5 DEF ToldPart
<1>7. s = f => Told(ns, cs, f, o)
  BY <1>1, ToldOfRead DEF Tells
<1> QED
  BY <1>1, <1>6, <1>7 DEF Tells

(* Nothing is told by an empty file.                                       *)
LEMMA TellsNothing ==
  ASSUME NEW es, NEW cs, NEW o, EachOf(cs, es), o # <<>> \/ es = <<>>
  PROVE  Tells(es, cs, <<>>, o)
<1>1. IsSeq(<<>>) /\ Len(<<>>) = 0
  BY DEF IsSeq
<1>2. Read(<<>>) = <<>>
  <2>1. PICK s : s = Read(<<>>)
    OBVIOUS
  <2>2. IsSeq(s) /\ Len(s) \in 0 .. 0
    BY <1>1, <2>1, ReadIsNoMore
  <2> QED
    BY <2>1, <2>2, SeqFacts
<1> QED
  BY <1>2, ToldOfNothing, PartOfWhole DEF Tells

(* A call recorded, whatever the length of its line. *)
LEMMA TellsRecorded ==
  ASSUME NEW es, NEW cs, NEW f, NEW o, IsSeq(cs), IsSeq(f), Tells(es, cs, f, o),
         NEW t, NEW l, NEW e, Parses(l), l.entry = e,
         IsEntry(e), e.rev = 0, e.call = Len(cs) + 1, e.tid = t,
         NEW f2, NEW o2, (f2 = Append(f, l) /\ o2 = o) \/ (f2 = <<>> /\ o2 # <<>>)
  PROVE  Tells(Newest(Append(es, e)), Append(cs, t), f2, o2)
<1>1. PICK xs, ds, ns : xs = Append(es, e) /\ ds = Append(cs, t) /\ ns = Newest(xs)
  OBVIOUS
<1>2. ToldPart(es, cs, f, Read(f)) /\ EachOf(cs, es)
  BY DEF Tells, ToldPart
<1>3. CASE f2 = <<>> /\ o2 # <<>>
  <2>1. EachOf(ds, xs)
    BY <1>1, <1>2, RecordedIsNew
  <2>2. EachOf(ds, ns)
    <3>1. IsTail(ns, xs, Dropped(xs))
      BY <1>1, <2>1, NewestIsTail DEF EachOf
    <3> QED
      BY <2>1, <3>1, TailHasEach
  <2> QED
    BY <1>1, <1>3, <2>2, TellsNothing
<1>4. CASE f2 = Append(f, l) /\ o2 = o /\ Read(f) = f /\ Read(f2) = f2
  <2>1. Told(es, cs, f, o)
    BY <1>4 DEF Tells
  <2>2. Told(ns, ds, f2, o2)
    BY <1>1, <1>4, <2>1, ToldOfRecorded
  <2> QED
    BY <1>1, <1>4, <2>2, PartOfWhole DEF Tells
<1>5. CASE f2 = Append(f, l) /\ o2 = o /\ Read(f2) = Read(f) /\ Read(f2) # f2
  <2>1. PICK s : s = Read(f)
    OBVIOUS
  <2>2. IsSeq(s) /\ Len(s) \in 0 .. Len(f)
    BY <2>1, ReadIsNoMore
  <2>3. ToldPart(ns, ds, f2, s)
    BY <1>1, <1>2, <1>5, <2>1, <2>2, PartOfRecorded
  <2> QED
    BY <1>1, <1>5, <2>1, <2>3 DEF Tells
<1> QED
  BY <1>3, <1>4, <1>5, ReadOneMore

(* A revision, whatever the length of its line. *)
LEMMA TellsRevised ==
  ASSUME NEW es, NEW cs, NEW f, NEW o, IsSeq(cs), IsSeq(f), Tells(es, cs, f, o),
         NEW i, IsLatest(es, i),
         NEW l, NEW e, Parses(l), l.entry = e,
         IsEntry(e), e.rev \in Nat, e.rev > 0, e.call = es[i].call, e.tid = es[i].tid,
         NEW f2, NEW o2, (f2 = Append(f, l) /\ o2 = o) \/ (f2 = <<>> /\ o2 # <<>>)
  PROVE  Tells([es EXCEPT ![i] = e], cs, f2, o2)
<1>1. PICK xs : xs = [es EXCEPT ![i] = e]
  OBVIOUS
<1>2. ToldPart(es, cs, f, Read(f)) /\ EachOf(cs, es) /\ i \in DOMAIN es
  BY DEF Tells, ToldPart, IsLatest
<1>3. CASE f2 = <<>> /\ o2 # <<>>
  <2>1. EachOf(cs, xs)
    BY <1>1, <1>2, RevisedIsItsCall
  <2> QED
    BY <1>1, <1>3, <2>1, TellsNothing
<1>4. CASE f2 = Append(f, l) /\ o2 = o /\ Read(f) = f /\ Read(f2) = f2
  <2>1. Told(es, cs, f, o)
    BY <1>4 DEF Tells
  <2>2. Told(xs, cs, f2, o2)
    BY <1>1, <1>4, <2>1, ToldOfRevised
  <2> QED
    BY <1>1, <1>4, <2>2, PartOfWhole DEF Tells
<1>5. CASE f2 = Append(f, l) /\ o2 = o /\ Read(f2) = Read(f) /\ Read(f2) # f2
  <2>1. PICK s : s = Read(f)
    OBVIOUS
  <2>2. IsSeq(s) /\ Len(s) \in 0 .. Len(f)
    BY <2>1, ReadIsNoMore
  <2>3. ToldPart(xs, cs, f2, s)
    BY <1>1, <1>2, <1>5, <2>1, <2>2, PartOfRevised
  <2> QED
    BY <1>1, <1>5, <2>1, <2>3 DEF Tells
<1> QED
  BY <1>3, <1>4, <1>5, ReadOneMore

(* At first there is nothing in memory, and nothing in the file.           *)
LEMMA ReadBackInitially == Init => LoadIInv
<1> SUFFICES ASSUME Init PROVE LoadIInv
  OBVIOUS
<1>1. IsSeq(<<>>) /\ DOMAIN <<>> = {}
  <2>1. IsSeq(<<>>)
    BY DEF IsSeq
  <2> QED
    BY <2>1, SeqFacts
<1>2. EachOf(<<>>, <<>>)
  BY <1>1 DEF EachOf
<1>3. Tells(<<>>, <<>>, <<>>, <<>>)
  BY <1>2, TellsNothing
<1> QED
  BY <1>1, <1>3, TraceInitHolds, TellsIsReadBack DEF Init, LoadIInv

(* Memory and the file keep telling the same, call by call.                *)
LEMMA ReadBackStep ==
  ASSUME LoadIInv, ChainIInv', [Next]_vars
  PROVE  LoadIInv'
<1>9. ReadBackHolds' <=> IsSeq(calls)' /\ (~mishap' => Tells(entries, calls, file, old)')
  BY TellsIsReadBack, PTL
<1>0. IsSeq(calls) /\ IsSeq(file) /\ (~mishap => Tells(entries, calls, file, old))
  BY TellsIsReadBack DEF LoadIInv, ChainIInv, FilesHold
<1>1. ASSUME NEW t \in TraceId, Record(t)
      PROVE  ReadBackHolds'
  <2>1. PICK e : /\ e = [tid |-> t, call |-> Len(calls) + 1, rev |-> 0, by |-> 0]
                 /\ entries' = Newest(Append(entries, e)) /\ AppendLocked(e)
    BY <1>1 DEF Record
  <2>2. calls' = Append(calls, t)
    BY <1>1 DEF Record
  <2>3. IsSeq(calls')
    BY <1>0, <2>2, OneAppended
  <2>4. ASSUME ~mishap'
        PROVE  Tells(entries', calls', file', old')
    <3>1. ~mishap /\ \E l : /\ Parses(l) /\ l.entry = e
                           /\ \/ file' = Append(file, l) /\ old' = old
                              \/ file' = <<>> /\ old' # <<>>
      BY <2>1, <2>4, WholeLineMore DEF LoadIInv
    <3>2. PICK l, f2, o2 : /\ Parses(l) /\ l.entry = e /\ f2 = file' /\ o2 = old'
                           /\ (f2 = Append(file, l) /\ o2 = old) \/ (f2 = <<>> /\ o2 # <<>>)
      BY <3>1
    <3>3. IsEntry(e) /\ e.rev = 0 /\ e.call = Len(calls) + 1 /\ e.tid = t
      BY <2>1 DEF IsEntry
    <3>4. Tells(Newest(Append(entries, e)), Append(calls, t), f2, o2)
      BY <1>0, <3>1, <3>2, <3>3, TellsRecorded
    <3> QED
      BY <2>1, <2>2, <3>2, <3>4
  <2> QED
    BY <1>9, <2>3, <2>4
<1>2. ASSUME NEW c \in DOMAIN calls, Update(c)
      PROVE  ReadBackHolds'
  <2>1. PICK i, e : /\ i = LatestOf(entries, calls[c]) /\ i # 0
                    /\ e = [entries[i] EXCEPT !.rev = @ + 1, !.by = c]
                    /\ entries' = [entries EXCEPT ![i] = e] /\ AppendLocked(e)
    BY <1>2 DEF Update, LatestOf
  <2>2. calls' = calls
    BY <1>2 DEF Update
  <2>3. ASSUME ~mishap'
        PROVE  Tells(entries', calls', file', old')
    <3>1. ~mishap /\ \E l : /\ Parses(l) /\ l.entry = e
                           /\ \/ file' = Append(file, l) /\ old' = old
                              \/ file' = <<>> /\ old' # <<>>
      BY <2>1, <2>3, WholeLineMore DEF LoadIInv
    <3>2. PICK l, f2, o2 : /\ Parses(l) /\ l.entry = e /\ f2 = file' /\ o2 = old'
                           /\ (f2 = Append(file, l) /\ o2 = old) \/ (f2 = <<>> /\ o2 # <<>>)
      BY <3>1
    <3>3. EachOf(calls, entries) /\ IsSeq(entries)
      BY <1>0, <3>1 DEF Tells, ToldPart, EachOf
    <3>4. IsLatest(entries, i) /\ i \in DOMAIN entries
      BY <2>1, <3>3, LatestIsLatest DEF IsLatest
    <3>5. PICK b : b = entries[i]
      OBVIOUS
    <3>6. b = [tid |-> b.tid, call |-> b.call, rev |-> b.rev, by |-> b.by] /\ b.rev \in Nat
      BY <3>3, <3>4, <3>5 DEF EachOf, IsEntry
    <3>7. e = [tid |-> b.tid, call |-> b.call, rev |-> b.rev + 1, by |-> c]
      BY <2>1, <3>5, <3>6
    <3>8. IsEntry(e) /\ e.rev \in Nat /\ e.rev > 0 /\ e.call = entries[i].call /\ e.tid = entries[i].tid
      BY <3>5, <3>6, <3>7 DEF IsEntry
    <3>9. Tells([entries EXCEPT ![i] = e], calls, f2, o2)
      BY <1>0, <3>1, <3>2, <3>4, <3>8, TellsRevised
    <3> QED
      BY <2>1, <2>2, <3>2, <3>9
  <2> QED
    BY <1>0, <1>9, <2>2, <2>3
<1>3. CASE Restart
  <2>1. entries' = Newest(Fold(Read(file))) /\ UNCHANGED <<calls, file, old, mishap>>
    BY <1>3 DEF Restart, LoadFromFile, callVars
  <2>2. ~mishap => Tells(Newest(Fold(Read(file))), calls, file, old)
    BY <1>0, TellsRead
  <2>3. ReadBackHolds'
    BY <1>0, <1>9, <2>1, <2>2
  <2> QED
    BY <2>3 DEF LoadIInv
<1>4. CASE Stop \/ UNCHANGED vars
  <2>1. UNCHANGED <<entries, calls, file, old, mishap>>
    BY <1>4 DEF Stop, vars, fileVars, callVars
  <2>2. ReadBackHolds'
    BY <1>0, <1>9, <2>1
  <2> QED
    BY <2>2 DEF LoadIInv
<1> QED
  BY <1>1, <1>2, <1>3, <1>4 DEF Next, LoadIInv

(* The invariant of what a restart would read: for any sizes, trace ids    *)
(* and number of restarts, memory and the lines before the first one over  *)
(* 1 MiB tell the same of every call no later line is about, as long as    *)
(* every write went through.                                               *)
THEOREM LoadInductive == Spec => []LoadIInv
<1>1. LoadIInv /\ ChainIInv' /\ [Next]_vars => LoadIInv'
  BY ReadBackStep
<1> QED
  BY <1>1, ReadBackInitially, ChainInductive, PTL DEF Spec

(* What the next process would read back is what this one holds, entry by  *)
(* entry and revision by revision, until a file is rotated away or a line  *)
(* is over 1 MiB (loadFromFile, Update).                                   *)
THEOREM RestartKeepsAll == Spec => []RestartKeepsTheEntries
<1>1. LoadIInv => RestartKeepsTheEntries
  BY DEF LoadIInv, ReadBackHolds, RestartKeepsTheEntries, LoadFromFile
<1> QED
  BY <1>1, LoadInductive, PTL

(* After a rotation too, and after a line over 1 MiB, an entry all of      *)
(* whose lines in the current file come before the first such line is read *)
(* back once, at the revision it has in memory (loadFromFile).             *)
THEOREM LatestIsLoaded == Spec => []LatestRevisionIsLoaded
<1>1. LoadIInv => LatestRevisionIsLoaded
  <2> SUFFICES ASSUME LoadIInv, ~mishap, NEW i \in DOMAIN entries,
                      LinesOf(entries[i].call) # {},
                      LinesOf(entries[i].call) \subseteq DOMAIN Read(file)
               PROVE  {e \in ToSet(Fold(Read(file))) : e.call = entries[i].call} = {entries[i]}
    BY DEF LatestRevisionIsLoaded
  <2>1. PICK s, fs : s = Read(file) /\ fs = Fold(s)
    OBVIOUS
  <2>2. ToldPart(entries, calls, file, s)
    BY <2>1, TellsIsReadBack DEF LoadIInv, Tells
  <2>3. PICK k \in DOMAIN s : file[k].entry.call = entries[i].call
    BY <2>1 DEF LinesOf
  <2>4. PICK j \in DOMAIN fs : fs[j].call = entries[i].call
    BY <2>1, <2>2, <2>3 DEF ToldPart
  <2>5. fs[j] = entries[i]
    <3>1. DOMAIN s = 1 .. Len(s) /\ Len(s) \in Nat
      BY <2>1, ReadIsNoMore, SeqFacts DEF LoadIInv, ChainIInv, FilesHold
    <3>2. \A n \in {a \in DOMAIN file : file[a].entry.call = entries[i].call} : n <= Len(s)
      BY <2>1, <3>1 DEF LinesOf
    <3> QED
      BY <2>1, <2>2, <2>4, <3>2 DEF ToldPart
  <2>6. \A m \in DOMAIN fs : fs[m].call = fs[j].call => m = j
    BY <2>1, <2>2 DEF ToldPart, EachOf
  <2>7. ToSet(fs) = {fs[m] : m \in DOMAIN fs}
    BY DEF ToSet
  <2> QED
    BY <2>1, <2>4, <2>5, <2>6, <2>7
<1> QED
  BY <1>1, LoadInductive, PTL

-----------------------------------------------------------------------------
(* Types *)

(* The types widen as lines are sealed. *)
LEMMA TypesWiden ==
  ASSUME NEW n \in Nat, NEW m \in Nat, n <= m
  PROVE  /\ EntryUpTo(n) \subseteq EntryUpTo(m) /\ LineUpTo(n) \subseteq LineUpTo(m)
         /\ Seq(EntryUpTo(n)) \subseteq Seq(EntryUpTo(m))
         /\ Seq(LineUpTo(n)) \subseteq Seq(LineUpTo(m))
<1>1. 1 .. n \subseteq 1 .. m /\ 0 .. n \subseteq 0 .. m
  OBVIOUS
<1>2. EntryUpTo(n) \subseteq EntryUpTo(m)
  BY <1>1 DEF EntryUpTo
<1>3. LineUpTo(n) \subseteq LineUpTo(m)
  BY <1>1, <1>2 DEF LineUpTo
<1> QED
  BY <1>2, <1>3

(* A sequence of a type is one of what it is made of. *)
LEMMA SeqOfType ==
  ASSUME NEW S, NEW s \in Seq(S)
  PROVE  /\ IsSeq(s) /\ Len(s) \in Nat /\ DOMAIN s = 1 .. Len(s) /\ (s # <<>> => Len(s) # 0)
         /\ \A i \in 1 .. Len(s) : s[i] \in S
BY SeqAgain DEF IsSeq

(* Folding in a line gives entries where it finds entries. *)
LEMMA FoldedInType ==
  ASSUME NEW n \in Nat, NEW es \in Seq(EntryUpTo(n)), NEW l \in LineUpTo(n)
  PROVE  FoldIn(es, l) \in Seq(EntryUpTo(n))
<1>1. PICK i : i = LatestOf(es, l.entry.tid)
  OBVIOUS
<1>2. FoldIn(es, l) = CASE ~Parses(l) -> es
                        [] Parses(l) /\ i # 0 /\ l.entry.rev > 0 -> [es EXCEPT ![i] = l.entry]
                        [] OTHER -> Append(es, l.entry)
  BY <1>1 DEF FoldIn, LatestOf
<1>3. PICK e : e = l.entry /\ e \in EntryUpTo(n)
  BY DEF LineUpTo
<1>4. PICK S : S = EntryUpTo(n)
  OBVIOUS
<1>5. es \in Seq(S) /\ e \in S
  BY <1>3, <1>4
<1>6. i = 0 \/ i \in DOMAIN es
  BY <1>1, SeqOfType, LatestIsLatest DEF IsLatest
<1>7. Append(es, e) \in Seq(S) /\ (i # 0 => [es EXCEPT ![i] = e] \in Seq(S))
  BY <1>5, <1>6
<1>8. FoldIn(es, l) \in {es, Append(es, e)} \/ (i # 0 /\ FoldIn(es, l) = [es EXCEPT ![i] = e])
  BY <1>2, <1>3
<1> QED
  BY <1>4, <1>5, <1>7, <1>8

(* So reading back a file gives entries, however its lines are cut.        *)
LEMMA FoldType ==
  ASSUME NEW n \in Nat, NEW ls \in Seq(LineUpTo(n))
  PROVE  Fold(ls) \in Seq(EntryUpTo(n))
<1>1. PICK L, E : L = LineUpTo(n) /\ E = Seq(EntryUpTo(n))
  OBVIOUS
<1> DEFINE Bad == {k \in Nat : \E s \in Seq(L) : Len(s) = k /\ Fold(s) \notin E}
<1>2. Bad = {}
  <2> SUFFICES ASSUME Bad # {} PROVE FALSE
    OBVIOUS
  <2>1. Bad \subseteq Nat
    OBVIOUS
  <2>2. PICK k \in Bad : \A j \in Bad : ~ (<<j, k>> \in OpToRel(<, Nat))
    <3> HIDE DEF Bad
    <3> QED
      BY <2>1, NatLessThanWellFounded, WFMin
  <2>3. \A j \in Bad : ~ (j < k)
    BY <2>1, <2>2 DEF OpToRel
  <2>4. k \in Nat
    OBVIOUS
  <2>5. PICK s \in Seq(L) : Len(s) = k /\ Fold(s) \notin E
    OBVIOUS
  <2>6. k # 0
    <3> SUFFICES ASSUME k = 0 PROVE FALSE
      OBVIOUS
    <3>1. s = <<>>
      BY <2>5
    <3>2. <<>> \in E
      BY <1>1
    <3> QED
      BY <2>5, <3>1, <3>2, FoldOfNothing
  <2>7. PICK t, l : t = SubSeq(s, 1, k - 1) /\ l = s[k]
    OBVIOUS
  <2>8. t \in Seq(L) /\ l \in L /\ Len(t) = k - 1 /\ s = Append(t, l) /\ k - 1 \in Nat
    BY <2>4, <2>5, <2>6, <2>7
  <2>9. Fold(t) \in E
    <3>1. k - 1 \notin Bad
      BY <2>3, <2>4, <2>8
    <3> QED
      BY <2>8, <3>1
  <2>10. Fold(s) = FoldIn(Fold(t), l)
    BY <2>8, SeqOfType, FoldOneMore
  <2> HIDE DEF Bad
  <2>11. FoldIn(Fold(t), l) \in E
    BY <1>1, <2>8, <2>9, FoldedInType
  <2> QED
    BY <2>5, <2>10, <2>11
<1>3. Len(ls) \in Nat /\ Len(ls) \notin Bad
  BY <1>1, <1>2
<1> QED
  BY <1>1, <1>3

(* Reading up to a line too long gives lines. *)
LEMMA ReadType ==
  ASSUME NEW S, NEW f \in Seq(S)
  PROVE  Read(f) \in Seq(S)
<1>1. PICK s : s = Read(f)
  OBVIOUS
<1>2. PICK n \in 0 .. Len(f) : /\ IsSeq(s) /\ Len(s) = n
                              /\ \A i \in 1 .. n : s[i] = f[i]
  BY <1>1, SeqOfType, ScannedIsPrefix DEF Read
<1>3. \A i \in 1 .. n : s[i] \in S
  BY <1>2
<1>4. s \in Seq(S)
  BY <1>2, <1>3 DEF IsSeq
<1> QED
  BY <1>1, <1>4

(* The newest of them fit. *)
LEMMA NewestType ==
  ASSUME NEW S, NEW es \in Seq(S)
  PROVE  Newest(es) \in Seq(S) /\ Len(Newest(es)) <= MaxEntries
<1>1. PICK ns, d, n : ns = Newest(es) /\ d = Dropped(es) /\ n = Len(es) /\ n \in Nat
  OBVIOUS
<1>2. IsTail(ns, es, d)
  BY <1>1, SeqOfType, NewestIsTail
<1>3. d = IF n > MaxEntries THEN n - MaxEntries ELSE 0
  BY <1>1 DEF Dropped
<1>4. /\ d \in Nat /\ d <= n /\ IsSeq(ns) /\ Len(ns) = n - d
      /\ \A i \in 1 .. n - d : ns[i] = es[d + i]
  BY <1>1, <1>2 DEF IsTail
<1>5. \A i \in 1 .. n - d : ns[i] \in S
  <2> SUFFICES ASSUME NEW i \in 1 .. n - d PROVE ns[i] \in S
    OBVIOUS
  <2>1. d + i \in 1 .. n
    BY <1>1, <1>4
  <2> QED
    BY <1>1, <1>4, <2>1
<1>6. ns \in Seq(S)
  BY <1>4, <1>5 DEF IsSeq
<1>7. n - d <= MaxEntries
  BY <1>1, <1>3, TraceConstants
<1> QED
  BY <1>1, <1>4, <1>6, <1>7

(* A line among lines, whatever is left of it and whatever it is joined to. *)
FitsIn(l, S) ==
  /\ l.size \in Sizes /\ \A x \in S : x.size \in Sizes
  /\ \A x \in Forms : [l EXCEPT !.form = x] \in S
  /\ \A x \in Forms, z \in Sizes : [l EXCEPT !.form = x, !.size = z] \in S

(* What is written is lines, whole or cut. *)
LEMMA WrittenType ==
  ASSUME NEW S, NEW f \in Seq(S), NEW l, NEW o, FitsIn(l, S)
  PROVE  Written(f, l, o) \in Seq(S)
<1>1. \A g \in Seq(S), x \in S : Append(g, x) \in Seq(S)
  OBVIOUS
<1>2. f # <<>> => Front(f) \in Seq(S) /\ Last(f) \in S
  <2> SUFFICES ASSUME f # <<>> PROVE Front(f) \in Seq(S) /\ Last(f) \in S
    OBVIOUS
  <2>1. PICK n \in Nat : Len(f) = n + 1
    <3>1. Len(f) \in Nat /\ Len(f) # 0
      OBVIOUS
    <3>2. Len(f) - 1 \in Nat /\ Len(f) = (Len(f) - 1) + 1
      BY <3>1
    <3> QED
      BY <3>2
  <2>2. Front(f) = SubSeq(f, 1, n)
    BY <2>1 DEF Front
  <2>3. \A i \in 1 .. n : f[i] \in S
    BY <2>1
  <2>4. SubSeq(f, 1, n) \in Seq(S)
    BY <2>3, SubSeqProperties
  <2>5. Last(f) \in S
    BY <2>1 DEF Last
  <2> QED
    BY <2>2, <2>4, <2>5
<1>3. PICK w : w = CASE o = "partial" -> "partial" [] o = "killed" -> "unended" [] OTHER -> "whole"
  OBVIOUS
<1>4. PICK m : m = IF w = "partial" THEN "partial" ELSE "merged"
  OBVIOUS
<1>5. w \in Forms /\ m \in Forms
  BY <1>3, <1>4 DEF Forms
<1>6. PICK x, y : /\ x = [l EXCEPT !.form = w]
                  /\ y = [l EXCEPT !.form = m, !.size = Longer(Last(f).size, l.size)]
  OBVIOUS
<1>7. x \in S
  BY <1>5, <1>6 DEF FitsIn
<1>8. f # <<>> => y \in S
  <2> SUFFICES ASSUME f # <<>> PROVE y \in S
    OBVIOUS
  <2>1. Longer(Last(f).size, l.size) \in Sizes
    <3>1. PICK u, v : u = Last(f).size /\ v = l.size /\ u \in Sizes /\ v \in Sizes
      BY <1>2 DEF FitsIn
    <3>2. u \in {"short", "long", "huge"} /\ v \in {"short", "long", "huge"}
      BY <3>1, TraceConstants
    <3>3. Longer(u, v) \in {u, v}
      BY <3>2 DEF Longer
    <3> QED
      BY <3>1, <3>3
  <2> QED
    BY <1>5, <1>6, <2>1 DEF FitsIn
<1>9. Written(f, l, o) \in {f, Append(f, x)} \/ (f # <<>> /\ Written(f, l, o) = Append(Front(f), y))
  BY <1>3, <1>4, <1>6 DEF Written
<1> QED
  BY <1>1, <1>2, <1>7, <1>8, <1>9

(* Sealing a line keeps the types, one more line later. *)
LEMMA AppendedTypes ==
  ASSUME TypeIInv, NEW e \in EntryUpTo(sealed + 1), AppendLocked(e)
  PROVE  /\ sealed \in Nat /\ sealed' = sealed + 1 /\ sealed' \in 0 .. MaxWrites
         /\ {seq, prevHash}' \subseteq 0 .. sealed' /\ fileSize' \in Nat
         /\ {file, old}' \subseteq Seq(LineUpTo(sealed'))
         /\ {up, stuck, created, mishap}' \subseteq BOOLEAN
<1>0. PICK n \in Nat : n = sealed
  BY TraceConstants DEF TypeIInv
<1>1. /\ sealed' = n + 1 /\ sealed < MaxWrites
      /\ seq' = seq + 1 /\ prevHash' = n + 1
  BY <1>0 DEF AppendLocked
<1>2. PICK o \in WriteOutcomes, r \in RotateOutcomes, sz \in Sizes :
        LET f == IF stuck THEN file ELSE Written(file, Seal(e, sz), o)
            size == IF stuck THEN fileSize ELSE fileSize + (IF o = "lost" THEN 1 ELSE Space(sz))
        IN /\ up' = (stuck \/ o # "killed")
           /\ mishap' = \/ mishap \/ stuck \/ o # "written" \/ sz = "huge"
                        \/ up' /\ size >= LinesPerFile /\ r # "rotated"
           /\ IF up' /\ size >= LinesPerFile
              THEN Rotate(f, r)
              ELSE /\ file' = f /\ fileSize' = size
                   /\ stuck' = (stuck \/ o \in {"lost", "partial"})
                   /\ UNCHANGED <<old, created>>
  BY DEF AppendLocked
<1>3. PICK L : L = LineUpTo(n + 1)
  OBVIOUS
<1>4. file \in Seq(L) /\ old \in Seq(L)
  <2>1. file \in Seq(LineUpTo(n)) /\ old \in Seq(LineUpTo(n))
    BY <1>0 DEF TypeIInv
  <2>2. n + 1 \in Nat /\ n <= n + 1
    OBVIOUS
  <2>3. Seq(LineUpTo(n)) \subseteq Seq(LineUpTo(n + 1))
    BY <2>2, TypesWiden
  <2> QED
    BY <1>3, <2>1, <2>3
<1>5. PICK l : l = Seal(e, sz)
  OBVIOUS
<1>6. /\ l.size \in Sizes /\ \A x \in Forms : [l EXCEPT !.form = x] \in L
      /\ \A x \in Forms, z \in Sizes : [l EXCEPT !.form = x, !.size = z] \in L
  <2>1. l = [entry |-> e, seq |-> seq + 1, prev |-> prevHash, hash |-> n + 1, key |-> key,
             run |-> restarts, form |-> "whole", size |-> sz]
    BY <1>0, <1>5 DEF Seal
  <2>2. seq + 1 \in 1 .. n + 1 /\ prevHash \in 0 .. n + 1 /\ n + 1 \in 1 .. n + 1
    BY <1>0 DEF TypeIInv
  <2>3. e \in EntryUpTo(n + 1) /\ key \in Key /\ restarts \in 0 .. MaxRestarts
    BY <1>0 DEF TypeIInv
  <2>4. l \in L
    BY <1>3, <2>1, <2>2, <2>3 DEF LineUpTo, Forms
  <2>5. \A x \in Forms : [l EXCEPT !.form = x] \in L
    BY <1>3, <2>4 DEF LineUpTo
  <2>6. \A x \in Forms, z \in Sizes : [l EXCEPT !.form = x, !.size = z] \in L
    BY <1>3, <2>4 DEF LineUpTo
  <2>7. l.size \in Sizes
    BY <2>1
  <2> QED
    BY <2>5, <2>6, <2>7
<1>7. PICK f : f = IF stuck THEN file ELSE Written(file, l, o)
  OBVIOUS
<1>8. PICK size : size = IF stuck THEN fileSize ELSE fileSize + (IF o = "lost" THEN 1 ELSE Space(sz))
  OBVIOUS
<1>9. f \in Seq(L)
  <2>1. \A x \in L : x.size \in Sizes
    BY <1>3 DEF LineUpTo
  <2>2. Written(file, l, o) \in Seq(L)
    BY <1>4, <1>6, <2>1, WrittenType DEF FitsIn
  <2> QED
    BY <1>4, <1>7, <2>2
<1>10. size \in Nat
  <2>1. fileSize \in Nat /\ Space(sz) \in Nat
    BY TraceConstants DEF TypeIInv, Space
  <2> QED
    BY <1>8, <2>1
<1>11. /\ up' = (stuck \/ o # "killed")
       /\ mishap' = \/ mishap \/ stuck \/ o # "written" \/ sz = "huge"
                    \/ up' /\ size >= LinesPerFile /\ r # "rotated"
       /\ IF up' /\ size >= LinesPerFile
          THEN Rotate(f, r)
          ELSE /\ file' = f /\ fileSize' = size
               /\ stuck' = (stuck \/ o \in {"lost", "partial"})
               /\ UNCHANGED <<old, created>>
  BY <1>2, <1>5, <1>7, <1>8
<1>12. LinesPerFile \in Nat
  BY TraceConstants
<1>13. file' \in {f, <<>>} /\ old' \in {old, f, <<>>} /\ fileSize' \in Nat
  BY <1>10, <1>11, <1>12 DEF Rotate
<1>14. {up, stuck, created, mishap}' \subseteq BOOLEAN
  BY <1>11 DEF Rotate, TypeIInv
<1>15. <<>> \in Seq(L)
  OBVIOUS
<1>16. {file, old}' \subseteq Seq(L)
  BY <1>4, <1>9, <1>13, <1>15
<1>17. {seq, prevHash}' \subseteq 0 .. n + 1
  BY <1>0, <1>1 DEF TypeIInv
<1>18. n + 1 \in 0 .. MaxWrites
  BY <1>0, <1>1, TraceConstants
<1> QED
  BY <1>0, <1>1, <1>3, <1>13, <1>14, <1>16, <1>17, <1>18

(* Every step keeps the types. *)
LEMMA TypeStep ==
  ASSUME TypeIInv, [Next]_vars
  PROVE  TypeIInv'
<1>0. sealed \in Nat /\ restarts \in Nat
  BY TraceConstants DEF TypeIInv
<1>1. ASSUME NEW t \in TraceId, Record(t)
      PROVE  TypeIInv'
  <2>1. PICK c, e : /\ c = Len(calls) + 1
                    /\ e = [tid |-> t, call |-> c, rev |-> 0, by |-> 0]
                    /\ entries' = Newest(Append(entries, e)) /\ AppendLocked(e)
                    /\ calls' = Append(calls, t)
                    /\ inFlight' = IF up' THEN inFlight \cup {c} ELSE {}
                    /\ UNCHANGED <<key, restarts>>
    BY <1>1 DEF Record
  <2>2. c \in 1 .. sealed + 1 /\ calls \in Seq(TraceId) /\ inFlight \subseteq DOMAIN calls
    BY <1>0, <2>1 DEF TypeIInv
  <2>3. e \in EntryUpTo(sealed + 1)
    BY <1>0, <2>1, <2>2 DEF EntryUpTo
  <2>4. /\ sealed' = sealed + 1 /\ sealed' \in 0 .. MaxWrites
        /\ {seq, prevHash}' \subseteq 0 .. sealed' /\ fileSize' \in Nat
        /\ {file, old}' \subseteq Seq(LineUpTo(sealed'))
        /\ {up, stuck, created, mishap}' \subseteq BOOLEAN
    BY <2>1, <2>3, AppendedTypes
  <2>5. entries' \in Seq(EntryUpTo(sealed')) /\ Len(entries') <= MaxEntries
    <3>1. entries \in Seq(EntryUpTo(sealed + 1))
      <4>1. sealed + 1 \in Nat /\ sealed <= sealed + 1
        BY <1>0
      <4>2. Seq(EntryUpTo(sealed)) \subseteq Seq(EntryUpTo(sealed + 1))
        BY <1>0, <4>1, TypesWiden
      <4> QED
        BY <4>2 DEF TypeIInv
    <3>2. PICK S, es : S = EntryUpTo(sealed + 1) /\ es = Append(entries, e)
      OBVIOUS
    <3>3. es \in Seq(S)
      BY <2>3, <3>1, <3>2
    <3>4. Newest(es) \in Seq(S) /\ Len(Newest(es)) <= MaxEntries
      BY <3>3, NewestType
    <3> QED
      BY <2>1, <2>4, <3>2, <3>4
  <2>6. /\ calls' \in Seq(TraceId) /\ Len(calls') <= sealed'
        /\ inFlight' \subseteq DOMAIN calls'
    <3>1. PICK cs : cs = Append(calls, t)
      OBVIOUS
    <3>2. /\ cs \in Seq(TraceId) /\ Len(cs) = c
          /\ DOMAIN cs = 1 .. c /\ DOMAIN calls = 1 .. c - 1 /\ c \in Nat
      BY <2>1, <2>2, <3>1
    <3> QED
      BY <1>0, <2>1, <2>2, <2>4, <3>1, <3>2
  <2> QED
    BY <2>1, <2>4, <2>5, <2>6 DEF TypeIInv
<1>2. ASSUME NEW c \in DOMAIN calls, Update(c)
      PROVE  TypeIInv'
  <2>1. PICK i, e : /\ i = LatestOf(entries, calls[c]) /\ i # 0
                    /\ e = [entries[i] EXCEPT !.rev = @ + 1, !.by = c]
                    /\ entries' = [entries EXCEPT ![i] = e] /\ AppendLocked(e)
                    /\ inFlight' = IF up' THEN inFlight ELSE {}
                    /\ UNCHANGED <<calls, key, restarts>>
    BY <1>2 DEF Update, LatestOf
  <2>2. c \in 1 .. sealed
    BY <1>0 DEF TypeIInv
  <2>3. i \in DOMAIN entries
    BY <2>1, SeqOfType, LatestIsLatest DEF IsLatest, TypeIInv
  <2>4. PICK b : b = entries[i] /\ b \in EntryUpTo(sealed)
    BY <2>3 DEF TypeIInv
  <2>5. e \in EntryUpTo(sealed + 1)
    <3>1. b = [tid |-> b.tid, call |-> b.call, rev |-> b.rev, by |-> b.by]
      BY <2>4 DEF EntryUpTo
    <3>2. e = [tid |-> b.tid, call |-> b.call, rev |-> b.rev + 1, by |-> c]
      BY <2>1, <2>4, <3>1
    <3>3. b.tid \in TraceId /\ b.call \in 1 .. sealed /\ b.rev \in 0 .. sealed
      BY <2>4 DEF EntryUpTo
    <3>4. b.call \in 1 .. sealed + 1 /\ b.rev + 1 \in 0 .. sealed + 1 /\ c \in 0 .. sealed + 1
      BY <1>0, <2>2, <3>3
    <3> QED
      BY <3>2, <3>3, <3>4 DEF EntryUpTo
  <2>6. /\ sealed' = sealed + 1 /\ sealed' \in 0 .. MaxWrites
        /\ {seq, prevHash}' \subseteq 0 .. sealed' /\ fileSize' \in Nat
        /\ {file, old}' \subseteq Seq(LineUpTo(sealed'))
        /\ {up, stuck, created, mishap}' \subseteq BOOLEAN
    BY <2>1, <2>5, AppendedTypes
  <2>7. entries' \in Seq(EntryUpTo(sealed')) /\ Len(entries') <= MaxEntries
    <3>1. PICK S : S = EntryUpTo(sealed + 1)
      OBVIOUS
    <3>2. entries \in Seq(S) /\ e \in S /\ Len(entries) <= MaxEntries
      BY <1>0, <2>5, <3>1, TypesWiden DEF TypeIInv
    <3>3. PICK es : es = [entries EXCEPT ![i] = e]
      OBVIOUS
    <3>4. es \in Seq(S) /\ Len(es) = Len(entries)
      BY <2>3, <3>2, <3>3
    <3> QED
      BY <2>1, <2>6, <3>1, <3>2, <3>3, <3>4
  <2>8. Len(calls') <= sealed' /\ inFlight' \subseteq DOMAIN calls'
    BY <1>0, <2>1, <2>6 DEF TypeIInv
  <2> QED
    BY <2>1, <2>6, <2>7, <2>8 DEF TypeIInv
<1>3. CASE Restart
  <2>1. /\ up' = TRUE /\ restarts' = restarts + 1 /\ restarts < MaxRestarts /\ key' \in Key
        /\ entries' = Newest(Fold(Read(file)))
        /\ fileSize' = Extent(file) /\ stuck' = FALSE /\ created' = TRUE
        /\ UNCHANGED <<file, old, sealed, mishap, calls, inFlight>>
    BY <1>3 DEF Restart, LoadFromFile, callVars
  <2>2. Fold(Read(file)) \in Seq(EntryUpTo(sealed))
    <3>1. PICK L : L = LineUpTo(sealed) /\ file \in Seq(L)
      BY DEF TypeIInv
    <3>2. Read(file) \in Seq(L)
      BY <3>1, ReadType
    <3> QED
      BY <1>0, <3>1, <3>2, FoldType
  <2>3. entries' \in Seq(EntryUpTo(sealed)) /\ Len(entries') <= MaxEntries
    BY <2>1, <2>2, NewestType
  <2>f. fileSize' \in Nat
    <3>1. Len(file) \in Nat /\ LinesPerFile \in Nat
      BY SeqOfType, TraceConstants DEF TypeIInv
    <3> QED
      BY <2>1, <3>1 DEF Extent
  <2>4. seq' \in 0 .. sealed /\ prevHash' \in 0 .. sealed
    <3>1. PICK i, j : i = LastEnvelope(file) /\ j = LastEnvelope(old)
      OBVIOUS
    <3>2. i \in 0 .. Len(file) /\ j \in 0 .. Len(old)
      BY <3>1, SeqOfType, LastOfEnvelopes DEF TypeIInv
    <3>3. \/ \E l \in LineUpTo(sealed) : seq' = l.seq /\ prevHash' = l.hash
          \/ seq' = 0 /\ prevHash' = 0
      <4>1. \A k \in 1 .. Len(file) : file[k] \in LineUpTo(sealed)
        BY SeqOfType DEF TypeIInv
      <4>2. \A k \in 1 .. Len(old) : old[k] \in LineUpTo(sealed)
        BY SeqOfType DEF TypeIInv
      <4>3. IF i # 0 THEN seq' = file[i].seq /\ prevHash' = file[i].hash
            ELSE IF j # 0 THEN seq' = old[j].seq /\ prevHash' = old[j].hash
            ELSE seq' = 0 /\ prevHash' = 0
        BY <1>3, <3>1 DEF Restart
      <4>4. CASE i # 0
        <5>1. i \in 1 .. Len(file)
          BY <3>2, <4>4
        <5> QED
          BY <4>1, <4>3, <4>4, <5>1
      <4>5. CASE i = 0 /\ j # 0
        <5>1. j \in 1 .. Len(old)
          BY <3>2, <4>5
        <5> QED
          BY <4>2, <4>3, <4>5, <5>1
      <4> QED
        BY <4>3, <4>4, <4>5
    <3>4. \A l \in LineUpTo(sealed) : l.seq \in 0 .. sealed /\ l.hash \in 0 .. sealed
      BY <1>0 DEF LineUpTo
    <3> QED
      BY <1>0, <3>3, <3>4
  <2>5. restarts' \in 0 .. MaxRestarts
    BY <1>0, <2>1, TraceConstants
  <2> QED
    BY <2>1, <2>3, <2>f, <2>4, <2>5 DEF TypeIInv
<1>4. CASE Stop
  BY <1>4 DEF Stop, fileVars, TypeIInv
<1>5. CASE UNCHANGED vars
  BY <1>5 DEF vars, storeVars, fileVars, callVars, TypeIInv
<1> QED
  BY <1>1, <1>2, <1>3, <1>4, <1>5 DEF Next

(* At first nothing is sealed. *)
LEMMA TypesInitially == Init => TypeIInv
<1> SUFFICES ASSUME Init PROVE TypeIInv
  OBVIOUS
<1>1. \A S : <<>> \in Seq(S)
  OBVIOUS
<1>2. Len(<<>>) = 0
  OBVIOUS
<1>3. 0 \in 0 .. MaxWrites /\ 0 \in 0 .. MaxRestarts /\ 0 <= MaxEntries
  BY TraceConstants
<1>4. {file, old} \subseteq Seq(LineUpTo(sealed))
  BY <1>1 DEF Init
<1>5. entries \in Seq(EntryUpTo(sealed)) /\ Len(entries) <= MaxEntries
  BY <1>1, <1>2, <1>3 DEF Init
<1>6. calls \in Seq(TraceId) /\ Len(calls) <= sealed /\ inFlight \subseteq DOMAIN calls
  BY <1>1, <1>2 DEF Init
<1>7. sealed = 0 /\ seq = 0 /\ prevHash = 0 /\ fileSize = 0
  BY DEF Init
<1>8. up \in BOOLEAN /\ key \in Key /\ restarts \in 0 .. MaxRestarts /\ {stuck, created, mishap} \subseteq BOOLEAN
  BY <1>3 DEF Init
<1> QED
  BY <1>3, <1>4, <1>5, <1>6, <1>7, <1>8 DEF TypeIInv

(* Every reachable state of the trace store is type correct, whatever is   *)
(* cut, lost, merged, rotated away and read back.                          *)
THEOREM TraceTypes == Spec => []TypeOK
<1>1. TypeIInv => TypeOK
  <2> SUFFICES ASSUME TypeIInv PROVE TypeOK
    OBVIOUS
  <2>1. PICK n \in Nat : n = sealed /\ MaxWrites \in Nat /\ n <= MaxWrites
    BY TraceConstants DEF TypeIInv
  <2>2. EntryUpTo(MaxWrites) = Entry /\ LineUpTo(MaxWrites) = Line
    BY DEF EntryUpTo, LineUpTo, Entry, Line
  <2>3. Seq(EntryUpTo(n)) \subseteq Seq(Entry) /\ Seq(LineUpTo(n)) \subseteq Seq(Line)
    BY <2>1, <2>2, TypesWiden
  <2> QED
    BY <2>1, <2>3 DEF TypeIInv, TypeOK
<1> QED
  BY <1>1, TypesInitially, TypeStep, PTL DEF Spec

-----------------------------------------------------------------------------
(* The exporter *)

USE ExporterConstants

-----------------------------------------------------------------------------
(* Queues *)

(* What Append puts in: one element more, no repetition if it is new.      *)
LEMMA Appended ==
  ASSUME NEW S, NEW q \in Seq(S), NEW e \in S
  PROVE  /\ Append(q, e) \in Seq(S) /\ Len(Append(q, e)) = Len(q) + 1
         /\ ToSet(Append(q, e)) = ToSet(q) \cup {e}
         /\ IsInjective(q) /\ e \notin ToSet(q) => IsInjective(Append(q, e))
<1> DEFINE r == Append(q, e)
<1>1. /\ r \in Seq(S) /\ Len(r) = Len(q) + 1
      /\ \A i \in 1 .. Len(q) : r[i] = q[i]
      /\ r[Len(q) + 1] = e
  BY AppendProperties
<1>2. /\ DOMAIN q = 1 .. Len(q) /\ Len(q) \in Nat
      /\ DOMAIN r = 1 .. Len(q) + 1
  BY <1>1
<1>3. DOMAIN r = DOMAIN q \cup {Len(q) + 1} /\ Len(q) + 1 \notin DOMAIN q
  BY <1>2
<1>4. ToSet(r) = ToSet(q) \cup {e}
  <2>1. ASSUME NEW i \in DOMAIN r PROVE r[i] \in ToSet(q) \cup {e}
    BY <1>1, <1>2, <1>3, <2>1 DEF ToSet
  <2>2. ASSUME NEW i \in DOMAIN q PROVE q[i] \in ToSet(r)
    <3>1. i \in DOMAIN r /\ r[i] = q[i]
      BY <1>1, <1>2, <1>3, <2>2
    <3> QED
      BY <3>1 DEF ToSet
  <2>3. e \in ToSet(r)
    <3>1. Len(q) + 1 \in DOMAIN r /\ r[Len(q) + 1] = e
      BY <1>1, <1>3
    <3> QED
      BY <3>1, Zenon DEF ToSet
  <2> HIDE DEF r
  <2> QED
    BY <2>1, <2>2, <2>3, Zenon DEF ToSet
<1>5. ASSUME IsInjective(q), e \notin ToSet(q) PROVE IsInjective(r)
  BY <1>1, <1>2, <1>3, <1>5, Zenon DEF IsInjective, ToSet
<1> QED
  BY <1>1, <1>4, <1>5

(* What Head and Tail take out.                                            *)
LEMMA Taken ==
  ASSUME NEW S, NEW q \in Seq(S), q # <<>>, IsInjective(q)
  PROVE  /\ Head(q) \in S /\ Tail(q) \in Seq(S) /\ Len(Tail(q)) = Len(q) - 1
         /\ ToSet(q) = ToSet(Tail(q)) \cup {Head(q)}
         /\ Head(q) \notin ToSet(Tail(q))
         /\ IsInjective(Tail(q))
<1> DEFINE t == Tail(q)
<1>1. /\ t \in Seq(S) /\ Len(t) = Len(q) - 1 /\ Head(q) \in S
      /\ \A i \in 1 .. Len(t) : t[i] = q[i + 1]
      /\ Head(q) = q[1]
  BY HeadTailProperties
<1>2. /\ DOMAIN q = 1 .. Len(q) /\ Len(q) \in Nat \ {0}
      /\ DOMAIN t = 1 .. Len(q) - 1
  BY <1>1
<1>3. /\ \A i \in DOMAIN t : t[i] = q[i + 1] /\ i + 1 \in DOMAIN q /\ i + 1 # 1
      /\ \A j \in DOMAIN q : j = 1 \/ \E i \in DOMAIN t : j = i + 1
      /\ \A i, j \in DOMAIN t : i + 1 = j + 1 => i = j
      /\ 1 \in DOMAIN q
  <2>1. \A i \in DOMAIN t : t[i] = q[i + 1] /\ i + 1 \in DOMAIN q /\ i + 1 # 1
    BY <1>1, <1>2
  <2>2. ASSUME NEW j \in DOMAIN q, j # 1 PROVE \E i \in DOMAIN t : j = i + 1
    <3>1. j - 1 \in DOMAIN t /\ j = (j - 1) + 1
      BY <1>2, <2>2
    <3> QED
      BY <3>1
  <2>3. (\A i, j \in DOMAIN t : i + 1 = j + 1 => i = j) /\ 1 \in DOMAIN q
    BY <1>2
  <2> QED
    BY <2>1, <2>2, <2>3
<1>4. ToSet(q) = ToSet(t) \cup {Head(q)}
  <2>1. ASSUME NEW j \in DOMAIN q PROVE q[j] \in ToSet(t) \cup {Head(q)}
    <3>1. CASE j = 1
      BY <1>1, <3>1
    <3>2. CASE j # 1
      <4>1. PICK i \in DOMAIN t : j = i + 1
        BY <1>3, <3>2
      <4>2. q[j] = t[i]
        BY <1>3, <4>1
      <4> QED
        BY <4>2 DEF ToSet
    <3> QED
      BY <3>1, <3>2
  <2>2. ASSUME NEW i \in DOMAIN t PROVE t[i] \in ToSet(q)
    <3>1. i + 1 \in DOMAIN q /\ t[i] = q[i + 1]
      BY <1>3
    <3> QED
      BY <3>1 DEF ToSet
  <2>3. Head(q) \in ToSet(q)
    BY <1>1, <1>3 DEF ToSet
  <2> QED
    BY <2>1, <2>2, <2>3 DEF ToSet
<1>5. Head(q) \notin ToSet(t)
  <2>1. ASSUME NEW i \in DOMAIN t PROVE t[i] # Head(q)
    <3>1. t[i] = q[i + 1] /\ i + 1 \in DOMAIN q /\ i + 1 # 1
      BY <1>3
    <3>2. 1 \in DOMAIN q /\ Head(q) = q[1]
      BY <1>1, <1>3
    <3> QED
      BY <3>1, <3>2 DEF IsInjective
  <2> QED
    BY <2>1 DEF ToSet
<1>6. IsInjective(t)
  BY <1>3, Zenon DEF IsInjective
<1> QED
  BY <1>1, <1>4, <1>5, <1>6

(* The empty queue.                                                        *)
LEMMA Empty == ToSet(<<>>) = {} /\ IsInjective(<<>>) /\ <<>> \in Seq(Span) /\ Len(<<>>) = 0
  BY DEF ToSet, IsInjective

(* A queue without repetitions has as many elements as places.             *)
LEMMA Counted ==
  ASSUME NEW S, NEW q \in Seq(S), IsInjective(q)
  PROVE  IsFiniteSet(ToSet(q)) /\ Cardinality(ToSet(q)) = Len(q)
<1>1. /\ DOMAIN q = 1 .. Len(q) /\ Len(q) \in Nat
      /\ q \in [1 .. Len(q) -> S]
  BY LenProperties
<1>2. q \in [1 .. Len(q) -> ToSet(q)]
  BY <1>1 DEF ToSet
<1>3. q \in Surjection(1 .. Len(q), ToSet(q)) /\ q \in Injection(1 .. Len(q), ToSet(q))
  BY <1>1, <1>2, Zenon DEF ToSet, Surjection, Injection
<1>4. IsFiniteSet(1 .. Len(q)) /\ Cardinality(1 .. Len(q)) = Len(q)
  <2>1. Len(q) \in Int /\ 1 \in Int
    BY <1>1
  <2>2. IsFiniteSet(1 .. Len(q)) /\ Cardinality(1 .. Len(q)) = IF 1 > Len(q) THEN 0 ELSE Len(q) - 1 + 1
    BY <2>1, FS_Interval
  <2> QED
    BY <1>1, <2>2
<1> QED
  BY <1>3, <1>4, FS_Surjection

(* Sets with nothing in common add up.                                     *)
LEMMA Disjoint ==
  ASSUME NEW S, NEW T, IsFiniteSet(S), IsFiniteSet(T), S \cap T = {}
  PROVE  IsFiniteSet(S \cup T) /\ Cardinality(S \cup T) = Cardinality(S) + Cardinality(T)
<1>1. Cardinality({}) = 0
  BY FS_EmptySet
<1>2. Cardinality(S) \in Nat /\ Cardinality(T) \in Nat
  BY FS_CardinalityType
<1>3. /\ IsFiniteSet(S \cup T)
      /\ Cardinality(S \cup T) = Cardinality(S) + Cardinality(T) - Cardinality(S \cap T)
  BY FS_Union
<1> QED
  BY <1>1, <1>2, <1>3

-----------------------------------------------------------------------------
(* The steps *)

LEMMA InitIInv == ExporterInit => ExporterIInv
<1> SUFFICES ASSUME ExporterInit PROVE ExporterIInv
  OBVIOUS
<1>1. ExporterTypeOK
  <2>1. QueueSize \in Nat /\ BatchSize \in Nat /\ 0 \in 0 .. Spans /\ 0 \in 0 .. MaxAttempts
    OBVIOUS
  <2>2. received \in [Span -> 0 .. MaxAttempts]
    BY <2>1 DEF ExporterInit
  <2>3. /\ queue \in Seq(Span) /\ Len(queue) <= QueueSize
        /\ batch \in Seq(Span) /\ Len(batch) <= BatchSize
    BY <2>1, Empty DEF ExporterInit
  <2> QED
    BY <2>1, <2>2, <2>3 DEF ExporterInit, ExporterTypeOK
<1>2. OnePlace
  BY Empty DEF ExporterInit, OnePlace, Left
<1>3. BatchHasRoom /\ DeliveredByAttempt /\ LostUnposted
  BY Empty DEF ExporterInit, BatchHasRoom, DeliveredByAttempt, LostUnposted
<1> QED
  BY <1>1, <1>2, <1>3 DEF ExporterIInv

(* A span joins the queue, or is dropped, under a number nobody has.       *)
LEMMA ExportStep == ExporterIInv /\ Export => ExporterIInv'
<1> SUFFICES ASSUME ExporterIInv, Export PROVE ExporterIInv'
  OBVIOUS
<1> DEFINE span == exported + 1
<1>1. /\ exported \in 0 .. Spans /\ span \in Span /\ span \notin 1 .. exported
      /\ 1 .. span = (1 .. exported) \cup {span}
  BY DEF ExporterIInv, ExporterTypeOK, Export, Span
<1>2. span \notin sent \cup failed \cup dropped \cup lost \cup ToSet(queue) \cup ToSet(batch)
  BY <1>1 DEF ExporterIInv, OnePlace, Left
<1>3. received[span] = 0
  BY <1>1 DEF ExporterIInv, DeliveredByAttempt, ExporterTypeOK
<1>4. CASE Len(queue) < QueueSize
  <2>1. queue' = Append(queue, span) /\ dropped' = dropped
    BY <1>4 DEF Export
  <2>2. /\ queue' \in Seq(Span) /\ Len(queue') = Len(queue) + 1
        /\ ToSet(queue') = ToSet(queue) \cup {span}
        /\ IsInjective(queue')
    BY <1>1, <1>2, <2>1, Appended DEF ExporterIInv, ExporterTypeOK, OnePlace
  <2>3. ExporterTypeOK'
    <3>1. Len(queue') <= QueueSize
      BY <1>4, <2>2 DEF ExporterIInv, ExporterTypeOK
    <3> QED
      BY <1>1, <2>1, <2>2, <3>1 DEF ExporterIInv, ExporterTypeOK, Export
  <2>4. OnePlace'
    BY <1>1, <1>2, <2>1, <2>2 DEF ExporterIInv, OnePlace, Left, Export
  <2>5. BatchHasRoom' /\ DeliveredByAttempt' /\ LostUnposted'
    BY <1>1, <1>3, <2>1, <2>2 DEF ExporterIInv, BatchHasRoom, DeliveredByAttempt, LostUnposted, Export, Span
  <2> QED
    BY <2>3, <2>4, <2>5 DEF ExporterIInv
<1>5. CASE ~(Len(queue) < QueueSize)
  <2>1. queue' = queue /\ dropped' = dropped \cup {span}
    BY <1>5 DEF Export
  <2>2. ExporterTypeOK'
    BY <1>1, <2>1 DEF ExporterIInv, ExporterTypeOK, Export
  <2>3. OnePlace'
    BY <1>1, <1>2, <2>1 DEF ExporterIInv, OnePlace, Left, Export
  <2>4. BatchHasRoom' /\ DeliveredByAttempt' /\ LostUnposted'
    BY <1>1, <1>3, <2>1 DEF ExporterIInv, BatchHasRoom, DeliveredByAttempt, LostUnposted, Export, Span
  <2> QED
    BY <2>2, <2>3, <2>4 DEF ExporterIInv
<1> QED
  BY <1>4, <1>5

(* The oldest span of the queue moves to the batch, which has room for it. *)
LEMMA TakeStep == ExporterIInv /\ Take => ExporterIInv'
<1> SUFFICES ASSUME ExporterIInv, Take PROVE ExporterIInv'
  OBVIOUS
<1> DEFINE span == Head(queue)
<1>1. /\ span \in Span /\ queue' \in Seq(Span) /\ Len(queue') = Len(queue) - 1
      /\ ToSet(queue) = ToSet(queue') \cup {span} /\ span \notin ToSet(queue')
      /\ IsInjective(queue')
  BY Taken DEF ExporterIInv, ExporterTypeOK, OnePlace, Take
<1>2. span \notin ToSet(batch)
  BY <1>1 DEF ExporterIInv, OnePlace
<1>3. /\ batch' \in Seq(Span) /\ Len(batch') = Len(batch) + 1
      /\ ToSet(batch') = ToSet(batch) \cup {span}
      /\ IsInjective(batch')
  BY <1>1, <1>2, Appended DEF ExporterIInv, ExporterTypeOK, OnePlace, Take
<1>4. Len(batch) \in Nat /\ Len(queue) \in Nat /\ Len(batch) < BatchSize
  BY DEF ExporterIInv, ExporterTypeOK, BatchHasRoom, Take
<1>5. ExporterTypeOK'
  <2>1. attempt' \in 0 .. MaxAttempts
    BY DEF Take
  <2>2. Len(queue') <= QueueSize /\ Len(batch') <= BatchSize
    BY <1>1, <1>3, <1>4 DEF ExporterIInv, ExporterTypeOK
  <2> QED
    BY <1>1, <1>3, <2>1, <2>2 DEF ExporterIInv, ExporterTypeOK, Take, counters
<1>6. OnePlace'
  BY <1>1, <1>2, <1>3 DEF ExporterIInv, OnePlace, Left, Take, counters
<1>7. BatchHasRoom'
  BY <1>3, <1>4 DEF BatchHasRoom, Take
<1>8. DeliveredByAttempt'
  <2>1. received[span] = 0
    BY <1>1 DEF ExporterIInv, DeliveredByAttempt
  <2>2. \A s \in ToSet(batch) : received[s] = 0
    <3>1. \A s \in ToSet(batch) : s \in Span
      BY DEF ExporterIInv, ExporterTypeOK, ToSet
    <3> QED
      BY <3>1 DEF ExporterIInv, DeliveredByAttempt, Take, ExporterTypeOK
  <2> QED
    BY <1>1, <1>3, <2>1, <2>2 DEF ExporterIInv, DeliveredByAttempt, Take, counters
<1>9. LostUnposted'
  BY DEF ExporterIInv, LostUnposted, Take, counters
<1> QED
  BY <1>5, <1>6, <1>7, <1>8, <1>9 DEF ExporterIInv

(* run and Close move on.                                                  *)
LEMMA ControlStep ==
  ExporterIInv /\ (Flush \/ SeeDone \/ Drained \/ Close \/ CloseReturns \/ Exit) => ExporterIInv'
<1> SUFFICES ASSUME ExporterIInv, Flush \/ SeeDone \/ Drained \/ Close \/ CloseReturns \/ Exit
             PROVE  ExporterIInv'
  OBVIOUS
<1>1. /\ UNCHANGED <<parses, exported, queue, batch, sent, failed, dropped, lost, received, late>>
      /\ attempt' = attempt \/ (attempt = 0 /\ attempt' = 1)
  BY DEF Flush, SeeDone, Drained, Close, CloseReturns, Exit, counters
<1>2. ExporterTypeOK'
  <2>1. /\ run' \in {"batching", "draining", "last", "stopped", "gone"}
        /\ done' \in BOOLEAN /\ closer' \in {"no", "waiting", "returned", "timedOut"}
    BY DEF ExporterIInv, ExporterTypeOK, Flush, SeeDone, Drained, Close, CloseReturns, Exit
  <2>2. attempt' \in 0 .. MaxAttempts
    BY <1>1 DEF ExporterIInv, ExporterTypeOK
  <2> QED
    BY <1>1, <2>1, <2>2 DEF ExporterIInv, ExporterTypeOK
<1>3. OnePlace'
  BY <1>1 DEF ExporterIInv, OnePlace, Left
<1>4. BatchHasRoom'
  BY <1>1 DEF ExporterIInv, BatchHasRoom
<1>5. DeliveredByAttempt'
  <2>1. \A s \in ToSet(batch) : s \in Span
    BY DEF ExporterIInv, ExporterTypeOK, ToSet
  <2> QED
    BY <1>1, <2>1 DEF ExporterIInv, DeliveredByAttempt, ExporterTypeOK
<1>6. LostUnposted'
  BY <1>1 DEF ExporterIInv, LostUnposted
<1> QED
  BY <1>2, <1>3, <1>4, <1>5, <1>6 DEF ExporterIInv

(* What a POST may have delivered.                                         *)
LEMMA Delivered ==
  ASSUME ExporterIInv, attempt > 0, received' \in {received, Stored}
  PROVE  /\ received' \in [Span -> 0 .. MaxAttempts]
         /\ \A s \in Span : s \notin ToSet(batch) => received'[s] = received[s]
         /\ \A s \in ToSet(batch) : received'[s] <= attempt
         /\ ToSet(batch) \subseteq Span
<1>1. ToSet(batch) \subseteq Span
  BY DEF ExporterIInv, ExporterTypeOK, ToSet
<1>2. received \in [Span -> 0 .. MaxAttempts] /\ attempt \in 1 .. MaxAttempts
  BY DEF ExporterIInv, ExporterTypeOK
<1>3. \A s \in ToSet(batch) : received[s] < attempt
  BY <1>1, <1>2 DEF ExporterIInv, DeliveredByAttempt
<1>4. CASE received' = received
  BY <1>1, <1>2, <1>3, <1>4
<1>5. CASE received' = Stored
  <2>1. Stored \in [Span -> 0 .. MaxAttempts]
    BY <1>2, <1>3 DEF Stored
  <2> QED
    BY <1>1, <1>2, <1>3, <1>5, <2>1 DEF Stored
<1> QED
  BY <1>4, <1>5

(* A batch that is over leaves as a whole, for a counter or for none.      *)
LEMMA BatchStep ==
  ASSUME ExporterIInv, attempt > 0, BatchOver, received' \in {received, Stored},
         \/ parses /\ sent' = sent \cup ToSet(batch) /\ UNCHANGED <<failed, lost>>
         \/ parses /\ failed' = failed \cup ToSet(batch) /\ UNCHANGED <<sent, lost>>
         \/ ~parses /\ lost' = lost \cup ToSet(batch) /\ UNCHANGED <<sent, failed, received>>,
         UNCHANGED <<parses, exported, queue, done, closer, dropped, late>>
  PROVE  ExporterIInv'
<1>1. batch' = <<>> /\ attempt' = 0 /\ ToSet(batch') = {} /\ IsInjective(batch')
      /\ batch' \in Seq(Span) /\ Len(batch') = 0
  BY Empty DEF BatchOver
<1>2. ExporterTypeOK'
  <2>1. run' \in {"batching", "draining", "last", "stopped", "gone"}
    BY DEF ExporterIInv, ExporterTypeOK, BatchOver
  <2>2. {sent', failed', dropped', lost', late'} \subseteq SUBSET Span
    BY Delivered DEF ExporterIInv, ExporterTypeOK
  <2> QED
    BY <1>1, <2>1, <2>2, Delivered DEF ExporterIInv, ExporterTypeOK
<1>3. OnePlace'
  BY <1>1 DEF ExporterIInv, OnePlace, Left
<1>4. BatchHasRoom' /\ DeliveredByAttempt'
  <2>1. \A s \in ToSet(batch) : s \in 1 .. exported /\ s \notin ToSet(queue) \cup dropped \cup lost
    BY DEF ExporterIInv, OnePlace, Left
  <2>2. exported \in Nat
    BY DEF ExporterIInv, ExporterTypeOK
  <2>3. ASSUME NEW s \in Span, s > exported \/ s \in ToSet(queue) \cup dropped \cup lost'
        PROVE  received'[s] = 0
    <3>1. CASE parses
      <4>1. s > exported \/ s \in ToSet(queue) \cup dropped \cup lost
        BY <2>3, <3>1
      <4>2. received[s] = 0 /\ s \notin ToSet(batch)
        BY <2>1, <2>2, <4>1 DEF ExporterIInv, DeliveredByAttempt, OnePlace, Left
      <4> QED
        BY <4>2, Delivered
    <3>2. CASE ~parses
      BY <3>2 DEF ExporterIInv, LostUnposted
    <3> QED
      BY <3>1, <3>2
  <2> QED
    BY <1>1, <2>1, <2>2, <2>3 DEF ExporterIInv, BatchHasRoom, DeliveredByAttempt
<1>5. LostUnposted'
  BY DEF ExporterIInv, LostUnposted
<1> QED
  BY <1>2, <1>3, <1>4, <1>5 DEF ExporterIInv

(* One POST, whatever comes back.                                          *)
LEMMA PostStep == ExporterIInv /\ Post => ExporterIInv'
<1> SUFFICES ASSUME ExporterIInv, PostAccepted \/ PostRefused \/ PostFails \/ PostUnbuilt
             PROVE  ExporterIInv'
  BY DEF Post
<1>1. CASE PostAccepted
  BY <1>1, BatchStep DEF PostAccepted
<1>2. CASE PostRefused
  BY <1>2, BatchStep DEF PostRefused
<1>3. CASE PostFails /\ attempt = MaxAttempts
  BY <1>3, BatchStep DEF PostFails
<1>4. CASE PostFails /\ attempt # MaxAttempts
  <2>1. /\ parses /\ attempt > 0 /\ attempt' = attempt + 1 /\ attempt' \in 1 .. MaxAttempts
        /\ UNCHANGED <<parses, exported, queue, batch, run, done, closer, sent, failed, dropped, lost, late>>
    BY <1>4 DEF PostFails, ExporterIInv, ExporterTypeOK
  <2>2. /\ received' \in [Span -> 0 .. MaxAttempts]
        /\ \A s \in Span : s \notin ToSet(batch) => received'[s] = received[s]
        /\ \A s \in ToSet(batch) : received'[s] <= attempt
        /\ ToSet(batch) \subseteq Span
    BY <1>4, Delivered DEF PostFails
  <2>3. ExporterTypeOK' /\ OnePlace' /\ BatchHasRoom' /\ LostUnposted'
    BY <2>1, <2>2 DEF ExporterIInv, ExporterTypeOK, OnePlace, Left, BatchHasRoom, LostUnposted
  <2>4. DeliveredByAttempt'
    <3>1. \A s \in ToSet(batch) : s \in 1 .. exported /\ s \notin ToSet(queue) \cup dropped \cup lost
      BY DEF ExporterIInv, OnePlace, Left
    <3>2. exported \in Nat /\ attempt \in Nat
      BY DEF ExporterIInv, ExporterTypeOK
    <3> QED
      BY <2>1, <2>2, <3>1, <3>2 DEF ExporterIInv, DeliveredByAttempt
  <2> QED
    BY <2>3, <2>4 DEF ExporterIInv
<1>5. CASE PostUnbuilt
  BY <1>5, BatchStep DEF PostUnbuilt, counters
<1> QED
  BY <1>1, <1>2, <1>3, <1>4, <1>5

LEMMA NextStep == ExporterIInv /\ [ExporterNext]_exporterVars => ExporterIInv'
<1> SUFFICES ASSUME ExporterIInv, [ExporterNext]_exporterVars PROVE ExporterIInv'
  OBVIOUS
<1>1. CASE UNCHANGED exporterVars
  BY <1>1 DEF exporterVars, counters, ExporterIInv, ExporterTypeOK, OnePlace, Left, BatchHasRoom, DeliveredByAttempt, LostUnposted
<1>2. CASE ExporterNext
  BY <1>2, ExportStep, TakeStep, ControlStep, PostStep DEF ExporterNext, Run
<1> QED
  BY <1>1, <1>2

(* In one place each, the spans add up.                                    *)
LEMMA AddsUp == ExporterIInv => EverySpanIsCounted
<1> SUFFICES ASSUME ExporterIInv PROVE EverySpanIsCounted
  OBVIOUS
<1> DEFINE Q == ToSet(queue)
           B == ToSet(batch)
<1>1. IsFiniteSet(Q) /\ Cardinality(Q) = Len(queue)
  BY Counted DEF ExporterIInv, ExporterTypeOK, OnePlace
<1>2. IsFiniteSet(B) /\ Cardinality(B) = Len(batch)
  BY Counted DEF ExporterIInv, ExporterTypeOK, OnePlace
<1>3. exported \in Nat /\ IsFiniteSet(1 .. exported) /\ Cardinality(1 .. exported) = exported
  <2>1. exported \in Nat /\ exported \in Int /\ 1 \in Int
    BY DEF ExporterIInv, ExporterTypeOK
  <2>2. IsFiniteSet(1 .. exported)
        /\ Cardinality(1 .. exported) = IF 1 > exported THEN 0 ELSE exported - 1 + 1
    BY <2>1, FS_Interval
  <2> QED
    BY <2>1, <2>2
<1>4. IsFiniteSet(sent) /\ IsFiniteSet(failed) /\ IsFiniteSet(dropped)
  <2>1. sent \in SUBSET (1 .. exported) /\ failed \in SUBSET (1 .. exported)
        /\ dropped \in SUBSET (1 .. exported)
    BY DEF ExporterIInv, OnePlace
  <2> QED
    BY <1>3, <2>1, FS_Subset
<1>13. IsFiniteSet(lost)
  <2>1. lost \in SUBSET (1 .. exported)
    BY DEF ExporterIInv, OnePlace
  <2> QED
    BY <1>3, <2>1, FS_Subset
<1>5. IsFiniteSet(Q \cup B) /\ Cardinality(Q \cup B) = Cardinality(Q) + Cardinality(B)
  <2>1. Q \cap B = {}
    BY DEF ExporterIInv, OnePlace
  <2> QED
    BY <1>1, <1>2, <2>1, Disjoint
<1>6. /\ IsFiniteSet(lost \cup (Q \cup B))
      /\ Cardinality(lost \cup (Q \cup B)) = Cardinality(lost) + Cardinality(Q \cup B)
  <2>1. lost \cap (Q \cup B) = {}
    BY DEF ExporterIInv, OnePlace, Left
  <2> QED
    BY <1>5, <1>13, <2>1, Disjoint
<1>7. /\ IsFiniteSet(dropped \cup (lost \cup (Q \cup B)))
      /\ Cardinality(dropped \cup (lost \cup (Q \cup B)))
           = Cardinality(dropped) + Cardinality(lost \cup (Q \cup B))
  <2>1. dropped \cap (lost \cup (Q \cup B)) = {}
    BY DEF ExporterIInv, OnePlace, Left
  <2> QED
    BY <1>4, <1>6, <2>1, Disjoint
<1>8. /\ IsFiniteSet(failed \cup (dropped \cup (lost \cup (Q \cup B))))
      /\ Cardinality(failed \cup (dropped \cup (lost \cup (Q \cup B))))
           = Cardinality(failed) + Cardinality(dropped \cup (lost \cup (Q \cup B)))
  <2>1. failed \cap (dropped \cup (lost \cup (Q \cup B))) = {}
    BY DEF ExporterIInv, OnePlace, Left
  <2> QED
    BY <1>4, <1>7, <2>1, Disjoint
<1>9. Cardinality(sent \cup (failed \cup (dropped \cup (lost \cup (Q \cup B)))))
        = Cardinality(sent) + Cardinality(failed \cup (dropped \cup (lost \cup (Q \cup B))))
  <2>1. sent \cap (failed \cup (dropped \cup (lost \cup (Q \cup B)))) = {}
    BY DEF ExporterIInv, OnePlace, Left
  <2> QED
    BY <1>4, <1>8, <2>1, Disjoint
<1>10. sent \cup (failed \cup (dropped \cup (lost \cup (Q \cup B)))) = 1 .. exported
  BY DEF ExporterIInv, OnePlace, Left
<1>11. /\ Cardinality(sent) \in Nat /\ Cardinality(failed) \in Nat
       /\ Cardinality(dropped) \in Nat /\ Cardinality(lost) \in Nat
       /\ Len(queue) \in Nat /\ Len(batch) \in Nat
  BY <1>1, <1>2, <1>4, <1>13, FS_CardinalityType
<1>12. StatsTotal + Len(batch) + Cardinality(lost) = exported
  <2>1. exported = Cardinality(sent) + (Cardinality(failed)
                     + (Cardinality(dropped) + (Cardinality(lost) + (Len(queue) + Len(batch)))))
    <3>1. Cardinality(Q \cup B) = Len(queue) + Len(batch)
      BY <1>1, <1>2, <1>5
    <3>2. exported = Cardinality(sent)
                       + Cardinality(failed \cup (dropped \cup (lost \cup (Q \cup B))))
      BY <1>3, <1>9, <1>10, Zenon
    <3> QED
      BY <1>6, <1>7, <1>8, <1>11, <3>1, <3>2
  <2> QED
    BY <1>11, <2>1 DEF StatsTotal
<1>14. /\ sent \cup failed \cup dropped \cup lost \cup Left = 1 .. exported
       /\ lost # {} => ~parses /\ sent \cup failed = {}
  BY DEF ExporterIInv, OnePlace, LostUnposted
<1> QED
  BY <1>12, <1>14 DEF EverySpanIsCounted

-----------------------------------------------------------------------------
(* The theorems *)

(* ExporterIInv is an invariant of the exporter.                                   *)
THEOREM ExporterInvariant == ExporterSpec => []ExporterIInv
  BY InitIInv, NextStep, PTL DEF ExporterSpec

(* Export, the batches, their retries and Close neither mislay a span nor  *)
(* count one twice: what Stats tells of falls short by the batch in hand,  *)
(* and by the batches thrown away where the endpoint is no URL.            *)
THEOREM SpansAreCounted == ExporterSpec => []EverySpanIsCounted
  BY ExporterInvariant, AddsUp, PTL

(* The collector gets a span at most once per attempt of the one batch it  *)
(* is in, whatever is retried and drained, and never one that Stats counts *)
(* as dropped or that was thrown away.                                     *)
BoundedDelivery ==
  \A s \in Span : received[s] <= MaxAttempts /\ (s \in dropped \cup lost => received[s] = 0)

(* The exporter's steps keep it.                                           *)
THEOREM DeliveriesAreBounded == ExporterSpec => []BoundedDelivery
<1>1. ExporterIInv => BoundedDelivery
  <2> SUFFICES ASSUME ExporterIInv, NEW s \in Span
               PROVE  received[s] <= MaxAttempts /\ (s \in dropped \cup lost => received[s] = 0)
    BY DEF BoundedDelivery
  <2>1. received[s] \in 0 .. MaxAttempts
    BY DEF ExporterIInv, ExporterTypeOK
  <2> QED
    BY <2>1 DEF ExporterIInv, DeliveredByAttempt
<1> QED
  BY <1>1, ExporterInvariant, PTL

(* Every reachable state of the exporter is type correct: the queue and    *)
(* the batch never hold more than they have room for.                      *)
THEOREM ExporterTypes == ExporterSpec => []ExporterTypeOK
<1>1. ExporterIInv => ExporterTypeOK
  BY DEF ExporterIInv
<1> QED
  BY <1>1, ExporterInvariant, PTL
================================================================================
