--------------------------- MODULE LimiterProofs ----------------------------
(***************************************************************************)
(* Proofs about Limiter and LoginGate, for every set of keys, limit,       *)
(* window and sweep threshold, and for any clients.                        *)
(***************************************************************************)
EXTENDS Limiter, LoginGate, TLAPS, WellFoundedInduction, FiniteSetTheorems, SequenceTheorems

-----------------------------------------------------------------------------
(* Prune drops a prefix: the failures that are too old are the first ones. *)

LEMMA Least ==
    ASSUME NEW S \in SUBSET Nat, S # {}
    PROVE  \E x \in S : \A y \in S : x <= y
<1>1. PICK x \in S : \A y \in S : ~(<<y, x>> \in OpToRel(<, Nat))
      BY NatLessThanWellFounded, WFMin
<1>2. ASSUME NEW y \in S PROVE ~(y < x)
  <2>1. <<y, x>> \notin OpToRel(<, Nat)
        BY <1>1
  <2>2. <<y, x>> \notin {ss \in Nat \X Nat : ss[1] < ss[2]}
        BY <2>1 DEF OpToRel
  <2> QED
        BY <2>2
<1> QED
      BY <1>2

LEMMA ChooseLeast ==
    ASSUME NEW S \in SUBSET Int, NEW m \in S, \A j \in S : m <= j
    PROVE  (CHOOSE i \in S : \A j \in S : i <= j) = m
<1> DEFINE x == CHOOSE i \in S : \A j \in S : i <= j
<1>1. x \in S /\ \A j \in S : x <= j
      OBVIOUS
<1> HIDE DEF x
<1>2. x <= m /\ m <= x /\ x \in Int /\ m \in Int
      BY <1>1
<1>3. x = m
      BY <1>2
<1> QED
      BY <1>3 DEF x

\* The times of a key of the map, and of one that is not there.
History(times, t, max) ==
    /\ t \in Nat /\ max \in Nat \ {0}
    /\ times \in Seq(0 .. t) /\ Len(times) <= max /\ Sorted(times)

\* r is what is left of times when the first d are dropped.
Rest(r, times, d) ==
    /\ d \in 0 .. Len(times)
    /\ Len(r) = Len(times) - d
    /\ \A i \in 1 .. Len(r) : r[i] = times[d + i]

\* The first d of times, and no others, are at cutoff or before.
Cut(times, d, cutoff) ==
    /\ \A i \in 1 .. d : times[i] <= cutoff
    /\ \A i \in d + 1 .. Len(times) : times[i] > cutoff

LEMMA CutExists ==
    ASSUME NEW max, NEW t, NEW times, NEW c,
           History(times, t, max), c \in Int
    PROVE  \E d \in 0 .. Len(times) : Cut(times, d, c)
<1> t \in Nat /\ max \in Nat \ {0}
    BY DEF History
<1>1. times \in Seq(Int) /\ Len(times) \in Nat /\ DOMAIN times = 1 .. Len(times)
      /\ \A i \in 1 .. Len(times) : times[i] \in Int
      BY DEF History
<1> DEFINE live == {i \in 1 .. Len(times) : times[i] > c}
<1>2. CASE live = {}
  <2>1. \A i \in 1 .. Len(times) : times[i] <= c
        BY <1>1, <1>2, SMTT(30)
  <2>2. Cut(times, Len(times), c)
        BY <1>1, <2>1 DEF Cut
  <2> QED
        BY <1>1, <2>2
<1>3. CASE live # {}
  <2>0. live \in SUBSET Nat
        OBVIOUS
  <2>1. PICK m \in live : \A i \in live : m <= i
    <3> HIDE DEF live
    <3> QED
        BY <1>3, <2>0, Least
  <2>2. \A i \in 1 .. m - 1 : times[i] <= c
        BY <1>1, <2>1
  <2>3. \A i \in m .. Len(times) : times[i] > c
        BY <1>1, <2>1, SMTT(30) DEF History, Sorted
  <2>4. m - 1 \in 0 .. Len(times) /\ Cut(times, m - 1, c)
        BY <1>1, <2>1, <2>2, <2>3 DEF Cut
  <2> QED
        BY <2>4
<1> QED
      BY <1>2, <1>3

LEMMA RestHistory ==
    ASSUME NEW max, NEW t, NEW times, NEW d, NEW r,
           History(times, t, max),
           r \in Seq(0 .. t), Rest(r, times, d)
    PROVE  History(r, t, max)
<1> t \in Nat /\ max \in Nat \ {0}
    BY DEF History
<1>1. /\ Len(times) \in Nat /\ Len(r) \in Nat
      /\ DOMAIN times = 1 .. Len(times) /\ DOMAIN r = 1 .. Len(r)
      /\ \A i \in 1 .. Len(times) : times[i] \in 0 .. t
      BY DEF History
<1>2. d \in 0 .. Len(times) /\ Len(r) = Len(times) - d
      BY DEF Rest
<1>3. Len(r) <= max
      BY <1>1, <1>2 DEF History
<1>4. ASSUME NEW i \in DOMAIN r, NEW j \in DOMAIN r, i <= j
      PROVE  r[i] <= r[j]
  <2>1. /\ d + i \in 1 .. Len(times) /\ d + j \in 1 .. Len(times)
        /\ d + i <= d + j
        BY <1>1, <1>2, <1>4, SMTT(30)
  <2>2. r[i] = times[d + i] /\ r[j] = times[d + j]
        BY <1>1, <1>4 DEF Rest
  <2> QED
        BY <1>1, <2>1, <2>2 DEF History, Sorted
<1> QED
      BY <1>3, <1>4 DEF History, Sorted

LEMMA PruneIsSubSeq ==
    ASSUME NEW max, NEW t, NEW times, NEW c, NEW d,
           History(times, t, max), c \in Int,
           d \in 0 .. Len(times), Cut(times, d, c)
    PROVE  Prune(times, c) = SubSeq(times, d + 1, Len(times))
<1> t \in Nat /\ max \in Nat \ {0}
    BY DEF History
<1>1. /\ DOMAIN times = 1 .. Len(times)
      /\ \A i \in 1 .. Len(times) : times[i] \in 0 .. t
      BY DEF History
<1>2. Len(times) \in Nat
      BY DEF History
<1>3. {i \in DOMAIN times : times[i] > c} = d + 1 .. Len(times)
      BY <1>1, <1>2 DEF Cut
<1>4. CASE d = Len(times)
  <2>1. d + 1 .. Len(times) = {}
        BY <1>2, <1>4
  <2>2. Prune(times, c) = << >>
        BY <1>3, <2>1 DEF Prune
  <2> QED
        BY <1>2, <1>4, <2>2, SubSeqEmpty
<1>5. CASE d # Len(times)
  <2>1. d + 1 .. Len(times) \in SUBSET Int
        BY <1>2
  <2>2. d + 1 \in d + 1 .. Len(times)
        BY <1>2, <1>5
  <2>3. \A j \in d + 1 .. Len(times) : d + 1 <= j
        BY <1>2
  <2>4. (CHOOSE i \in d + 1 .. Len(times) :
            \A j \in d + 1 .. Len(times) : i <= j) = d + 1
        BY <2>1, <2>2, <2>3, ChooseLeast
  <2> QED
        BY <1>3, <2>2, <2>4 DEF Prune
<1> QED
      BY <1>4, <1>5

LEMMA PruneCut ==
    ASSUME NEW max, NEW t, NEW times, NEW c, NEW d,
           History(times, t, max), c \in Int,
           d \in 0 .. Len(times), Cut(times, d, c)
    PROVE  Rest(Prune(times, c), times, d) /\ History(Prune(times, c), t, max)
<1> t \in Nat /\ max \in Nat \ {0}
    BY DEF History
<1>1. Len(times) \in Nat
      BY DEF History
<1>2. d + 1 \in Int /\ Len(times) \in Int /\ d + 1 <= Len(times) + 1
      BY <1>1
<1>3. \A i \in d + 1 .. Len(times) : times[i] \in 0 .. t
      BY <1>1 DEF History
<1>4. /\ SubSeq(times, d + 1, Len(times)) \in Seq(0 .. t)
      /\ Len(SubSeq(times, d + 1, Len(times))) =
            IF d + 1 <= Len(times) THEN Len(times) - (d + 1) + 1 ELSE 0
      /\ \A i \in 1 .. Len(times) - (d + 1) + 1 :
            SubSeq(times, d + 1, Len(times))[i] = times[(d + 1) + i - 1]
      BY <1>2, <1>3, SubSeqProperties
<1>5. /\ Len(SubSeq(times, d + 1, Len(times))) = Len(times) - d
      /\ \A i \in 1 .. Len(times) - d :
            SubSeq(times, d + 1, Len(times))[i] = times[d + i]
      BY <1>2, <1>4
<1>6. Prune(times, c) = SubSeq(times, d + 1, Len(times))
      BY PruneIsSubSeq
<1>7. Rest(Prune(times, c), times, d) /\ Prune(times, c) \in Seq(0 .. t)
      BY <1>1, <1>4, <1>5, <1>6 DEF Rest
<1> QED
      BY <1>7, RestHistory

LEMMA PruneRest ==
    ASSUME NEW max, NEW t, NEW times,
           History(times, t, max)
    PROVE  \A c \in Int :
               /\ History(Prune(times, c), t, max)
               /\ \E d : Rest(Prune(times, c), times, d) /\ Cut(times, d, c)
BY CutExists, PruneCut

\* What pruning leaves is not too old.
LEMMA PruneLeaves ==
    ASSUME NEW max, NEW t, NEW times,
           History(times, t, max)
    PROVE  \A c \in Int : Cut(Prune(times, c), 0, c)
<1> TAKE c \in Int
<1> DEFINE r == Prune(times, c)
<1>1. PICK d : Rest(r, times, d) /\ Cut(times, d, c)
      BY PruneRest
<1>2. Len(times) \in Nat /\ Len(r) \in Nat
      BY PruneRest DEF History
<1> HIDE DEF r
<1>3. d \in Nat /\ Len(r) = Len(times) - d
      BY <1>1, <1>2 DEF Rest
<1>4. ASSUME NEW i \in 1 .. Len(r) PROVE r[i] > c
  <2>1. d + i \in d + 1 .. Len(times) /\ r[i] = times[d + i]
        BY <1>1, <1>2, <1>3 DEF Rest
  <2> QED
        BY <1>1, <2>1 DEF Cut
<1>5. Cut(r, 0, c)
      BY <1>2, <1>4 DEF Cut
<1> QED
      BY <1>5 DEF r

LEMMA SameHistory ==
    ASSUME NEW max, NEW t, NEW r, NEW s,
           History(r, t, max),
           History(s, t, max), Len(r) = Len(s),
           \A i \in 1 .. Len(r) : r[i] = s[i]
    PROVE  r = s
<1> t \in Nat /\ max \in Nat \ {0}
    BY DEF History
<1>1. r \in Seq(0 .. t) /\ s \in Seq(0 .. t)
      BY DEF History
<1> QED
      BY <1>1, SeqEqual

\* Nothing is too old: nothing is dropped.
LEMMA PruneNone ==
    ASSUME NEW max, NEW t, NEW times, NEW c,
           History(times, t, max), c \in Int,
           Cut(times, 0, c)
    PROVE  Prune(times, c) = times
<1> t \in Nat /\ max \in Nat \ {0}
    BY DEF History
<1>1. Len(times) \in Nat
      BY DEF History
<1>2. Rest(Prune(times, c), times, 0) /\ History(Prune(times, c), t, max)
      BY <1>1, PruneCut
<1>3. /\ Len(Prune(times, c)) = Len(times)
      /\ \A i \in 1 .. Len(times) : Prune(times, c)[i] = times[i]
      BY <1>1, <1>2 DEF Rest
<1> QED
      BY <1>2, <1>3, SameHistory

\* Pruning early does not change what a later pruning leaves.
LEMMA PruneTwice ==
    ASSUME NEW max, NEW t, NEW times, NEW b, NEW c,
           History(times, t, max), b \in Int,
           c \in Int, b <= c
    PROVE  Prune(Prune(times, b), c) = Prune(times, c)
<1> t \in Nat /\ max \in Nat \ {0}
    BY DEF History
<1> DEFINE r == Prune(times, b)
<1>1. /\ Len(times) \in Nat
      /\ \A i \in 1 .. Len(times) : times[i] \in Nat
      BY DEF History
<1>2. PICK d : Rest(r, times, d) /\ Cut(times, d, b)
      BY PruneRest
<1>3. PICK e : Rest(Prune(times, c), times, e) /\ Cut(times, e, c)
      BY PruneRest
<1>4. History(r, t, max) /\ History(Prune(times, c), t, max)
      BY PruneRest
<1> HIDE DEF r
<1>5. d \in 0 .. Len(times) /\ e \in 0 .. Len(times) /\ Len(r) = Len(times) - d
      /\ Len(Prune(times, c)) = Len(times) - e
      BY <1>2, <1>3 DEF Rest
<1>6. d <= e
  <2> SUFFICES ASSUME d > e PROVE FALSE
      BY <1>1, <1>5
  <2>1. d \in 1 .. d /\ d \in e + 1 .. Len(times) /\ d \in 1 .. Len(times)
        BY <1>1, <1>5
  <2>2. times[d] <= b /\ times[d] > c /\ times[d] \in Nat
        BY <1>1, <1>2, <1>3, <2>1 DEF Cut
  <2> QED
        BY <2>2
<1>7. e - d \in 0 .. Len(r) /\ Cut(r, e - d, c)
  <2>1. e - d \in 0 .. Len(r)
        BY <1>1, <1>5, <1>6
  <2>2. ASSUME NEW i \in 1 .. e - d PROVE r[i] <= c
    <3>1. i \in 1 .. Len(r) /\ d + i \in 1 .. e
          BY <1>1, <1>5, <1>6, <2>2
    <3> QED
          BY <1>2, <1>3, <3>1 DEF Rest, Cut
  <2>3. ASSUME NEW i \in (e - d) + 1 .. Len(r) PROVE r[i] > c
    <3>1. i \in 1 .. Len(r) /\ d + i \in e + 1 .. Len(times)
          BY <1>1, <1>5, <1>6, <2>3
    <3> QED
          BY <1>2, <1>3, <3>1 DEF Rest, Cut
  <2> QED
        BY <2>1, <2>2, <2>3 DEF Cut
<1>8. Rest(Prune(r, c), r, e - d) /\ History(Prune(r, c), t, max)
      BY <1>4, <1>7, PruneCut
<1>9. Len(Prune(r, c)) = Len(Prune(times, c))
      BY <1>1, <1>5, <1>8 DEF Rest
<1>10. ASSUME NEW i \in 1 .. Len(Prune(r, c))
       PROVE  Prune(r, c)[i] = Prune(times, c)[i]
  <2>1. Prune(r, c)[i] = r[(e - d) + i]
        BY <1>8 DEF Rest
  <2>2. (e - d) + i \in 1 .. Len(r) /\ d + ((e - d) + i) = e + i
        BY <1>1, <1>5, <1>6, <1>9
  <2>3. r[(e - d) + i] = times[e + i]
        BY <1>2, <2>2 DEF Rest
  <2>4. Prune(times, c)[i] = times[e + i]
        BY <1>3, <1>9 DEF Rest
  <2> QED
        BY <2>1, <2>3, <2>4
<1> QED
      BY <1>4, <1>8, <1>9, <1>10, SameHistory DEF r

\* A failure recorded now is the newest of its key.
LEMMA AppendHistory ==
    ASSUME NEW max, NEW t, NEW times,
           History(times, t, max),
           Len(times) < max
    PROVE  /\ History(Append(times, t), t, max)
           /\ Len(Append(times, t)) = Len(times) + 1
           /\ \A i \in 1 .. Len(times) : Append(times, t)[i] = times[i]
           /\ Append(times, t)[Len(times) + 1] = t
<1> t \in Nat /\ max \in Nat \ {0}
    BY DEF History
<1>1. /\ times \in Seq(0 .. t) /\ Len(times) \in Nat /\ t \in 0 .. t
      /\ \A i \in 1 .. Len(times) : times[i] \in 0 .. t
      /\ DOMAIN times = 1 .. Len(times)
      BY DEF History
<1>2. /\ Append(times, t) \in Seq(0 .. t)
      /\ Len(Append(times, t)) = Len(times) + 1
      /\ \A i \in 1 .. Len(times) : Append(times, t)[i] = times[i]
      /\ Append(times, t)[Len(times) + 1] = t
      BY <1>1, AppendProperties
<1>3. Len(Append(times, t)) <= max
      BY <1>1, <1>2
<1>4. Sorted(Append(times, t))
  <2> SUFFICES ASSUME NEW i \in 1 .. Len(times) + 1, NEW j \in 1 .. Len(times) + 1,
                      i <= j
               PROVE  Append(times, t)[i] <= Append(times, t)[j]
      BY <1>1, <1>2 DEF Sorted
  <2>1. CASE j = Len(times) + 1
        BY <1>1, <1>2, <2>1
  <2>2. CASE j # Len(times) + 1
        BY <1>1, <1>2, <2>2, SMTT(30) DEF History, Sorted
  <2> QED
        BY <2>1, <2>2
<1> QED
      BY <1>2, <1>3, <1>4 DEF History

\* The newest failure is not too old when the others are not.
LEMMA AppendKept ==
    ASSUME NEW max, NEW t, NEW times, NEW c,
           History(times, t, max), Len(times) < max,
           c \in Int, c < t, Cut(times, 0, c)
    PROVE  Prune(Append(times, t), c) = Append(times, t)
<1> t \in Nat /\ max \in Nat \ {0}
    BY DEF History
<1> DEFINE a == Append(times, t)
<1>1. /\ History(a, t, max) /\ Len(a) = Len(times) + 1 /\ Len(times) \in Nat
      /\ \A i \in 1 .. Len(times) : a[i] = times[i]
      /\ a[Len(times) + 1] = t
      BY AppendHistory DEF History
<1> HIDE DEF a
<1>2. Cut(a, 0, c)
      BY <1>1 DEF Cut
<1>3. Prune(a, c) = a
      BY <1>1, <1>2, PruneNone
<1> QED
      BY <1>3 DEF a

LEMMA PruneEmpty == \A c : Prune(<< >>, c) = << >>
BY DEF Prune

LEMMA NoHistory ==
    ASSUME NEW max, NEW t,
           max \in Nat \ {0}, t \in Nat
    PROVE  History(<< >>, t, max)
BY DEF History, Sorted

LEMMA LaterHistory ==
    ASSUME NEW max, NEW t, NEW times,
           History(times, t, max)
    PROVE  History(times, t + 1, max)
BY DEF History

-----------------------------------------------------------------------------
(* Two histories set side by side from their newest ends.                  *)

\* But for the newest n of a, each time of a is no later than the one of r it
\* falls on.
Behind(a, r, n) ==
    /\ n \in {0, 1} /\ Len(a) <= Len(r) + n
    /\ \A i \in 1 .. Len(a) - n : a[i] <= r[(Len(r) - (Len(a) - n)) + i]

LEMMA BehindPrune ==
    ASSUME NEW max, NEW t, NEW a, NEW r, NEW n, NEW c,
           History(a, t, max), History(r, t, max), Behind(a, r, n), c \in Int
    PROVE  Behind(Prune(a, c), Prune(r, c), n)
<1> DEFINE b == Prune(a, c)
           s == Prune(r, c)
           m == Len(a) - n
           o == Len(r) - m
<1>1. /\ Len(a) \in Nat /\ Len(r) \in Nat /\ Len(b) \in Nat /\ Len(s) \in Nat
      /\ n \in {0, 1} /\ Len(a) <= Len(r) + n
      /\ \A i \in 1 .. Len(a) : a[i] \in Nat
      /\ \A i \in 1 .. Len(r) : r[i] \in Nat
      /\ \A i \in 1 .. m : a[i] <= r[o + i]
  <2>1. /\ Len(a) \in Nat /\ Len(r) \in Nat
        /\ \A i \in 1 .. Len(a) : a[i] \in Nat
        /\ \A i \in 1 .. Len(r) : r[i] \in Nat
        BY DEF History
  <2>2. Len(b) \in Nat /\ Len(s) \in Nat
    <3>1. History(b, t, max) /\ History(s, t, max)
          BY PruneRest
    <3> QED
          BY <3>1 DEF History
  <2>3. /\ n \in {0, 1} /\ Len(a) <= Len(r) + n
        /\ \A i \in 1 .. m : a[i] <= r[o + i]
        BY DEF Behind
  <2> QED
        BY <2>1, <2>2, <2>3
<1>2. PICK d : Rest(b, a, d) /\ Cut(a, d, c)
      BY PruneRest
<1>3. PICK e : Rest(s, r, e) /\ Cut(r, e, c)
      BY PruneRest
<1> HIDE DEF b, s
<1>4. /\ d \in 0 .. Len(a) /\ Len(b) = Len(a) - d
      /\ e \in 0 .. Len(r) /\ Len(s) = Len(r) - e
      BY <1>2, <1>3 DEF Rest
<1>5. m \in Int /\ o \in Nat /\ m + o = Len(r) /\ Len(a) = m + n
      BY <1>1
<1> HIDE DEF m, o
<1>6. d < m => e <= o + d
  <2> SUFFICES ASSUME d < m, o + d < e PROVE FALSE
      BY <1>4, <1>5
  <2>1. d + 1 \in d + 1 .. Len(a) /\ d + 1 \in 1 .. m /\ d + 1 \in 1 .. Len(a)
        BY <1>1, <1>4, <1>5
  <2>2. /\ o + (d + 1) \in 1 .. e /\ o + (d + 1) \in 1 .. Len(r)
        BY <1>1, <1>4, <1>5
  <2>3. a[d + 1] > c /\ r[o + (d + 1)] <= c
        BY <1>2, <1>3, <2>1, <2>2 DEF Cut
  <2>4. a[d + 1] <= r[o + (d + 1)]
        BY <1>1, <2>1
  <2>5. a[d + 1] \in Nat /\ r[o + (d + 1)] \in Nat
        BY <1>1, <2>1, <2>2
  <2> QED
        BY <2>3, <2>4, <2>5
<1>7. Len(b) <= Len(s) + n
      BY <1>1, <1>4, <1>5, <1>6
<1>8. ASSUME NEW i \in 1 .. Len(b) - n
      PROVE  b[i] <= s[(Len(s) - (Len(b) - n)) + i]
  <2>1. /\ i \in 1 .. Len(b) /\ d + i \in 1 .. m /\ d < m
        /\ (Len(s) - (Len(b) - n)) + i \in 1 .. Len(s)
        /\ e + ((Len(s) - (Len(b) - n)) + i) = o + (d + i)
    <3>1. Len(b) - n = m - d /\ i \in 1 .. m - d /\ n \in Nat
          BY <1>1, <1>4, <1>5
    <3>2. i \in 1 .. Len(b) /\ d + i \in 1 .. m /\ d < m
          BY <1>1, <1>4, <1>5, <3>1
    <3>3. Len(s) - (Len(b) - n) = (o + d) - e /\ e <= o + d
          BY <1>4, <1>5, <1>6, <3>1, <3>2
    <3>4. Len(s) - (Len(b) - n) + i \in 1 .. Len(s)
          BY <1>1, <1>4, <1>5, <3>1, <3>3
    <3>5. d \in Int /\ e \in Int /\ o \in Int /\ i \in Int
          BY <1>4, <1>5
    <3>6. e + ((Len(s) - (Len(b) - n)) + i) = o + (d + i)
          BY <3>3, <3>5
    <3> QED
          BY <3>2, <3>4, <3>6
  <2>2. b[i] = a[d + i] /\ s[(Len(s) - (Len(b) - n)) + i] = r[o + (d + i)]
        BY <1>2, <1>3, <2>1 DEF Rest
  <2> QED
        BY <1>1, <2>1, <2>2
<1>9. Behind(b, s, n)
      BY <1>1, <1>7, <1>8 DEF Behind
<1> QED
      BY <1>9 DEF b, s

\* A time added to r makes up for one that a is ahead.
LEMMA BehindRecorded ==
    ASSUME NEW max, NEW t, NEW a, NEW r, NEW n,
           History(a, t, max), History(r, t, max), Len(r) < max, Behind(a, r, n)
    PROVE  Behind(a, Append(r, t), 0)
<1> DEFINE s == Append(r, t)
<1>1. /\ Len(a) \in Nat /\ Len(r) \in Nat /\ t \in Nat
      /\ n \in {0, 1} /\ Len(a) <= Len(r) + n
      /\ \A i \in 1 .. Len(a) : a[i] \in 0 .. t
      /\ \A i \in 1 .. Len(r) : r[i] \in 0 .. t
      /\ \A i \in 1 .. Len(a) - n : a[i] <= r[(Len(r) - (Len(a) - n)) + i]
      BY DEF History, Behind
<1>2. /\ Len(s) = Len(r) + 1 /\ s[Len(r) + 1] = t
      /\ \A i \in 1 .. Len(r) : s[i] = r[i]
      BY AppendHistory
<1>3. \A i \in 1 .. Len(r), j \in 1 .. Len(r) : i <= j => r[i] <= r[j]
      BY <1>1, SMTT(30) DEF History, Sorted
<1> HIDE DEF s
<1>4. ASSUME NEW i \in 1 .. Len(a) - 0
      PROVE  a[i] <= s[(Len(s) - (Len(a) - 0)) + i]
  <2> DEFINE j == (Len(s) - (Len(a) - 0)) + i
  <2>1. /\ i \in 1 .. Len(a) /\ j \in 1 .. Len(r) + 1
        /\ i = Len(a) => j = Len(r) + 1
        /\ j = (Len(r) - (Len(a) - 1)) + i
    <3>1. Len(s) \in Nat /\ Len(s) = Len(r) + 1 /\ n \in Nat /\ n <= 1
          BY <1>1, <1>2
    <3>2. Len(a) \in Nat /\ Len(r) \in Nat /\ Len(a) <= Len(r) + n
          BY <1>1
    <3> QED
          BY <3>1, <3>2
  <2>2. CASE j = Len(r) + 1
        BY <1>1, <1>2, <2>1, <2>2
  <2>3. CASE j # Len(r) + 1
    <3>1. j \in 1 .. Len(r) /\ s[j] = r[j] /\ i \in 1 .. Len(a) - 1
          BY <1>1, <1>2, <2>1, <2>3
    <3>2. CASE n = 1
          BY <1>1, <2>1, <3>1, <3>2
    <3>3. CASE n = 0
      <4>1. a[i] <= r[(Len(r) - (Len(a) - 0)) + i]
            BY <1>1, <2>1, <3>3
      <4>2. /\ (Len(r) - (Len(a) - 0)) + i \in 1 .. Len(r)
            /\ (Len(r) - (Len(a) - 0)) + i <= j
            BY <1>1, <2>1, <3>1, <3>3
      <4>3. r[(Len(r) - (Len(a) - 0)) + i] <= r[j]
            BY <1>3, <3>1, <4>2
      <4>4. a[i] \in 0 .. t /\ r[j] \in 0 .. t
            /\ r[(Len(r) - (Len(a) - 0)) + i] \in 0 .. t
        <5> HIDE DEF j
        <5> QED
            BY <1>1, <2>1, <3>1, <4>2
      <4> QED
            BY <1>1, <3>1, <4>1, <4>3, <4>4, SMTT(30)
    <3> QED
          BY <1>1, <3>2, <3>3
  <2> QED
        BY <2>2, <2>3
<1>5. Behind(a, s, 0)
      BY <1>1, <1>2, <1>4 DEF Behind
<1> QED
      BY <1>5 DEF s

\* A time added to a puts it one ahead.
LEMMA BehindAttempted ==
    ASSUME NEW max, NEW t, NEW a, NEW r,
           History(a, t, max), History(r, t, max), Len(a) < max, Behind(a, r, 0)
    PROVE  Behind(Append(a, t), r, 1)
<1> DEFINE b == Append(a, t)
<1>1. /\ Len(a) \in Nat /\ Len(r) \in Nat /\ Len(a) <= Len(r)
      /\ \A i \in 1 .. Len(a) : a[i] <= r[(Len(r) - Len(a)) + i]
      BY DEF History, Behind
<1>2. Len(b) = Len(a) + 1 /\ \A i \in 1 .. Len(a) : b[i] = a[i]
      BY AppendHistory
<1> HIDE DEF b
<1>3. Len(b) - 1 = Len(a)
      BY <1>1, <1>2
<1>4. Behind(b, r, 1)
      BY <1>1, <1>2, <1>3 DEF Behind
<1> QED
      BY <1>4 DEF b

\* An allowance of one covers none.
LEMMA BehindWeaken ==
    ASSUME NEW max, NEW t, NEW a, NEW r,
           History(a, t, max), History(r, t, max), Behind(a, r, 0)
    PROVE  Behind(a, r, 1)
<1>1. /\ Len(a) \in Nat /\ Len(r) \in Nat /\ Len(a) <= Len(r)
      /\ \A i \in 1 .. Len(a) : a[i] <= r[(Len(r) - Len(a)) + i]
      /\ \A i \in 1 .. Len(a) : a[i] \in Nat
      /\ \A i \in 1 .. Len(r) : r[i] \in Nat
      /\ \A i \in 1 .. Len(r), j \in 1 .. Len(r) : i <= j => r[i] <= r[j]
  <2>1. /\ Len(a) \in Nat /\ Len(r) \in Nat
        /\ \A i \in 1 .. Len(a) : a[i] \in Nat
        /\ \A i \in 1 .. Len(r) : r[i] \in Nat
        BY DEF History
  <2>2. /\ Len(a) <= Len(r)
        /\ \A i \in 1 .. Len(a) : a[i] <= r[(Len(r) - Len(a)) + i]
        BY <2>1 DEF Behind
  <2>3. \A i \in 1 .. Len(r), j \in 1 .. Len(r) : i <= j => r[i] <= r[j]
        BY DEF History, Sorted
  <2> QED
        BY <2>1, <2>2, <2>3
<1>2. ASSUME NEW i \in 1 .. Len(a) - 1
      PROVE  a[i] <= r[(Len(r) - (Len(a) - 1)) + i]
  <2> DEFINE j == (Len(r) - Len(a)) + i
  <2>1. /\ i \in 1 .. Len(a) /\ j \in 1 .. Len(r) /\ j + 1 \in 1 .. Len(r)
        /\ (Len(r) - (Len(a) - 1)) + i = j + 1 /\ j <= j + 1
        BY <1>1
  <2>2. a[i] <= r[j] /\ r[j] <= r[j + 1]
        BY <1>1, <2>1
  <2> HIDE DEF j
  <2>3. a[i] \in Nat /\ r[j] \in Nat /\ r[j + 1] \in Nat
        BY <1>1, <2>1
  <2> QED
        BY <2>1, <2>2, <2>3
<1> QED
      BY <1>1, <1>2 DEF Behind

-----------------------------------------------------------------------------
(* What the methods do to a limiter, as its keys' failures within the      *)
(* window see it.                                                          *)

Newest(times) == times[Len(times)]
Entry(times, t, max) == History(times, t, max) /\ times # << >>
Entries(failures, t, max) ==
    /\ t \in Nat /\ max \in Nat \ {0}
    /\ \A k \in DOMAIN failures : Entry(failures[k], t, max)
Value(failures, k) == IF k \in DOMAIN failures THEN failures[k] ELSE << >>

\* A limiter as New, Check, Record and Reset leave it.  The last sweep left
\* nothing older than a window, and nothing older was added since.
Sound(l, t, K, max, window) ==
    /\ t \in Nat /\ {max, window} \subseteq Nat \ {0}
    /\ l = [max |-> max, window |-> window, failures |-> l.failures,
            lastSweep |-> l.lastSweep]
    /\ IsFiniteSet(Keys(l)) /\ Keys(l) \subseteq K
    /\ l.lastSweep \in -window .. t
    /\ \A k \in Keys(l) : /\ Entry(l.failures[k], t, max)
                          /\ Newest(l.failures[k]) > l.lastSweep - window

\* The failures of a key within the window.
Recent(l, k, t, window) == Prune(Times(l, k), t - window)

LEMMA EntryNewest ==
    ASSUME NEW max, NEW t, NEW times, NEW c,
           Entry(times, t, max), c \in Int,
           Prune(times, c) # << >>
    PROVE  /\ Entry(Prune(times, c), t, max)
           /\ Newest(Prune(times, c)) = Newest(times)
           /\ Newest(times) > c /\ Newest(times) \in 0 .. t
<1> t \in Nat /\ max \in Nat \ {0}
    BY DEF Entry, History
<1> DEFINE r == Prune(times, c)
<1>1. PICK d : Rest(r, times, d) /\ Cut(times, d, c)
      BY PruneRest DEF Entry
<1>2. History(r, t, max)
      BY PruneRest DEF Entry
<1> HIDE DEF r
<1>3. /\ Len(times) \in Nat /\ Len(r) \in Nat
      /\ \A i \in 1 .. Len(times) : times[i] \in 0 .. t
      BY <1>2 DEF Entry, History
<1>4. r # << >> /\ Len(r) # 0
      BY <1>2, EmptySeq DEF r, History
<1>5. d \in 0 .. Len(times) /\ Len(r) = Len(times) - d
      BY <1>1 DEF Rest
<1>6. /\ Len(r) \in 1 .. Len(r) /\ d + Len(r) = Len(times)
      /\ Len(times) \in d + 1 .. Len(times) /\ Len(times) \in 1 .. Len(times)
      BY <1>3, <1>4, <1>5
<1>7. r[Len(r)] = times[Len(times)]
      BY <1>1, <1>6 DEF Rest
<1>8. times[Len(times)] > c
      BY <1>1, <1>6 DEF Cut
<1> QED
      BY <1>2, <1>3, <1>4, <1>6, <1>7, <1>8 DEF r, Entry, Newest

LEMMA PruneKeysStep ==
    ASSUME NEW max, NEW t, NEW f, NEW S, NEW c,
           Entries(f, t, max), c \in Int
    PROVE  /\ DOMAIN PruneKeys(f, S, c) \subseteq DOMAIN f
           /\ \A k \in DOMAIN PruneKeys(f, S, c) :
                 /\ Entry(PruneKeys(f, S, c)[k], t, max)
                 /\ Newest(PruneKeys(f, S, c)[k]) = Newest(f[k])
                 /\ k \in S => Newest(f[k]) > c
           /\ \A k : Value(PruneKeys(f, S, c), k) =
                        IF k \in S THEN Prune(Value(f, k), c) ELSE Value(f, k)
<1> DEFINE g == PruneKeys(f, S, c)
<1>1. DOMAIN g = {k \in DOMAIN f : k \in S => Prune(f[k], c) # << >>}
      BY DEF PruneKeys
<1>2. \A k \in DOMAIN g : g[k] = IF k \in S THEN Prune(f[k], c) ELSE f[k]
      BY DEF PruneKeys
<1> HIDE DEF g
<1>3. ASSUME NEW k \in DOMAIN g
      PROVE  /\ Entry(g[k], t, max) /\ Newest(g[k]) = Newest(f[k])
             /\ k \in S => Newest(f[k]) > c
      BY <1>1, <1>2, <1>3, EntryNewest DEF Entries
<1>4. ASSUME NEW k
      PROVE  Value(g, k) = IF k \in S THEN Prune(Value(f, k), c) ELSE Value(f, k)
      BY <1>1, <1>2, PruneEmpty DEF Value, Entries
<1> QED
      BY <1>1, <1>3, <1>4 DEF g

LEMMA SoundParts ==
    ASSUME NEW K, NEW max, NEW window, NEW t, NEW l,
           Sound(l, t, K, max, window)
    PROVE  /\ l.max = max /\ l.window = window
           /\ l.lastSweep \in Int /\ t - window \in Int
           /\ Entries(l.failures, t, max)
           /\ \A k : History(Times(l, k), t, max)
           /\ \A k : Times(l, k) = Value(l.failures, k)
<1> t \in Nat /\ max \in Nat \ {0} /\ window \in Nat \ {0}
    BY DEF Sound
<1>1. \A k \in Keys(l) : Entry(l.failures[k], t, max)
      BY DEF Sound
<1>2. \A k : History(Times(l, k), t, max)
      BY <1>1, NoHistory DEF Times, Entry
<1>3. l.max = max /\ l.window = window
      BY DEF Sound
<1>4. Entries(l.failures, t, max)
      BY <1>1 DEF Entries, Keys
<1> QED
      BY <1>1, <1>2, <1>3, <1>4 DEF Sound, Times, Value, Keys

\* Pruning some keys, or none, at the edge of the window shows nowhere.
LEMMA PrunedStep ==
    ASSUME NEW K, NEW max, NEW window, NEW t, NEW l, NEW S, NEW m, NEW u,
           Sound(l, t, K, max, window),
           u = l.lastSweep \/ (u = t /\ Keys(l) \subseteq S),
           m = [max |-> max, window |-> window, failures |-> PruneKeys(l.failures, S, t - window), lastSweep |-> u]
    PROVE  /\ Sound(m, t, K, max, window) /\ m.lastSweep = u
           /\ \A k : Recent(m, k, t, window) = Recent(l, k, t, window)
           /\ \A k \in S : Times(m, k) = Recent(l, k, t, window)
<1> t \in Nat /\ max \in Nat \ {0} /\ window \in Nat \ {0}
    BY DEF Sound
<1> DEFINE g == PruneKeys(l.failures, S, t - window)
<1>1. /\ t - window \in Int /\ l.lastSweep \in -window .. t
      /\ l.lastSweep \in Int /\ window \in Nat \ {0}
      BY SoundParts DEF Sound
<1>2. /\ DOMAIN g \subseteq Keys(l)
      /\ \A k \in DOMAIN g :
            /\ Entry(g[k], t, max)
            /\ Newest(g[k]) = Newest(l.failures[k])
            /\ k \in S => Newest(l.failures[k]) > t - window
      /\ \A k : Value(g, k) = IF k \in S THEN Prune(Value(l.failures, k), t - window)
                              ELSE Value(l.failures, k)
      BY <1>1, SoundParts, PruneKeysStep DEF Keys
<1> HIDE DEF g
<1>3. m = [max |-> max, window |-> window, failures |-> g, lastSweep |-> u]
      BY DEF g
<1>4. m.failures = g /\ m.lastSweep = u /\ Keys(m) = DOMAIN g
      BY <1>3 DEF Keys
<1>5. Sound(m, t, K, max, window)
  <2>1. IsFiniteSet(Keys(m)) /\ Keys(m) \subseteq K
        BY <1>2, <1>4, FS_Subset DEF Sound
  <2>2. u \in -window .. t
        BY <1>1
  <2>3. ASSUME NEW k \in Keys(m)
        PROVE  Entry(g[k], t, max) /\ Newest(g[k]) > u - window
    <3>1. Newest(l.failures[k]) > l.lastSweep - window
          BY <1>2, <1>4, <2>3 DEF Sound
    <3> QED
          BY <1>1, <1>2, <1>4, <2>3, <3>1
  <2> QED
        BY <1>3, <1>4, <2>1, <2>2, <2>3 DEF Sound
<1>6. \A k : Times(m, k) = IF k \in S THEN Recent(l, k, t, window) ELSE Times(l, k)
      BY <1>2, <1>4, SoundParts DEF Times, Value, Recent, Keys
<1>7. \A k : Recent(m, k, t, window) = Recent(l, k, t, window)
  <2> TAKE k
  <2>1. Prune(Recent(l, k, t, window), t - window) = Recent(l, k, t, window)
        BY <1>1, SoundParts, PruneTwice DEF Recent
  <2> QED
        BY <1>6, <2>1 DEF Recent
<1> QED
      BY <1>4, <1>5, <1>6, <1>7

LEMMA PruneKeyStep ==
    ASSUME NEW K, NEW max, NEW window, NEW t, NEW l,
           Sound(l, t, K, max, window)
    PROVE  \A k :
               /\ Sound(PruneKey(l, k, t), t, K, max, window)
               /\ PruneKey(l, k, t).lastSweep = l.lastSweep
               /\ \A j : Recent(PruneKey(l, k, t), j, t, window) = Recent(l, j, t, window)
               /\ Times(PruneKey(l, k, t), k) = Recent(l, k, t, window)
<1> t \in Nat /\ max \in Nat \ {0} /\ window \in Nat \ {0}
    BY DEF Sound
<1> TAKE k
<1> DEFINE g == PruneKeys(l.failures, {k}, t - window)
<1>1. l = [max |-> max, window |-> window, failures |-> l.failures,
           lastSweep |-> l.lastSweep]
      BY DEF Sound
<1>2. PruneKey(l, k, t) = [l EXCEPT !.failures = g]
      BY SoundParts DEF PruneKey
<1>3. PruneKey(l, k, t) = [max |-> max, window |-> window, failures |-> g,
                           lastSweep |-> l.lastSweep]
      BY <1>1, <1>2
<1> QED
      BY <1>3, PrunedStep

LEMMA MaybeSweepStep ==
    ASSUME NEW K, NEW max, NEW window, NEW t, NEW l,
           Sound(l, t, K, max, window)
    PROVE  /\ Sound(MaybeSweep(l, t), t, K, max, window)
           /\ \A j : Recent(MaybeSweep(l, t), j, t, window) = Recent(l, j, t, window)
           /\ Cardinality(Keys(l)) >= SweepThreshold =>
                  MaybeSweep(l, t).lastSweep > t - window
<1> t \in Nat /\ max \in Nat \ {0} /\ window \in Nat \ {0}
    BY DEF Sound
<1> DEFINE g == PruneKeys(l.failures, DOMAIN l.failures, t - window)
<1>1. l = [max |-> max, window |-> window, failures |-> l.failures,
           lastSweep |-> l.lastSweep]
      BY DEF Sound
<1>2. Cardinality(Keys(l)) \in Nat
      BY FS_CardinalityType DEF Sound
<1>3. /\ l.window = window /\ window \in Nat \ {0} /\ SweepThreshold \in Nat
      /\ l.lastSweep \in Int
      BY SoundParts, SweepThresholdAssumption
<1>4. CASE Cardinality(Keys(l)) < SweepThreshold \/ t - l.lastSweep < l.window
  <2>1. MaybeSweep(l, t) = l
        BY <1>4 DEF MaybeSweep
  <2>2. Cardinality(Keys(l)) >= SweepThreshold => l.lastSweep > t - window
        BY <1>2, <1>3, <1>4
  <2> QED
        BY <2>1, <2>2
<1>5. CASE ~(Cardinality(Keys(l)) < SweepThreshold \/ t - l.lastSweep < l.window)
  <2>1. MaybeSweep(l, t) = [max |-> max, window |-> window, failures |-> g,
                            lastSweep |-> t]
    <3>1. MaybeSweep(l, t) =
              [l EXCEPT !.lastSweep = t,
                        !.failures = PruneKeys(@, DOMAIN @, t - l.window)]
          BY <1>5 DEF MaybeSweep
    <3>2. [l EXCEPT !.lastSweep = t,
                    !.failures = PruneKeys(@, DOMAIN @, t - l.window)] =
          [[l EXCEPT !.lastSweep = t] EXCEPT
                    !.failures = PruneKeys(l.failures, DOMAIN l.failures, t - l.window)]
          BY <1>1
    <3>3. [l EXCEPT !.lastSweep = t] =
              [max |-> max, window |-> window, failures |-> l.failures,
               lastSweep |-> t]
          BY <1>1
    <3> QED
          BY <1>3, <3>1, <3>2, <3>3
  <2>2. /\ Sound(MaybeSweep(l, t), t, K, max, window) /\ MaybeSweep(l, t).lastSweep = t
        /\ \A j : Recent(MaybeSweep(l, t), j, t, window) = Recent(l, j, t, window)
        BY <2>1, PrunedStep DEF Keys
  <2> QED
        BY <1>3, <2>2
<1> QED
      BY <1>4, <1>5

LEMMA RecordStep ==
    ASSUME NEW K, NEW max, NEW window, NEW t, NEW l,
           Sound(l, t, K, max, window)
    PROVE  \A k \in K :
               /\ Sound(Record(l, k, t), t, K, max, window)
               /\ Recent(Record(l, k, t), k, t, window) =
                      IF Len(Recent(l, k, t, window)) >= max THEN Recent(l, k, t, window)
                      ELSE Append(Recent(l, k, t, window), t)
               /\ \A j : j # k => Recent(Record(l, k, t), j, t, window) = Recent(l, j, t, window)
               /\ Cardinality(Keys(l)) >= SweepThreshold =>
                      Record(l, k, t).lastSweep > t - window
<1> t \in Nat /\ max \in Nat \ {0} /\ window \in Nat \ {0}
    BY DEF Sound
<1> TAKE k \in K
<1> DEFINE p == PruneKey(MaybeSweep(l, t), k, t)
           times == Recent(l, k, t, window)
           g == Append1(p.failures, k, Append(times, t))
<1>1. /\ Sound(p, t, K, max, window)
      /\ \A j : Recent(p, j, t, window) = Recent(l, j, t, window)
      /\ Cardinality(Keys(l)) >= SweepThreshold => p.lastSweep > t - window
      /\ Times(p, k) = times
  <2> DEFINE q == MaybeSweep(l, t)
  <2>1. /\ Sound(q, t, K, max, window)
        /\ \A j : Recent(q, j, t, window) = Recent(l, j, t, window)
        /\ Cardinality(Keys(l)) >= SweepThreshold => q.lastSweep > t - window
        BY MaybeSweepStep
  <2> HIDE DEF q
  <2> QED
        BY <2>1, PruneKeyStep DEF p, q
<1>2. Record(l, k, t) = IF Len(times) >= max THEN p
                        ELSE [p EXCEPT !.failures = Append1(@, k, Append(times, t))]
  <2>1. l.max = max
        BY SoundParts
  <2> QED
        BY <1>1, <2>1 DEF Record
<1> HIDE DEF p
<1>3. CASE Len(times) >= max
      BY <1>1, <1>2, <1>3
<1>4. CASE ~(Len(times) >= max)
  <2>1. /\ p = [max |-> max, window |-> window, failures |-> p.failures,
                lastSweep |-> p.lastSweep]
        /\ p.lastSweep \in -window .. t /\ p.lastSweep \in Int
        /\ window \in Nat \ {0} /\ max \in Nat \ {0} /\ t - window \in Int
        BY <1>1, SoundParts DEF Sound
  <2>2. Record(l, k, t) = [max |-> max, window |-> window, failures |-> g,
                           lastSweep |-> p.lastSweep]
        BY <1>2, <1>4, <2>1
  <2>3. History(times, t, max)
        BY <2>1, SoundParts, PruneRest DEF Recent
  <2>4. Len(times) < max /\ Len(times) \in Nat
        BY <1>4, <2>1, <2>3 DEF History
  <2>5. /\ History(Append(times, t), t, max)
        /\ Len(Append(times, t)) = Len(times) + 1
        /\ \A i \in 1 .. Len(times) : Append(times, t)[i] = times[i]
        /\ Append(times, t)[Len(times) + 1] = t
        BY <2>3, <2>4, AppendHistory
  <2>6. DOMAIN g = DOMAIN p.failures \cup {k} /\ g[k] = Append(times, t)
        /\ \A j \in DOMAIN g : j # k => g[j] = p.failures[j]
        BY DEF Append1
  <2> DEFINE m == Record(l, k, t)
  <2>7. m.failures = g /\ m.lastSweep = p.lastSweep /\ Keys(m) = DOMAIN g
        BY <2>2 DEF Keys
  <2> HIDE DEF m, g
  <2>8. Sound(m, t, K, max, window)
    <3>1. IsFiniteSet(Keys(m)) /\ Keys(m) \subseteq K
      <4>1. Keys(m) = Keys(p) \cup {k}
            BY <2>6, <2>7 DEF Keys
      <4>2. IsFiniteSet(Keys(p)) /\ Keys(p) \subseteq K
            BY <1>1 DEF Sound
      <4> QED
            BY <4>1, <4>2, FS_AddElement
    <3>2. Entry(g[k], t, max) /\ Newest(g[k]) > p.lastSweep - window
      <4>1. Append(times, t) # << >>
            BY <2>4, <2>5, SMTT(30)
      <4>2. Newest(g[k]) = t
            BY <2>5, <2>6 DEF Newest
      <4> QED
            BY <2>1, <2>5, <2>6, <4>1, <4>2 DEF Entry
    <3>3. \A j \in Keys(m) : Entry(g[j], t, max) /\ Newest(g[j]) > p.lastSweep - window
          BY <1>1, <2>6, <2>7, <3>2 DEF Sound, Keys
    <3> QED
          BY <2>1, <2>2, <2>7, <3>1, <3>3 DEF Sound, m
  <2>9. Recent(m, k, t, window) = Append(times, t)
    <3>1. Times(m, k) = Append(times, t)
          BY <2>6, <2>7 DEF Times
    <3>2. Cut(times, 0, t - window)
          BY <2>1, SoundParts, PruneLeaves DEF Recent
    <3>3. Prune(Append(times, t), t - window) = Append(times, t)
      <4> HIDE DEF times
      <4> QED
          BY <2>1, <2>3, <2>4, <3>2, AppendKept
    <3> QED
          BY <3>1, <3>3 DEF Recent
  <2>10. \A j : j # k => Recent(m, j, t, window) = Recent(l, j, t, window)
    <3>1. \A j : j # k => Times(m, j) = Times(p, j)
          BY <2>6, <2>7 DEF Times, Keys
    <3> QED
          BY <1>1, <3>1 DEF Recent
  <2> QED
        BY <1>1, <1>4, <2>7, <2>8, <2>9, <2>10 DEF m
<1> QED
      BY <1>3, <1>4

LEMMA ResetStep ==
    ASSUME NEW K, NEW max, NEW window, NEW t, NEW l,
           Sound(l, t, K, max, window)
    PROVE  \A k :
               /\ Sound(Reset(l, k), t, K, max, window)
               /\ Recent(Reset(l, k), k, t, window) = << >>
               /\ \A j : j # k => Recent(Reset(l, k), j, t, window) = Recent(l, j, t, window)
<1> t \in Nat /\ max \in Nat \ {0} /\ window \in Nat \ {0}
    BY DEF Sound
<1> TAKE k
<1> DEFINE m == Reset(l, k)
           g == [j \in Keys(l) \ {k} |-> l.failures[j]]
<1>1. l = [max |-> max, window |-> window, failures |-> l.failures,
           lastSweep |-> l.lastSweep]
      BY DEF Sound
<1>2. m = [max |-> max, window |-> window, failures |-> g,
           lastSweep |-> l.lastSweep]
      BY <1>1 DEF Reset
<1>3. m.failures = g /\ m.lastSweep = l.lastSweep /\ Keys(m) = Keys(l) \ {k}
      BY <1>2 DEF Keys
<1> HIDE DEF m
<1>4. Sound(m, t, K, max, window)
  <2>1. IsFiniteSet(Keys(m)) /\ Keys(m) \subseteq K
        BY <1>3, FS_Subset DEF Sound
  <2> QED
        BY <1>2, <1>3, <2>1 DEF Sound
<1>5. Times(m, k) = << >> /\ \A j : j # k => Times(m, j) = Times(l, j)
      BY <1>3 DEF Times
<1> QED
      BY <1>4, <1>5, PruneEmpty DEF m, Recent

LEMMA RecentHistory ==
    ASSUME NEW K, NEW max, NEW window, NEW t, NEW l,
           Sound(l, t, K, max, window)
    PROVE  \A k :
               /\ History(Recent(l, k, t, window), t, max)
               /\ Cut(Recent(l, k, t, window), 0, t - window)
<1> t \in Nat /\ max \in Nat \ {0} /\ window \in Nat \ {0}
    BY DEF Sound
<1> TAKE k
<1>1. History(Times(l, k), t, max) /\ t - window \in Int
      BY SoundParts
<1> QED
      BY <1>1, PruneRest, PruneLeaves DEF Recent

LEMMA CheckStep ==
    ASSUME NEW K, NEW max, NEW window, NEW t, NEW l,
           Sound(l, t, K, max, window)
    PROVE  \A k :
               /\ Check(l, k, t).limiter = PruneKey(l, k, t)
               /\ Check(l, k, t).ok = (Len(Recent(l, k, t, window)) < max)
               /\ Check(l, k, t).retryAfter =
                     IF Len(Recent(l, k, t, window)) < max THEN 0
                     ELSE window - (t - Recent(l, k, t, window)[1])
<1> t \in Nat /\ max \in Nat \ {0} /\ window \in Nat \ {0}
    BY DEF Sound
<1> TAKE k
<1>1. /\ Times(PruneKey(l, k, t), k) = Recent(l, k, t, window)
      /\ PruneKey(l, k, t).window = window /\ l.max = max
  <2>1. /\ Times(PruneKey(l, k, t), k) = Recent(l, k, t, window)
        /\ Sound(PruneKey(l, k, t), t, K, max, window)
        BY PruneKeyStep
  <2> QED
        BY <2>1, SoundParts
<1> QED
      BY <1>1 DEF Check, RetryAfter

\* While nothing is done to it, a limiter only forgets.
LEMMA LaterStep ==
    ASSUME NEW K, NEW max, NEW window, NEW t, NEW l,
           Sound(l, t, K, max, window)
    PROVE  \A k, u : u \in Nat /\ t <= u =>
             /\ Recent(l, k, u, window) = Prune(Recent(l, k, t, window), u - window)
             /\ Times(PruneKey(l, k, u), k) = Recent(l, k, u, window)
<1> t \in Nat /\ max \in Nat \ {0} /\ window \in Nat \ {0}
    BY DEF Sound
<1> TAKE k, u
<1> HAVE u \in Nat /\ t <= u
<1>1. /\ History(Times(l, k), t, max) /\ t - window \in Int /\ u - window \in Int
      /\ t - window <= u - window
      BY SoundParts
<1>2. Recent(l, k, u, window) = Prune(Recent(l, k, t, window), u - window)
      BY <1>1, PruneTwice DEF Recent
<1>3. /\ l.window = window /\ Times(l, k) = Value(l.failures, k)
      /\ Entries(l.failures, t, max)
      BY SoundParts
<1> DEFINE g == PruneKeys(l.failures, {k}, u - window)
<1>4. Value(g, k) = Prune(Value(l.failures, k), u - window)
      BY <1>1, <1>3, PruneKeysStep
<1>5. PruneKey(l, k, u).failures = g
  <2>1. l = [max |-> max, window |-> window, failures |-> l.failures,
             lastSweep |-> l.lastSweep]
        BY DEF Sound
  <2> QED
        BY <1>3, <2>1 DEF PruneKey
<1>6. Times(PruneKey(l, k, u), k) = Value(g, k)
      BY <1>5 DEF Times, Keys, Value
<1> QED
      BY <1>2, <1>3, <1>4, <1>6 DEF Recent

LEMMA TickStep ==
    ASSUME NEW K, NEW max, NEW window, NEW t, NEW l,
           Sound(l, t, K, max, window)
    PROVE  /\ Sound(l, t + 1, K, max, window)
           /\ \A k : Recent(l, k, t + 1, window) = Prune(Recent(l, k, t, window), (t + 1) - window)
<1> t \in Nat /\ max \in Nat \ {0} /\ window \in Nat \ {0}
    BY DEF Sound
<1>1. Sound(l, t + 1, K, max, window)
  <2>1. \A k \in Keys(l) : Entry(l.failures[k], t + 1, max)
        BY LaterHistory DEF Sound, Entry
  <2>2. l.lastSweep \in -window .. t + 1
        BY DEF Sound
  <2> QED
        BY <2>1, <2>2 DEF Sound
<1>2. t + 1 \in Nat /\ t <= t + 1
      OBVIOUS
<1> QED
      BY <1>1, <1>2, LaterStep

\* The answer of Check, and the instant at which a block ends.
LEMMA CheckAnswer ==
    ASSUME NEW K, NEW max, NEW window, NEW t, NEW l,
           Sound(l, t, K, max, window)
    PROVE  \A k :
               /\ Check(l, k, t).ok <=> Len(Recent(l, k, t, window)) < max
               /\ Check(l, k, t).ok \in BOOLEAN
               /\ Check(l, k, t).retryAfter \in 0 .. window
               /\ ~Check(l, k, t).ok =>
                      Recent(l, k, t, window)[1] + window =
                          t + Check(l, k, t).retryAfter
<1> t \in Nat /\ max \in Nat \ {0} /\ window \in Nat \ {0}
    BY DEF Sound
<1> TAKE k
<1> DEFINE r == Recent(l, k, t, window)
           wait == Check(l, k, t).retryAfter
<1>1. History(r, t, max) /\ Cut(r, 0, t - window)
      BY RecentHistory
<1>2. wait = IF Len(r) < max THEN 0 ELSE window - (t - r[1])
      BY CheckStep
<1>3. Check(l, k, t).ok \in BOOLEAN /\ (Check(l, k, t).ok <=> Len(r) < max)
  <2>1. l.max = max /\ Times(PruneKey(l, k, t), k) = r
        BY SoundParts, PruneKeyStep
  <2>2. Check(l, k, t).ok <=> Len(r) < max
        BY <2>1 DEF Check
  <2>3. Check(l, k, t).ok \in BOOLEAN
        BY <2>1 DEF Check
  <2> QED
        BY <2>2, <2>3
<1> HIDE DEF r, wait
<1>4. /\ Len(r) \in Nat
      /\ \A i \in 1 .. Len(r) : r[i] \in 0 .. t /\ r[i] > t - window
      BY <1>1 DEF History, Cut
<1>5. wait \in 0 .. window /\ (~(Len(r) < max) => r[1] + window = t + wait)
  <2>1. CASE Len(r) < max
        BY <1>2, <2>1
  <2>2. CASE ~(Len(r) < max)
    <3>1. 1 \in 1 .. Len(r)
          BY <1>4, <2>2
    <3>2. r[1] \in 0 .. t /\ r[1] > t - window /\ wait = window - (t - r[1])
          BY <1>2, <1>4, <2>2, <3>1
    <3> QED
          BY <3>2
  <2> QED
        BY <2>1, <2>2
<1> QED
      BY <1>3, <1>5 DEF r, wait

\* A limiter to which nothing is done allows a key again once its oldest
\* failure is one window old, if it was full at all.
LEMMA LapsedStep ==
    ASSUME NEW K, NEW max, NEW window, NEW t, NEW l, NEW k, NEW u,
           Sound(l, t, K, max, window), u \in Nat, t <= u,
           Len(Times(l, k)) < max \/ Times(l, k)[1] + window <= u
    PROVE  Check(l, k, u).ok
<1> t \in Nat /\ max \in Nat \ {0} /\ window \in Nat \ {0}
    BY DEF Sound
<1> DEFINE times == Times(l, k)
           r == Prune(times, u - window)
<1>1. History(times, t, max) /\ u - window \in Int /\ l.max = max
      BY SoundParts
<1>2. PICK d : Rest(r, times, d) /\ Cut(times, d, u - window)
      BY <1>1, PruneRest
<1>3. Times(PruneKey(l, k, u), k) = r
      BY LaterStep DEF Recent
<1>4. Check(l, k, u).ok <=> Len(r) < max
      BY <1>1, <1>3 DEF Check
<1>5. times[1] + window <= u \/ Len(times) < max
      OBVIOUS
<1> HIDE DEF times, r
<1>6. /\ Len(times) \in Nat /\ Len(times) <= max
      /\ \A i \in 1 .. Len(times) : times[i] \in Nat
      BY <1>1 DEF History
<1>7. d \in 0 .. Len(times) /\ Len(r) = Len(times) - d
      BY <1>2 DEF Rest
<1>8. CASE Len(times) < max
      BY <1>4, <1>6, <1>7, <1>8
<1>9. CASE Len(times) = max /\ times[1] + window <= u
  <2>1. 1 \in 1 .. Len(times) /\ times[1] \in Nat /\ times[1] <= u - window
        BY <1>6, <1>9
  <2>2. d # 0
    <3> SUFFICES ASSUME d = 0 PROVE FALSE
        OBVIOUS
    <3>1. times[1] > u - window
          BY <1>2, <2>1 DEF Cut
    <3> QED
          BY <1>1, <2>1, <3>1
  <2> QED
        BY <1>4, <1>6, <1>7, <1>9, <2>2
<1> QED
      BY <1>5, <1>6, <1>8, <1>9

-----------------------------------------------------------------------------
(* The invariant.                                                          *)

IInv == now \in Time /\ Sound(limiter, now, Key, Max, Window)

LEMMA InitIInv == Init => IInv
<1> SUFFICES ASSUME Init PROVE IInv
    OBVIOUS
<1>1. /\ limiter = [max |-> Max, window |-> Window,
                    failures |-> [k \in {} |-> << >>], lastSweep |-> -Window]
      /\ now = 0
      BY DEF Init, NewLimiter
<1>2. Keys(limiter) = {}
      BY <1>1 DEF Keys
<1> QED
      BY <1>1, <1>2, FS_EmptySet, LimiterAssumption, ClockAssumption DEF IInv, Sound, Time

\* What a step does to the failures of each key within the window.
LEMMA NextRecent ==
    ASSUME IInv, Next
    PROVE  /\ IInv'
           /\ \/ /\ now' = now + 1 /\ UNCHANGED <<limiter, answer>>
                 /\ \A k \in Key : Live(k)' = Prune(Live(k), (now + 1) - Window)
              \/ \E k \in Key :
                    /\ DoCheck(k)
                    /\ \A j \in Key : Live(j)' = Live(j)
              \/ \E k \in Key :
                    /\ DoRecord(k)
                    /\ Live(k)' = IF Len(Live(k)) >= Max THEN Live(k)
                                  ELSE Append(Live(k), now)
                    /\ \A j \in Key \ {k} : Live(j)' = Live(j)
                    /\ Cardinality(Keys(limiter)) >= SweepThreshold =>
                           limiter'.lastSweep > now - Window
              \/ \E k \in Key :
                    /\ DoReset(k)
                    /\ Live(k)' = << >>
                    /\ \A j \in Key \ {k} : Live(j)' = Live(j)
<1>1. /\ now \in Nat /\ Sound(limiter, now, Key, Max, Window)
      /\ \A k : Live(k) = Recent(limiter, k, now, Window)
      /\ \A k : Live(k)' = Recent(limiter', k, now', Window)
      BY ClockAssumption DEF IInv, Time, Live, Recent
<1>2. CASE Tick
  <2>1. Sound(limiter, now + 1, Key, Max, Window)
        BY <1>1, TickStep
  <2>2. now' = now + 1 /\ limiter' = limiter /\ answer' = answer /\ now' \in Time
        BY <1>1, <1>2, ClockAssumption DEF Tick, Advance, Time
  <2>3. \A k \in Key : Live(k)' = Prune(Live(k), (now + 1) - Window)
        BY <1>1, <2>2, TickStep
  <2> QED
        BY <2>1, <2>2, <2>3 DEF IInv
<1>3. ASSUME NEW k \in Key, DoCheck(k) PROVE IInv' /\ \A j \in Key : Live(j)' = Live(j)
  <2>1. limiter' = PruneKey(limiter, k, now) /\ now' = now
    <3>1. Check(limiter, k, now).limiter = PruneKey(limiter, k, now)
          BY <1>1, CheckStep
    <3> QED
          BY <1>3, <3>1 DEF DoCheck
  <2> QED
        BY <1>1, <2>1, PruneKeyStep DEF IInv
<1>4. ASSUME NEW k \in Key, DoRecord(k)
      PROVE  /\ IInv'
             /\ Live(k)' = IF Len(Live(k)) >= Max THEN Live(k)
                           ELSE Append(Live(k), now)
             /\ \A j \in Key \ {k} : Live(j)' = Live(j)
             /\ Cardinality(Keys(limiter)) >= SweepThreshold =>
                    limiter'.lastSweep > now - Window
      BY <1>1, <1>4, RecordStep DEF DoRecord, IInv
<1>5. ASSUME NEW k \in Key, DoReset(k)
      PROVE  IInv' /\ Live(k)' = << >> /\ \A j \in Key \ {k} : Live(j)' = Live(j)
      BY <1>1, <1>5, ResetStep DEF DoReset, IInv
<1> QED
      BY <1>2, <1>3, <1>4, <1>5 DEF Next

LEMMA NextIInv == IInv /\ [Next]_vars => IInv'
<1>1. IInv /\ UNCHANGED vars => IInv'
      BY DEF vars, IInv
<1> QED
      BY <1>1, NextRecent

\* IInv holds in every reachable state: it is what the theorems rest on.
THEOREM Invariance == Spec => []IInv
BY InitIInv, NextIInv, PTL DEF Spec

LEMMA LiveHistory ==
    ASSUME IInv, NEW k
    PROVE  /\ now \in Nat /\ History(Live(k), now, Max) /\ Cut(Live(k), 0, now - Window)
           /\ Len(Live(k)) \in 0 .. Max
           /\ \A i \in 1 .. Len(Live(k)) : Live(k)[i] \in 0 .. now
<1>1. /\ now \in Nat /\ Sound(limiter, now, Key, Max, Window)
      /\ Live(k) = Recent(limiter, k, now, Window)
      BY ClockAssumption DEF IInv, Time, Live, Recent
<1>2. History(Live(k), now, Max) /\ Cut(Live(k), 0, now - Window)
      BY <1>1, RecentHistory
<1> QED
      BY <1>1, <1>2, LimiterAssumption DEF History

-----------------------------------------------------------------------------
(* The theorems.                                                           *)

\* Every key of the map has between one and Max failures, oldest first, none
\* of them in the future.
THEOREM TypeCorrect == Spec => []TypeOK
<1>1. ASSUME IInv PROVE TypeOK
  <2>1. ASSUME NEW k \in Keys(limiter)
        PROVE  LET times == limiter.failures[k] IN
               times \in Seq(0 .. now) /\ Len(times) \in 1 .. Max /\ Sorted(times)
    <3> DEFINE times == limiter.failures[k]
    <3>1. History(times, now, Max) /\ times # << >>
          BY <1>1, <2>1 DEF IInv, Sound, Entry
    <3> HIDE DEF times
    <3>2. times \in Seq(0 .. now) /\ Len(times) \in Nat /\ Len(times) <= Max
          BY <3>1 DEF History
    <3>3. Len(times) # 0
          BY <3>1, <3>2, EmptySeq
    <3> QED
          BY <3>1, <3>2, <3>3, LimiterAssumption DEF History, times
  <2>2. limiter.max = Max /\ limiter.window = Window
        BY <1>1, SoundParts, LimiterAssumption, ClockAssumption DEF IInv, Time
  <2> QED
        BY <1>1, <2>1, <2>2 DEF IInv, Sound, TypeOK
<1> QED
      BY <1>1, Invariance, PTL

\* A block ends one window after the failure that is the oldest of those that
\* caused it: attempts made meanwhile do not move it.
THEOREM BlockEndsOnTime == Spec => BlockNotExtended
<1>1. ASSUME IInv, Next, NEW k \in Key, Blocked(k), Blocked(k)'
      PROVE  Live(k)'[1] = Live(k)[1]
  <2>1. now \in Nat /\ Max \in Nat \ {0} /\ (now + 1) - Window \in Int
        BY <1>1, LiveHistory, LimiterAssumption
  <2>2. CASE Live(k)' = Prune(Live(k), (now + 1) - Window)
    <3>1. PICK d : Rest(Live(k)', Live(k), d)
          BY <1>1, <2>1, <2>2, LiveHistory, PruneRest
    <3>2. Len(Live(k)') = Len(Live(k)) - d /\ d \in Nat /\ Len(Live(k)) <= Max
          /\ Len(Live(k)') >= Max /\ Len(Live(k)) \in Nat
          BY <1>1, <3>1, LiveHistory, LimiterAssumption DEF Rest, Blocked
    <3>3. d = 0 /\ 1 \in 1 .. Len(Live(k)')
          BY <2>1, <3>2
    <3> QED
          BY <3>1, <3>3 DEF Rest
  <2>3. CASE Live(k)' = << >>
        BY <1>1, <2>1, <2>3 DEF Blocked
  <2>4. CASE Live(k)' = IF Len(Live(k)) >= Max THEN Live(k) ELSE Append(Live(k), now)
        BY <1>1, <2>4 DEF Blocked
  <2> QED
        BY <1>1, <2>2, <2>3, <2>4, NextRecent
<1>2. IInv /\ [Next]_vars =>
          [\A k \in Key : Blocked(k) /\ Blocked(k)' => Live(k)'[1] = Live(k)[1]]_vars
      BY <1>1
<1> QED
      BY <1>2, Invariance, PTL DEF Spec, BlockNotExtended

\* The wait a refused caller is told is the shortest that is enough.
THEOREM WaitIsExact == Spec => []RetryAfterIsExact
<1>1. ASSUME IInv, NEW k \in Key, ~Check(limiter, k, now).ok
      PROVE  LET c == Check(limiter, k, now) IN
             /\ c.retryAfter \in 1 .. Window
             /\ Check(limiter, k, now + c.retryAfter).ok
             /\ \A d \in 0 .. c.retryAfter - 1 : ~Check(limiter, k, now + d).ok
  <2> DEFINE times == Live(k)
             wait == Window - (now - times[1])
  <2>1. /\ now \in Nat /\ Sound(limiter, now, Key, Max, Window) /\ times = Recent(limiter, k, now, Window)
        /\ Window \in Nat \ {0} /\ Max \in Nat \ {0}
        BY <1>1, LimiterAssumption, ClockAssumption DEF IInv, Time, Live, Recent
  <2>2. ~(Len(times) < Max) /\ Check(limiter, k, now).retryAfter = wait
    <3> HIDE DEF times
    <3>1. /\ Check(limiter, k, now).ok = (Len(times) < Max)
          /\ Check(limiter, k, now).retryAfter =
                IF Len(times) < Max THEN 0 ELSE Window - (now - times[1])
          BY <2>1, CheckStep
    <3> QED
          BY <1>1, <3>1
  <2>3. /\ History(times, now, Max) /\ Cut(times, 0, now - Window)
        /\ Len(times) \in 0 .. Max
        /\ \A i \in 1 .. Len(times) : times[i] \in 0 .. now
        BY <1>1, LiveHistory
  <2> HIDE DEF times
  <2>4. Len(times) = Max /\ 1 \in 1 .. Len(times)
        BY <2>1, <2>2, <2>3
  <2>5. times[1] > now - Window /\ times[1] \in 0 .. now
        BY <2>3, <2>4 DEF Cut
  <2>6. wait \in 1 .. Window
        BY <2>1, <2>5
  <2>7. ASSUME NEW u \in Nat, now <= u
        PROVE  Check(limiter, k, u).ok <=> Len(Prune(times, u - Window)) < Max
    <3>1. Recent(limiter, k, u, Window) = Prune(times, u - Window)
          /\ Times(PruneKey(limiter, k, u), k) = Recent(limiter, k, u, Window)
          BY <2>1, <2>7, LaterStep
    <3>2. limiter.max = Max
          BY <2>1, SoundParts
    <3> QED
          BY <3>1, <3>2 DEF Check
  <2>8. Check(limiter, k, now + wait).ok
    <3>1. now + wait \in Nat /\ now <= now + wait /\ (now + wait) - Window = times[1]
          BY <2>1, <2>5, <2>6
    <3>2. PICK d : Rest(Prune(times, times[1]), times, d) /\ Cut(times, d, times[1])
          BY <2>3, <2>5, PruneRest
    <3>3. d \in 0 .. Len(times) /\ Len(Prune(times, times[1])) = Len(times) - d
          BY <3>2 DEF Rest
    <3>4. d # 0
      <4> SUFFICES ASSUME d = 0 PROVE FALSE
          OBVIOUS
      <4>1. times[1] > times[1]
            BY <2>4, <3>2 DEF Cut
      <4> QED
            BY <2>5, <4>1
    <3>5. Len(Prune(times, times[1])) < Max
          BY <2>1, <2>4, <3>3, <3>4
    <3> QED
          BY <2>7, <3>1, <3>5
  <2>9. ASSUME NEW d \in 0 .. wait - 1 PROVE ~Check(limiter, k, now + d).ok
    <3>1. now + d \in Nat /\ now <= now + d /\ (now + d) - Window \in Int
          /\ (now + d) - Window < times[1]
          BY <2>1, <2>5, <2>6
    <3>2. Cut(times, 0, (now + d) - Window)
      <4>1. ASSUME NEW i \in 1 .. Len(times) PROVE times[i] >= times[1]
            BY <2>3, <2>4 DEF History, Sorted
      <4>2. ASSUME NEW i \in 1 .. Len(times) PROVE times[i] > (now + d) - Window
            BY <2>3, <2>5, <3>1, <4>1
      <4> QED
            BY <2>3, <4>2 DEF Cut
    <3>3. Prune(times, (now + d) - Window) = times
          BY <2>1, <2>3, <3>1, <3>2, PruneNone
    <3> QED
          BY <2>1, <2>4, <2>7, <3>1, <3>3
  <2> QED
        BY <2>2, <2>6, <2>8, <2>9
<1>2. IInv => RetryAfterIsExact
      BY <1>1 DEF RetryAfterIsExact
<1> QED
      BY <1>2, Invariance, PTL

\* The map does not grow for ever: once it holds SweepThreshold keys, every
\* key that Record leaves had a failure within the last two windows.
THEOREM SweptInTime == Spec => MapIsSwept
<1>1. ASSUME IInv, NEW k \in Key, DoRecord(k),
             Cardinality(Keys(limiter)) >= SweepThreshold,
             NEW j \in Keys(limiter')
      PROVE  LET times == limiter'.failures[j]
             IN  times[Len(times)] > now - 2 * Window
  <2>1. now \in Nat /\ Sound(limiter, now, Key, Max, Window) /\ Window \in Nat
        BY <1>1, LimiterAssumption, ClockAssumption DEF IInv, Time
  <2>2. limiter' = Record(limiter, k, now)
        BY <1>1 DEF DoRecord
  <2>3. Sound(limiter', now, Key, Max, Window) /\ limiter'.lastSweep > now - Window
        BY <1>1, <2>1, <2>2, RecordStep
  <2>4. /\ Newest(limiter'.failures[j]) > limiter'.lastSweep - Window
        /\ History(limiter'.failures[j], now, Max) /\ limiter'.failures[j] # << >>
        BY <1>1, <2>3 DEF Sound, Entry
  <2>5. Newest(limiter'.failures[j]) \in Int /\ limiter'.lastSweep \in Int
    <3> DEFINE times == limiter'.failures[j]
    <3>1. limiter'.lastSweep \in Int
          BY <2>1, <2>3, SoundParts
    <3> HIDE DEF times
    <3>2. History(times, now, Max) /\ times # << >>
          BY <2>4 DEF times
    <3>3. times \in Seq(0 .. now) /\ Len(times) \in 1 .. Len(times)
          BY <3>2, EmptySeq DEF History
    <3>4. times[Len(times)] \in 0 .. now
          BY <3>3, ElementOfSeq
    <3> QED
          BY <2>1, <3>1, <3>4 DEF Newest, times
  <2> QED
        BY <2>1, <2>3, <2>4, <2>5 DEF Newest
<1>2. IInv /\ [Next]_vars =>
          [\A k \in Key :
             DoRecord(k) /\ Cardinality(Keys(limiter)) >= SweepThreshold =>
                 \A j \in Keys(limiter') :
                     LET times == limiter'.failures[j]
                     IN  times[Len(times)] > now - 2 * Window]_vars
      BY <1>1
<1> QED
      BY <1>2, Invariance, PTL DEF Spec, MapIsSwept

-----------------------------------------------------------------------------
(* The refinement of SlidingWindow.                                        *)

\* Forgetting what is too old is pruning.
LEMMA InWindowIsPrune ==
    ASSUME NEW t \in Nat, NEW times, History(times, t, Max), NEW u \in Nat
    PROVE  Promise!InWindow(times, u) = Prune(times, u - Window)
<1>1. /\ Len(times) \in Nat /\ DOMAIN times = 1 .. Len(times)
      /\ \A i \in 1 .. Len(times) : times[i] \in Nat
      /\ times \in Seq(Nat)
      BY DEF History
<1>2. u - Window \in Int /\ Window \in Nat
      BY LimiterAssumption
<1>3. PICK d \in 0 .. Len(times) : Cut(times, d, u - Window)
      BY <1>2, CutExists
<1> DEFINE Splits(n) ==
        \A i \in 1 .. Len(times) : i <= n <=> u - times[i] >= Window
<1>4. Splits(d)
  <2> SUFFICES ASSUME NEW i \in 1 .. Len(times)
               PROVE  i <= d <=> u - times[i] >= Window
      OBVIOUS
  <2>1. u - times[i] >= Window <=> times[i] <= u - Window
        BY <1>1, <1>2
  <2>2. i <= d <=> times[i] <= u - Window
        BY <1>1, <1>2, <1>3 DEF Cut
  <2> QED
        BY <2>1, <2>2
<1>5. \A n \in 0 .. Len(times) : Splits(n) => n = d
  <2> SUFFICES ASSUME NEW n \in 0 .. Len(times), Splits(n), n # d PROVE FALSE
      OBVIOUS
  <2>1. \A i \in 1 .. Len(times) : i <= n <=> i <= d
        BY <1>4
  <2> HIDE DEF Splits
  <2>2. n + 1 \in 1 .. Len(times) \/ d + 1 \in 1 .. Len(times)
        BY <1>1
  <2>3. n < d \/ d < n
        BY <1>1
  <2>4. CASE n < d
        BY <1>1, <2>1, <2>4, n + 1 \in 1 .. Len(times)
  <2>5. CASE d < n
        BY <1>1, <2>1, <2>5, d + 1 \in 1 .. Len(times)
  <2> QED
        BY <2>3, <2>4, <2>5
<1>6. Promise!Expired(times, u) = d
  <2>1. (CHOOSE n \in 0 .. Len(times) : Splits(n)) = d
        BY <1>4, <1>5
  <2> QED
        BY <2>1 DEF Promise!Expired
<1>7. Promise!InWindow(times, u) = SubSeq(times, d + 1, Len(times))
      BY <1>6 DEF Promise!InWindow
<1> QED
      BY <1>2, <1>3, <1>7, PruneIsSubSeq

LiveBar == [k \in Key |-> Live(k)]

\* Pruning lazily and sweeping is not observable: the limiter implements one
\* that forgets each failure the instant it is one window old.
THEOREM ImplementsSlidingWindow == Spec => KeepsPromise
<1>1. Init => Promise!Init
  <2> SUFFICES ASSUME Init PROVE Promise!Init
      OBVIOUS
  <2>1. \A k : Times(limiter, k) = << >>
        BY DEF Init, NewLimiter, Times, Keys
  <2>2. now \in Nat /\ \A k : Live(k) = << >>
        BY <2>1, PruneEmpty DEF Init, Live
  <2> QED
        BY <2>2 DEF Init, Promise!Init, NoAnswer, Promise!NoAnswer
<1>2. ASSUME IInv, Tick PROVE Promise!Tick
  <2>1. now \in Nat /\ now' = now + 1 /\ now < MaxTime /\ answer' = answer
        BY <1>2, LiveHistory DEF Tick, Advance
  <2>2. \A k \in Key : Live(k)' = Prune(Live(k), (now + 1) - Window)
    <3>1. /\ Sound(limiter, now, Key, Max, Window) /\ limiter' = limiter
          /\ \A k : Live(k) = Recent(limiter, k, now, Window)
          /\ \A k : Live(k)' = Recent(limiter', k, now', Window)
          BY <1>2 DEF Tick, IInv, Live, Recent
    <3> QED
          BY <2>1, <3>1, TickStep
  <2>3. \A k \in Key : Live(k)' = Promise!InWindow(Live(k), now + 1)
        BY <1>2, <2>1, <2>2, LiveHistory, InWindowIsPrune
  <2>4. LiveBar' = [k \in Key |-> Promise!InWindow(LiveBar[k], now + 1)]
        BY <2>3 DEF LiveBar
  <2> QED
        BY <2>1, <2>4 DEF Promise!Tick, LiveBar
<1>3. ASSUME IInv, NEW k \in Key, DoCheck(k) PROVE Promise!Ask(k)
  <2>1. now \in Nat /\ Sound(limiter, now, Key, Max, Window) /\ Live(k) = Recent(limiter, k, now, Window)
        BY <1>3, LiveHistory DEF IInv, Live, Recent
  <2>2. limiter' = PruneKey(limiter, k, now) /\ now' = now
        BY <1>3, <2>1, CheckStep DEF DoCheck
  <2>3. \A j \in Key : Live(j)' = Live(j)
        BY <2>1, <2>2, PruneKeyStep DEF Live, Recent
  <2>4. LiveBar' = LiveBar
        BY <2>3 DEF LiveBar
  <2>5. answer' = [key |-> k, ok |-> Len(Live(k)) < Max,
                   retryAfter |-> IF Len(Live(k)) < Max THEN 0
                                  ELSE Window - (now - Live(k)[1])]
        BY <1>3, <2>1, CheckStep DEF DoCheck
  <2>6. ~(Len(Live(k)) < Max) =>
            Window - (now - Live(k)[1]) = Live(k)[1] + Window - now
    <3> SUFFICES ASSUME ~(Len(Live(k)) < Max)
                 PROVE  Live(k)[1] \in Nat /\ Window \in Nat
        BY <2>1
    <3>1. Len(Live(k)) \in Nat /\ 1 \in 1 .. Len(Live(k))
          BY <1>3, LiveHistory, LimiterAssumption
    <3> QED
          BY <1>3, <2>1, <3>1, LiveHistory, LimiterAssumption
  <2>7. answer' = [key |-> k, ok |-> Len(Live(k)) < Max,
                   retryAfter |-> IF Len(Live(k)) < Max THEN 0
                                  ELSE Live(k)[1] + Window - now]
        BY <2>5, <2>6
  <2>8. LiveBar[k] = Live(k)
        BY DEF LiveBar
  <2>9. /\ answer' = [key |-> k, ok |-> Len(LiveBar[k]) < Max,
                      retryAfter |-> IF Len(LiveBar[k]) < Max THEN 0
                                     ELSE LiveBar[k][1] + Window - now]
        /\ now' = now /\ LiveBar' = LiveBar
        BY <2>2, <2>4, <2>7, <2>8
  <2> QED
        BY <2>9 DEF Promise!Ask, Promise!Allowed, LiveBar
<1>4. ASSUME IInv, NEW k \in Key, DoRecord(k) PROVE Promise!Fail(k)
  <2>1. now \in Nat /\ Sound(limiter, now, Key, Max, Window) /\ \A j : Live(j) = Recent(limiter, j, now, Window)
        BY <1>4, LiveHistory DEF IInv, Live, Recent
  <2>2. now' = now /\ answer' = answer /\ limiter' = Record(limiter, k, now)
        BY <1>4 DEF DoRecord
  <2>3. /\ Live(k)' = IF Len(Live(k)) >= Max THEN Live(k) ELSE Append(Live(k), now)
        /\ \A j \in Key \ {k} : Live(j)' = Live(j)
        BY <2>1, <2>2, RecordStep DEF Live, Recent
  <2>4. Len(Live(k)) >= Max <=> ~(Len(Live(k)) < Max)
        BY <1>4, LiveHistory, LimiterAssumption
  <2>5. LiveBar' = IF Len(Live(k)) < Max
                   THEN [LiveBar EXCEPT ![k] = Append(LiveBar[k], now)] ELSE LiveBar
        BY <2>3, <2>4 DEF LiveBar
  <2> QED
        BY <2>2, <2>5 DEF Promise!Fail, Promise!Allowed, LiveBar
<1>5. ASSUME IInv, NEW k \in Key, DoReset(k) PROVE Promise!Forgive(k)
  <2>1. now \in Nat /\ Sound(limiter, now, Key, Max, Window)
        BY <1>5, LiveHistory DEF IInv
  <2>2. now' = now /\ answer' = answer /\ limiter' = Reset(limiter, k)
        BY <1>5 DEF DoReset
  <2>3. Live(k)' = << >> /\ \A j \in Key \ {k} : Live(j)' = Live(j)
        BY <2>1, <2>2, ResetStep DEF Live, Recent
  <2>4. LiveBar' = [LiveBar EXCEPT ![k] = << >>]
        BY <2>3 DEF LiveBar
  <2> QED
        BY <2>2, <2>4 DEF Promise!Forgive, LiveBar
<1>6. IInv /\ [Next]_vars => [Promise!Next]_(Promise!vars)
  <2>1. UNCHANGED vars => UNCHANGED Promise!vars
        BY DEF vars, Promise!vars, Live
  <2> QED
        BY <1>2, <1>3, <1>4, <1>5, <2>1 DEF Next, Promise!Next
<1> QED
      BY <1>1, <1>6, Invariance, PTL DEF Spec, KeepsPromise, Promise!Spec

-----------------------------------------------------------------------------
(* The login gate.                                                         *)

\* The failures the account's limiter holds against an email.
Counted(e) == Recent(emailLimiter, e, now, EmailWindow)

\* p was let through for e and has not yet told the limiter of the outcome.
Owed(p, e) ==
    /\ pc[p] \in {"verify", "countIp", "countEmail", "resetIp", "resetEmail"}
    /\ req[p].email = e

Margin(p, e) == IF Owed(p, e) /\ Len(Counted(e)) < EmailMax THEN 1 ELSE 0

\* Each attempt of p at e has a failure of e, no older, that stands for it, but
\* for an attempt still to be told of.  Once e is full that one needs none: the
\* failures that filled e after p was let through are enough.
Held(p, e) ==
    /\ History(fresh[p][e], now, EmailMax)
    /\ Behind(Within(fresh[p][e]), Counted(e), Margin(p, e))

GateLocals ==
    /\ pc \in [Proc -> Phase]
    /\ req \in [Proc -> [ip : Ip, email : Email] \cup {NoReq}]
    /\ \A p \in Proc : IF pc[p] = "idle" THEN req[p] = NoReq
                       ELSE req[p] \in [ip : Ip, email : Email]
    /\ ipCheck \in [Proc -> [ok : BOOLEAN, wait : 0 .. IpWindow, at : 0 .. now]]
    /\ reply \in [Proc -> [kind : {"none", "badRequest", "tooMany", "invalid",
                                   "session", "failed"},
                           seconds : 0 .. MaxTime + IpWindow + EmailWindow]]
    /\ \A p \in Proc : pc[p] # "idle" => reply[p] = Say("none")

GateLimiters ==
    /\ now \in Time
    /\ Sound(ipLimiter, now, Ip, IpMax, IpWindow)
    /\ Sound(emailLimiter, now, Email, EmailMax, EmailWindow)

GateIInv ==
    /\ GateLimiters /\ GateLocals
    /\ fresh \in [Proc -> [Email -> Seq(Nat)]]
    /\ \A p \in Proc, e \in Email : Held(p, e)

LEMMA GateConstants ==
    /\ IpMax \in Nat \ {0} /\ IpWindow \in Nat \ {0} /\ EmailMax \in Nat \ {0}
    /\ EmailWindow \in Nat \ {0} /\ Second \in Nat \ {0} /\ MaxTime \in Nat
BY LoginGateAssumption, ClockAssumption

LEMMA NewSound ==
    ASSUME NEW K, NEW max, NEW window, NEW t,
           max \in Nat \ {0}, window \in Nat \ {0}, t \in Nat
    PROVE  /\ Sound(NewLimiter(max, window), t, K, max, window)
           /\ \A k : Recent(NewLimiter(max, window), k, t, window) = << >>
<1> DEFINE l == NewLimiter(max, window)
<1>1. l = [max |-> max, window |-> window, failures |-> [k \in {} |-> << >>],
           lastSweep |-> -window]
      BY DEF NewLimiter
<1>2. Keys(l) = {} /\ IsFiniteSet({})
      BY <1>1, FS_EmptySet DEF Keys
<1> HIDE DEF l
<1>3. Sound(l, t, K, max, window)
  <2>1. l = [max |-> max, window |-> window, failures |-> l.failures,
             lastSweep |-> l.lastSweep]
        BY <1>1
  <2>2. l.lastSweep = -window /\ -window \in -window .. t
        BY <1>1
  <2> QED
        BY <1>2, <2>1, <2>2 DEF Sound
<1>4. \A k : Recent(l, k, t, window) = << >>
      BY <1>2, PruneEmpty DEF Recent, Times
<1> QED
      BY <1>3, <1>4 DEF l

\* What is known of an account and of a client's attempts at it.
LEMMA HeldFacts ==
    ASSUME GateIInv, NEW p \in Proc, NEW e \in Email
    PROVE  /\ now \in Nat /\ now - EmailWindow \in Int
           /\ History(fresh[p][e], now, EmailMax)
           /\ History(Within(fresh[p][e]), now, EmailMax)
           /\ Cut(Within(fresh[p][e]), 0, now - EmailWindow)
           /\ History(Counted(e), now, EmailMax)
           /\ Cut(Counted(e), 0, now - EmailWindow)
           /\ Margin(p, e) \in {0, 1}
           /\ Behind(Within(fresh[p][e]), Counted(e), Margin(p, e))
           /\ Len(Counted(e)) < EmailMax \/ Len(Counted(e)) = EmailMax
           /\ Len(Within(fresh[p][e])) <= EmailMax
<1>1. /\ now \in Nat /\ now - EmailWindow \in Int /\ EmailMax \in Nat \ {0}
      /\ Sound(emailLimiter, now, Email, EmailMax, EmailWindow)
      /\ Held(p, e)
      BY GateConstants DEF GateIInv, GateLimiters, Time
<1>2. /\ History(fresh[p][e], now, EmailMax)
      /\ Behind(Within(fresh[p][e]), Counted(e), Margin(p, e))
      BY <1>1 DEF Held
<1>3. /\ History(Within(fresh[p][e]), now, EmailMax)
      /\ Cut(Within(fresh[p][e]), 0, now - EmailWindow)
      BY <1>1, <1>2, PruneRest, PruneLeaves DEF Within
<1>4. History(Counted(e), now, EmailMax) /\ Cut(Counted(e), 0, now - EmailWindow)
      BY <1>1, RecentHistory DEF Counted
<1>5. Len(Counted(e)) \in Nat /\ Len(Counted(e)) <= EmailMax
      BY <1>4 DEF History
<1>6. Len(Within(fresh[p][e])) <= EmailMax
      BY <1>3 DEF History
<1> QED
      BY <1>1, <1>2, <1>3, <1>4, <1>5, <1>6 DEF Margin

\* A step that leaves the account, the attempts at it and who owes alone.
LEMMA HeldOne ==
    ASSUME GateIInv, NEW p \in Proc, NEW e \in Email, now' = now,
           fresh'[p][e] = fresh[p][e], Counted(e)' = Counted(e),
           Owed(p, e)' <=> Owed(p, e)
    PROVE  Held(p, e)'
<1>1. Margin(p, e)' = Margin(p, e)
      BY DEF Margin
<1>2. Within(fresh[p][e])' = Within(fresh[p][e])
      BY DEF Within
<1> QED
      BY <1>1, <1>2, HeldFacts DEF Held

LEMMA HeldSame ==
    ASSUME GateIInv, now' = now, fresh' = fresh,
           \A e \in Email : Counted(e)' = Counted(e),
           \A p \in Proc, e \in Email : Owed(p, e)' <=> Owed(p, e)
    PROVE  \A p \in Proc, e \in Email : Held(p, e)'
BY HeldOne

LEMMA EmptyHeld ==
    ASSUME NEW p \in Proc, NEW e \in Email, now' \in Nat,
           fresh'[p][e] = << >>, Len(Counted(e)') \in Nat
    PROVE  Held(p, e)'
<1>1. Within(fresh[p][e])' = << >>
      BY PruneEmpty DEF Within
<1>2. History(<< >>, now', EmailMax)
      BY GateConstants, NoHistory
<1>3. Margin(p, e)' \in {0, 1}
      BY DEF Margin
<1>4. Behind(<< >>, Counted(e)', Margin(p, e)')
      BY <1>3 DEF Behind
<1> QED
      BY <1>1, <1>2, <1>4 DEF Held
-----------------------------------------------------------------------------
(* What each step does to the invariant.                                   *)

\* The steps of p, between its request and its answer.
LEMMA InFlight ==
    ASSUME GateIInv, NEW p \in Proc, pc[p] # "idle"
    PROVE  /\ now \in Nat /\ now \in Time
           /\ req[p] \in [ip : Ip, email : Email]
           /\ req[p].ip \in Ip /\ req[p].email \in Email
           /\ reply[p] = Say("none")
BY DEF GateIInv, GateLimiters, GateLocals, Time

\* Moving a client along keeps the locals well formed.
LEMMA GotoLocals ==
    ASSUME GateIInv, NEW p \in Proc, pc[p] # "idle",
           NEW phase \in Phase \ {"idle"}, Goto(p, phase), now' = now,
           ipCheck' \in [Proc -> [ok : BOOLEAN, wait : 0 .. IpWindow, at : 0 .. now]]
    PROVE  GateLocals'
<1>1. /\ pc' = [pc EXCEPT ![p] = phase] /\ req' = req /\ reply' = reply
      BY DEF Goto
<1>2. /\ pc' \in [Proc -> Phase]
      /\ pc'[p] = phase
      /\ \A q \in Proc \ {p} : pc'[q] = pc[q]
      BY <1>1 DEF GateIInv, GateLocals
<1>3. /\ req[p] \in [ip : Ip, email : Email] /\ reply[p] = Say("none")
      BY InFlight
<1>4. \A q \in Proc : IF pc'[q] = "idle" THEN req'[q] = NoReq
                      ELSE req'[q] \in [ip : Ip, email : Email]
      BY <1>1, <1>2, <1>3 DEF GateIInv, GateLocals
<1>5. \A q \in Proc : pc'[q] # "idle" => reply'[q] = Say("none")
      BY <1>1, <1>2, <1>3 DEF GateIInv, GateLocals
<1> QED
      BY <1>1, <1>2, <1>4, <1>5 DEF GateIInv, GateLocals

LEMMA FinishLocals ==
    ASSUME GateIInv, NEW p \in Proc, now' = now,
           NEW outcome \in [kind : {"tooMany", "invalid", "session", "failed"},
                            seconds : 0 .. MaxTime + IpWindow + EmailWindow],
           Finish(p, outcome)
    PROVE  GateLocals'
<1>1. /\ pc' = [pc EXCEPT ![p] = "idle"] /\ req' = [req EXCEPT ![p] = NoReq]
      /\ ipCheck' = [ipCheck EXCEPT ![p] = NoCheck]
      /\ reply' = [reply EXCEPT ![p] = outcome]
      BY DEF Finish
<1>2. /\ pc' \in [Proc -> Phase] /\ pc'[p] = "idle"
      /\ \A q \in Proc \ {p} : pc'[q] = pc[q]
      BY <1>1 DEF GateIInv, GateLocals, Phase
<1>3. /\ req' \in [Proc -> [ip : Ip, email : Email] \cup {NoReq}]
      /\ req'[p] = NoReq
      /\ \A q \in Proc \ {p} : req'[q] = req[q]
      BY <1>1 DEF GateIInv, GateLocals
<1>4. NoCheck \in [ok : BOOLEAN, wait : 0 .. IpWindow, at : 0 .. now]
      BY GateConstants DEF NoCheck, GateIInv, GateLimiters, Time
<1>5. ipCheck' \in [Proc -> [ok : BOOLEAN, wait : 0 .. IpWindow, at : 0 .. now]]
      BY <1>1, <1>4 DEF GateIInv, GateLocals
<1>6. /\ reply' \in [Proc -> [kind : {"none", "badRequest", "tooMany", "invalid",
                                      "session", "failed"},
                              seconds : 0 .. MaxTime + IpWindow + EmailWindow]]
      /\ \A q \in Proc \ {p} : reply'[q] = reply[q]
      BY <1>1 DEF GateIInv, GateLocals
<1>7. \A q \in Proc : IF pc'[q] = "idle" THEN req'[q] = NoReq
                      ELSE req'[q] \in [ip : Ip, email : Email]
      BY <1>2, <1>3 DEF GateIInv, GateLocals
<1>8. \A q \in Proc : pc'[q] # "idle" => reply'[q] = Say("none")
      BY <1>2, <1>6 DEF GateIInv, GateLocals
<1> QED
      BY <1>2, <1>3, <1>5, <1>6, <1>7, <1>8 DEF GateLocals
LEMMA InitGate == GateInit => GateIInv
<1> SUFFICES ASSUME GateInit PROVE GateIInv
    OBVIOUS
<1>1. now = 0 /\ now \in Time /\ now \in Nat
      BY GateConstants DEF GateInit, Time
<1>2. GateLimiters
      BY <1>1, GateConstants, NewSound DEF GateInit, GateLimiters
<1>3. Say("none") \in [kind : {"none", "badRequest", "tooMany", "invalid",
                               "session", "failed"},
                       seconds : 0 .. MaxTime + IpWindow + EmailWindow]
      BY GateConstants DEF Say
<1>4. NoCheck \in [ok : BOOLEAN, wait : 0 .. IpWindow, at : 0 .. now]
      BY <1>1, GateConstants DEF NoCheck
<1>5. GateLocals
      BY <1>3, <1>4 DEF GateInit, GateLocals, Phase
<1>6. fresh \in [Proc -> [Email -> Seq(Nat)]]
      /\ \A p \in Proc, e \in Email : fresh[p][e] = << >>
      BY DEF GateInit, NoAttempts
<1>7. \A e \in Email : Counted(e) = << >>
      BY <1>1, GateConstants, NewSound DEF GateInit, Counted
<1>8. ASSUME NEW p \in Proc, NEW e \in Email PROVE Held(p, e)
  <2>1. Within(fresh[p][e]) = << >> /\ History(<< >>, now, EmailMax)
        BY <1>1, <1>6, PruneEmpty, NoHistory, GateConstants DEF Within
  <2>2. Margin(p, e) \in {0, 1}
        BY DEF Margin
  <2>3. Behind(<< >>, << >>, Margin(p, e))
        BY <2>2 DEF Behind
  <2> QED
        BY <1>6, <1>7, <2>1, <2>3 DEF Held
<1> QED
      BY <1>2, <1>5, <1>6, <1>8 DEF GateIInv

LEMMA RestartGate ==
    ASSUME GateIInv, Restart
    PROVE  GateIInv'
<1>1. now' = now /\ now \in Time /\ now \in Nat
      BY GateConstants DEF Restart, GateIInv, GateLimiters, Time
<1>2. GateLimiters'
      BY <1>1, GateConstants, NewSound DEF Restart, GateLimiters, Time
<1>3. Say("none") \in [kind : {"none", "badRequest", "tooMany", "invalid",
                               "session", "failed"},
                       seconds : 0 .. MaxTime + IpWindow + EmailWindow]
      BY GateConstants DEF Say
<1>4. NoCheck \in [ok : BOOLEAN, wait : 0 .. IpWindow, at : 0 .. now]
      BY <1>1, GateConstants DEF NoCheck
<1>5. GateLocals'
      BY <1>1, <1>3, <1>4 DEF Restart, GateLocals, Phase
<1>6. fresh' \in [Proc -> [Email -> Seq(Nat)]]
      /\ \A p \in Proc, e \in Email : fresh'[p][e] = << >>
      BY DEF Restart, NoAttempts
<1>7. \A e \in Email : Counted(e)' = << >>
      BY <1>1, GateConstants, NewSound DEF Restart, Counted
<1>8. \A p \in Proc, e \in Email : Held(p, e)'
      BY <1>1, <1>6, <1>7, EmptyHeld
<1> QED
      BY <1>2, <1>5, <1>6, <1>8 DEF GateIInv

LEMMA TickGate ==
    ASSUME GateIInv, GateTick
    PROVE  GateIInv'
<1>1. /\ now \in Nat /\ now' = now + 1 /\ now' \in Time /\ now + 1 \in Nat
      /\ UNCHANGED <<ipLimiter, emailLimiter, pc, req, ipCheck, reply, fresh>>
      BY GateConstants DEF GateTick, Advance, GateIInv, GateLimiters, Time, limiters,
            histories
<1>2. GateLimiters'
      BY <1>1, TickStep DEF GateIInv, GateLimiters
<1>3. GateLocals'
  <2>1. [ok : BOOLEAN, wait : 0 .. IpWindow, at : 0 .. now] \subseteq
            [ok : BOOLEAN, wait : 0 .. IpWindow, at : 0 .. now + 1]
        BY <1>1
  <2> QED
        BY <1>1, <2>1 DEF GateIInv, GateLocals
<1>4. ASSUME NEW p \in Proc, NEW e \in Email PROVE Held(p, e)'
  <2> DEFINE a == Within(fresh[p][e])
             r == Counted(e)
             c == (now + 1) - EmailWindow
  <2>1. /\ History(fresh[p][e], now, EmailMax) /\ Behind(a, r, Margin(p, e))
        /\ History(a, now, EmailMax) /\ History(r, now, EmailMax)
        /\ now - EmailWindow \in Int /\ c \in Int /\ now - EmailWindow <= c
        BY <1>1, HeldFacts, GateConstants
  <2>2. Within(fresh[p][e])' = Prune(a, c)
        BY <1>1, <2>1, PruneTwice DEF Within
  <2>3. Counted(e)' = Prune(r, c)
    <3>1. Counted(e)' = Recent(emailLimiter, e, now + 1, EmailWindow)
          BY <1>1 DEF Counted
    <3>2. Sound(emailLimiter, now, Email, EmailMax, EmailWindow)
          BY DEF GateIInv, GateLimiters
    <3> QED
          BY <3>1, <3>2, TickStep DEF Counted
  <2> HIDE DEF a, r, c
  <2>4. Behind(Prune(a, c), Prune(r, c), Margin(p, e))
        BY <2>1, BehindPrune
  <2>5. /\ History(Prune(a, c), now, EmailMax) /\ History(Prune(r, c), now, EmailMax)
        /\ Len(Prune(r, c)) <= Len(r)
    <3>1. PICK d : Rest(Prune(r, c), r, d)
          BY <2>1, PruneRest
    <3>2. d \in Nat /\ Len(Prune(r, c)) = Len(r) - d /\ Len(r) \in Nat
          BY <2>1, <3>1 DEF Rest, History
    <3> QED
          BY <2>1, <3>2, PruneRest
  <2>6. Margin(p, e)' = Margin(p, e) \/ (Margin(p, e)' = 1 /\ Margin(p, e) = 0)
    <3>1. Len(Prune(r, c)) \in Nat /\ Len(r) \in Nat /\ EmailMax \in Nat
          BY <2>1, <2>5 DEF History
    <3>2. Len(r) < EmailMax => Len(Prune(r, c)) < EmailMax
          BY <2>5, <3>1
    <3> QED
          BY <1>1, <2>3, <3>2 DEF Margin, Owed, r
  <2>7. Behind(Prune(a, c), Prune(r, c), Margin(p, e)')
        BY <2>4, <2>5, <2>6, BehindWeaken
  <2>8. History(fresh[p][e], now + 1, EmailMax)
        BY <2>1, LaterHistory
  <2> QED
        BY <1>1, <2>2, <2>3, <2>7, <2>8 DEF Held
<1> QED
      BY <1>1, <1>2, <1>3, <1>4 DEF GateIInv
LEMMA RefuseGate ==
    ASSUME GateIInv, NEW p \in Proc, RefuseBody(p)
    PROVE  GateIInv'
<1>1. /\ pc[p] = "idle" /\ reply' = [reply EXCEPT ![p] = Say("badRequest")]
      /\ UNCHANGED <<now, ipLimiter, emailLimiter, pc, req, ipCheck, fresh>>
      BY DEF RefuseBody, limiters, histories
<1>2. Say("badRequest") \in [kind : {"none", "badRequest", "tooMany", "invalid",
                                     "session", "failed"},
                             seconds : 0 .. MaxTime + IpWindow + EmailWindow]
      BY GateConstants DEF Say
<1>3. GateLocals'
      BY <1>1, <1>2 DEF GateIInv, GateLocals
<1>4. GateLimiters'
      BY <1>1 DEF GateIInv, GateLimiters
<1>5. \A q \in Proc, e \in Email : Held(q, e)'
      BY <1>1, HeldSame DEF Counted, Owed
<1> QED
      BY <1>1, <1>3, <1>4, <1>5 DEF GateIInv

LEMMA AuthenticateGate ==
    ASSUME GateIInv, NEW p \in Proc, NEW ip \in Ip, NEW email \in Email,
           Authenticate(p, ip, email)
    PROVE  GateIInv'
<1>1. /\ pc[p] = "idle" /\ pc' = [pc EXCEPT ![p] = "checkIp"]
      /\ req' = [req EXCEPT ![p] = [ip |-> ip, email |-> email]]
      /\ reply' = [reply EXCEPT ![p] = Say("none")]
      /\ UNCHANGED <<now, ipLimiter, emailLimiter, ipCheck, fresh>>
      BY DEF Authenticate, At, limiters, histories
<1>2. Say("none") \in [kind : {"none", "badRequest", "tooMany", "invalid",
                               "session", "failed"},
                       seconds : 0 .. MaxTime + IpWindow + EmailWindow]
      BY GateConstants DEF Say
<1>3. /\ pc' \in [Proc -> Phase] /\ pc'[p] = "checkIp"
      /\ \A q \in Proc \ {p} : pc'[q] = pc[q]
      BY <1>1 DEF GateIInv, GateLocals, Phase
<1>4. /\ req' \in [Proc -> [ip : Ip, email : Email] \cup {NoReq}]
      /\ req'[p] \in [ip : Ip, email : Email]
      /\ \A q \in Proc \ {p} : req'[q] = req[q]
      BY <1>1 DEF GateIInv, GateLocals
<1>5. /\ reply' \in [Proc -> [kind : {"none", "badRequest", "tooMany", "invalid",
                                      "session", "failed"},
                              seconds : 0 .. MaxTime + IpWindow + EmailWindow]]
      /\ reply'[p] = Say("none")
      /\ \A q \in Proc \ {p} : reply'[q] = reply[q]
      BY <1>1, <1>2 DEF GateIInv, GateLocals
<1>6. GateLocals'
  <2>1. \A q \in Proc : IF pc'[q] = "idle" THEN req'[q] = NoReq
                        ELSE req'[q] \in [ip : Ip, email : Email]
        BY <1>3, <1>4 DEF GateIInv, GateLocals
  <2>2. \A q \in Proc : pc'[q] # "idle" => reply'[q] = Say("none")
        BY <1>3, <1>5 DEF GateIInv, GateLocals
  <2> QED
        BY <1>1, <1>3, <1>4, <1>5, <2>1, <2>2 DEF GateIInv, GateLocals
<1>7. GateLimiters'
      BY <1>1 DEF GateIInv, GateLimiters
<1>8. \A q \in Proc, e \in Email : Owed(q, e)' <=> Owed(q, e)
      BY <1>1, <1>3, <1>4 DEF Owed
<1>9. \A q \in Proc, e \in Email : Held(q, e)'
      BY <1>1, <1>8, HeldSame DEF Counted
<1> QED
      BY <1>1, <1>6, <1>7, <1>9 DEF GateIInv

\* A step that only moves a client along, or asks or tells the limiter of the
\* addresses.
LEMMA GotoGate ==
    ASSUME GateIInv, NEW p \in Proc, pc[p] # "idle",
           NEW phase \in Phase \ {"idle"}, Goto(p, phase), now' = now,
           Sound(ipLimiter', now, Ip, IpMax, IpWindow),
           emailLimiter' = emailLimiter, fresh' = fresh,
           ipCheck' \in [Proc -> [ok : BOOLEAN, wait : 0 .. IpWindow, at : 0 .. now]],
           pc[p] \in {"checkIp", "checkEmail"} <=> phase \in {"checkIp", "checkEmail"}
    PROVE  GateIInv'
<1>1. GateLocals'
      BY GotoLocals
<1>2. GateLimiters'
      BY DEF GateIInv, GateLimiters
<1>3. \A q \in Proc, e \in Email : Owed(q, e)' <=> Owed(q, e)
  <2>1. /\ pc'[p] = phase /\ req' = req /\ \A q \in Proc \ {p} : pc'[q] = pc[q]
        /\ pc[p] \in Phase \ {"idle"}
        BY DEF Goto, GateIInv, GateLocals
  <2> QED
        BY <2>1 DEF Owed, Phase
<1>4. \A q \in Proc, e \in Email : Held(q, e)'
      BY <1>3, HeldSame DEF Counted
<1> QED
      BY <1>1, <1>2, <1>4 DEF GateIInv

LEMMA CheckIpGate ==
    ASSUME GateIInv, NEW p \in Proc, CheckIp(p)
    PROVE  GateIInv'
<1> DEFINE c == Check(ipLimiter, req[p].ip, now)
<1>1. /\ pc[p] = "checkIp" /\ now' = now /\ Goto(p, "checkEmail")
      /\ ipLimiter' = c.limiter
      /\ ipCheck' = [ipCheck EXCEPT
                        ![p] = [ok |-> c.ok, wait |-> c.retryAfter, at |-> now]]
      /\ UNCHANGED <<emailLimiter, fresh>>
      BY DEF CheckIp, At, histories
<1>2. Sound(ipLimiter, now, Ip, IpMax, IpWindow) /\ now \in Nat
      BY GateConstants DEF GateIInv, GateLimiters, Time
<1>3. c.ok \in BOOLEAN /\ c.retryAfter \in 0 .. IpWindow
      BY <1>2, CheckAnswer
<1>4. Sound(c.limiter, now, Ip, IpMax, IpWindow)
      BY <1>2, CheckStep, PruneKeyStep
<1> HIDE DEF c
<1>5. ipCheck' \in [Proc -> [ok : BOOLEAN, wait : 0 .. IpWindow, at : 0 .. now]]
      BY <1>1, <1>2, <1>3 DEF GateIInv, GateLocals
<1>6. "checkEmail" \in Phase \ {"idle"}
      BY DEF Phase
<1> QED
      BY <1>1, <1>4, <1>5, <1>6, GotoGate

LEMMA VerifyGate ==
    ASSUME GateIInv, NEW p \in Proc, Verify(p)
    PROVE  GateIInv'
<1>1. /\ pc[p] = "verify" /\ now' = now
      /\ UNCHANGED <<ipLimiter, emailLimiter, ipCheck, fresh>>
      /\ \E phase \in {"countIp", "resetIp"} : Goto(p, phase)
      BY DEF Verify, At, limiters, histories
<1>2. PICK phase \in {"countIp", "resetIp"} : Goto(p, phase)
      BY <1>1
<1>3. phase \in Phase \ {"idle"}
      BY DEF Phase
<1>4. /\ Sound(ipLimiter', now, Ip, IpMax, IpWindow)
      /\ ipCheck' \in [Proc -> [ok : BOOLEAN, wait : 0 .. IpWindow, at : 0 .. now]]
      BY <1>1 DEF GateIInv, GateLimiters, GateLocals
<1> QED
      BY <1>1, <1>2, <1>3, <1>4, GotoGate

LEMMA CountIpGate ==
    ASSUME GateIInv, NEW p \in Proc, CountIp(p)
    PROVE  GateIInv'
<1>1. /\ pc[p] = "countIp" /\ now' = now /\ Goto(p, "countEmail")
      /\ ipLimiter' = Record(ipLimiter, req[p].ip, now)
      /\ UNCHANGED <<emailLimiter, ipCheck, fresh>>
      BY DEF CountIp, At, histories
<1>2. /\ Sound(ipLimiter, now, Ip, IpMax, IpWindow) /\ req[p].ip \in Ip
      /\ ipCheck' \in [Proc -> [ok : BOOLEAN, wait : 0 .. IpWindow, at : 0 .. now]]
      BY <1>1, InFlight DEF GateIInv, GateLimiters, GateLocals
<1>3. Sound(ipLimiter', now, Ip, IpMax, IpWindow)
      BY <1>1, <1>2, RecordStep
<1>4. "countEmail" \in Phase \ {"idle"}
      BY DEF Phase
<1> QED
      BY <1>1, <1>2, <1>3, <1>4, GotoGate

LEMMA ResetIpGate ==
    ASSUME GateIInv, NEW p \in Proc, ResetIp(p)
    PROVE  GateIInv'
<1>1. /\ pc[p] = "resetIp" /\ now' = now /\ Goto(p, "resetEmail")
      /\ ipLimiter' = Reset(ipLimiter, req[p].ip)
      /\ UNCHANGED <<emailLimiter, ipCheck, fresh>>
      BY DEF ResetIp, At, histories
<1>2. /\ Sound(ipLimiter, now, Ip, IpMax, IpWindow)
      /\ ipCheck' \in [Proc -> [ok : BOOLEAN, wait : 0 .. IpWindow, at : 0 .. now]]
      BY <1>1 DEF GateIInv, GateLimiters, GateLocals
<1>3. Sound(ipLimiter', now, Ip, IpMax, IpWindow)
      BY <1>1, <1>2, ResetStep
<1>4. "resetEmail" \in Phase \ {"idle"}
      BY DEF Phase
<1> QED
      BY <1>1, <1>2, <1>3, <1>4, GotoGate
\* The wait in whole seconds is no shorter than either limiter's.
LEMMA RoundedUp ==
    ASSUME NEW a \in Nat, NEW b \in Nat
    PROVE  LET s == RetryAfterSeconds(Wait(a, b)) IN
           s \in Nat /\ s * Second >= a /\ s * Second >= b
              /\ (s <= a + b \/ s = 1)
<1> DEFINE w == Wait(a, b)
           n == w + Second - 1
           q == n \div Second
           s == RetryAfterSeconds(w)
<1>1. w \in Nat /\ w >= a /\ w >= b /\ w <= a + b
      BY DEF Wait, Longer
<1>2. s = IF q >= 1 THEN q ELSE 1
      BY DEF RetryAfterSeconds, Longer
<1> HIDE DEF w, s
<1>3. n \in Nat /\ n = w + Second - 1 /\ Second \in Nat \ {0}
      BY <1>1, GateConstants
<1> HIDE DEF n
<1>4. q \in Int /\ Second * q <= n /\ n < Second * q + Second
      BY <1>3
<1> HIDE DEF q
<1>5. Second * q >= w /\ q >= 0 /\ q <= w
      BY <1>1, <1>3, <1>4
<1>6. s \in Nat /\ Second * s >= w /\ (s <= w \/ s = 1)
  <2>1. CASE q >= 1
        BY <1>1, <1>2, <1>4, <1>5, <2>1
  <2>2. CASE q = 0
    <3>1. s = 1 /\ Second * 0 = 0 /\ Second * 1 = Second
          BY <1>2, <1>3, <2>2
    <3>2. w = 0
          BY <1>1, <1>5, <2>2, <3>1
    <3> QED
          BY <1>3, <3>1, <3>2
  <2> QED
        BY <1>4, <1>5, <2>1, <2>2
<1>7. Second * s = s * Second /\ s * Second \in Nat
      BY <1>3, <1>6
<1>8. s \in Nat /\ s * Second >= a /\ s * Second >= b
              /\ (s <= a + b \/ s = 1)
      BY <1>1, <1>6, <1>7
<1> QED
      BY <1>8 DEF s, w

\* Asking the account's limiter changes nothing that counts.
LEMMA AskedEmail ==
    ASSUME GateIInv, NEW p \in Proc, CheckEmail(p)
    PROVE  LET c == Check(emailLimiter, req[p].email, now) IN
           /\ pc[p] = "checkEmail" /\ now' = now /\ now \in Nat
           /\ req[p].email \in Email
           /\ ipLimiter' = ipLimiter /\ GateLimiters'
           /\ \A e \in Email : Counted(e)' = Counted(e)
           /\ Times(emailLimiter', req[p].email) = Counted(req[p].email)
           /\ c.ok \in BOOLEAN /\ c.retryAfter \in 0 .. EmailWindow
           /\ c.ok <=> Len(Counted(req[p].email)) < EmailMax
           /\ ~c.ok => Counted(req[p].email)[1] + EmailWindow = now + c.retryAfter
<1> DEFINE e == req[p].email
           c == Check(emailLimiter, e, now)
<1>1. /\ pc[p] = "checkEmail" /\ now' = now /\ ipLimiter' = ipLimiter
      /\ emailLimiter' = c.limiter
      BY DEF CheckEmail, At
<1>2. /\ now \in Nat /\ now \in Time /\ e \in Email
      /\ Sound(ipLimiter, now, Ip, IpMax, IpWindow)
      /\ Sound(emailLimiter, now, Email, EmailMax, EmailWindow)
      BY <1>1, InFlight DEF GateIInv, GateLimiters
<1>3. emailLimiter' = PruneKey(emailLimiter, e, now)
      BY <1>1, <1>2, CheckStep
<1>4. GateLimiters'
      BY <1>1, <1>2, <1>3, PruneKeyStep DEF GateLimiters
<1>5. /\ \A j \in Email : Counted(j)' = Counted(j)
      /\ Times(emailLimiter', e) = Counted(e)
      BY <1>1, <1>2, <1>3, PruneKeyStep DEF Counted
<1>6. /\ c.ok \in BOOLEAN /\ c.retryAfter \in 0 .. EmailWindow
      /\ c.ok <=> Len(Counted(e)) < EmailMax
      /\ ~c.ok => Counted(e)[1] + EmailWindow = now + c.retryAfter
      BY <1>2, CheckAnswer DEF Counted
<1> HIDE DEF c, e
<1> QED
      BY <1>1, <1>2, <1>4, <1>5, <1>6 DEF c, e

LEMMA CheckEmailGate ==
    ASSUME GateIInv, NEW p \in Proc, CheckEmail(p)
    PROVE  GateIInv'
<1>e. PICK e \in Email : req[p].email = e
      BY AskedEmail
<1> DEFINE c == Check(emailLimiter, e, now)
           a == Within(fresh[p][e])
           r == Counted(e)
<1>1. /\ pc[p] = "checkEmail" /\ now' = now /\ now \in Nat
      /\ ipLimiter' = ipLimiter /\ GateLimiters'
      /\ \A j \in Email : Counted(j)' = Counted(j)
      /\ c.retryAfter \in 0 .. EmailWindow
      /\ c.ok <=> Len(r) < EmailMax
      BY <1>e, AskedEmail
<1>2. CASE ipCheck[p].ok /\ c.ok
  <2>1. /\ fresh' = [fresh EXCEPT ![p][e] = Append(a, now)]
        /\ Goto(p, "verify") /\ ipCheck' = ipCheck
        BY <1>e, <1>2 DEF CheckEmail, AndNow
  <2>2. /\ fresh \in [Proc -> [Email -> Seq(Nat)]]
        /\ ipCheck \in [Proc -> [ok : BOOLEAN, wait : 0 .. IpWindow, at : 0 .. now]]
        BY DEF GateIInv, GateLocals
  <2>3. /\ fresh'[p][e] = Append(a, now)
        /\ \A q \in Proc, j \in Email :
              <<q, j>> # <<p, e>> => fresh'[q][j] = fresh[q][j]
        BY <1>1, <2>1, <2>2
  <2>4. /\ pc'[p] = "verify" /\ req' = req /\ reply' = reply
        /\ \A q \in Proc \ {p} : pc'[q] = pc[q]
        BY <2>1 DEF Goto, GateIInv, GateLocals
  <2>5. /\ History(a, now, EmailMax) /\ Cut(a, 0, now - EmailWindow)
        /\ History(r, now, EmailMax) /\ Behind(a, r, Margin(p, e))
        /\ now - EmailWindow \in Int /\ now - EmailWindow < now
        BY <1>1, HeldFacts, GateConstants
  <2>6. Behind(a, r, 0) /\ Len(r) < EmailMax
        BY <1>1, <1>2, <2>5 DEF Margin, Owed
  <2> HIDE DEF a, r, c
  <2>7. Len(a) < EmailMax
    <3>1. Len(a) <= Len(r) + 0 /\ Len(a) \in Nat /\ Len(r) \in Nat
          BY <2>5, <2>6 DEF Behind, History
    <3> QED
          BY <2>6, <3>1, GateConstants
  <2>8. /\ History(Append(a, now), now, EmailMax)
        /\ Prune(Append(a, now), now - EmailWindow) = Append(a, now)
        /\ Behind(Append(a, now), r, 1)
        BY <2>5, <2>6, <2>7, AppendHistory, AppendKept, BehindAttempted
  <2>9. Held(p, e)'
    <3>1. Counted(e)' = r /\ Within(fresh[p][e])' = Append(a, now)
          BY <1>1, <2>3, <2>8 DEF Within, r
    <3>2. Owed(p, e)'
          BY <1>e, <2>4 DEF Owed
    <3>3. Margin(p, e)' = 1
          BY <2>6, <3>1, <3>2 DEF Margin
    <3> QED
          BY <1>1, <2>3, <2>8, <3>1, <3>3 DEF Held
  <2>10. ASSUME NEW q \in Proc, NEW j \in Email, <<q, j>> # <<p, e>>
         PROVE  Held(q, j)'
    <3>1. Owed(q, j)' <=> Owed(q, j)
          BY <1>e, <1>1, <2>4, <2>10 DEF Owed
    <3> QED
          BY <1>1, <2>3, <2>10, <3>1, HeldOne
  <2>11. fresh' \in [Proc -> [Email -> Seq(Nat)]]
    <3>1. Append(a, now) \in Seq(Nat)
          BY <2>8 DEF History
    <3> QED
          BY <2>1, <2>2, <3>1
  <2>12. GateLocals'
    <3>1. "verify" \in Phase \ {"idle"}
          BY DEF Phase
    <3> QED
          BY <1>1, <2>1, <2>2, <3>1, GotoLocals
  <2> QED
        BY <1>1, <2>9, <2>10, <2>11, <2>12 DEF GateIInv
<1>3. CASE ~(ipCheck[p].ok /\ c.ok)
  <2> DEFINE outcome == [kind |-> "tooMany",
                         seconds |-> RetryAfterSeconds(
                                         Wait(ipCheck[p].wait, c.retryAfter))]
  <2>1. Finish(p, outcome) /\ fresh' = fresh
        BY <1>e, <1>3 DEF CheckEmail, histories
  <2>2. ipCheck[p].wait \in 0 .. IpWindow
        BY DEF GateIInv, GateLocals
  <2>3. outcome.seconds \in 0 .. MaxTime + IpWindow + EmailWindow
    <3>1. /\ outcome.seconds \in Nat
          /\ \/ outcome.seconds <= ipCheck[p].wait + c.retryAfter
             \/ outcome.seconds = 1
      <4>1. ipCheck[p].wait \in Nat /\ c.retryAfter \in Nat
            BY <1>1, <2>2, GateConstants
      <4> HIDE DEF c
      <4> QED
            BY <4>1, RoundedUp
    <3> QED
          BY <1>1, <2>2, <3>1, GateConstants
  <2>4. outcome \in [kind : {"tooMany", "invalid", "session", "failed"},
                     seconds : 0 .. MaxTime + IpWindow + EmailWindow]
        BY <2>3
  <2> HIDE DEF outcome
  <2>5. GateLocals'
        BY <1>1, <2>1, <2>4, FinishLocals
  <2>6. \A q \in Proc, j \in Email : Owed(q, j)' <=> Owed(q, j)
        BY <1>1, <2>1 DEF Owed, Finish, GateIInv, GateLocals
  <2>7. \A q \in Proc, j \in Email : Held(q, j)'
        BY <1>1, <2>1, <2>6, HeldSame
  <2> QED
        BY <1>1, <2>1, <2>5, <2>7 DEF GateIInv
<1> QED
      BY <1>2, <1>3
LEMMA CountEmailGate ==
    ASSUME GateIInv, NEW p \in Proc, CountEmail(p)
    PROVE  GateIInv'
<1>0. PICK e \in Email : req[p].email = e
  <2>1. pc[p] # "idle"
        BY DEF CountEmail, At
  <2> QED
        BY <2>1, InFlight
<1>1. /\ pc[p] = "countEmail" /\ now' = now /\ Finish(p, Say("invalid"))
      /\ emailLimiter' = Record(emailLimiter, e, now)
      /\ ipLimiter' = ipLimiter /\ fresh' = fresh
      BY <1>0 DEF CountEmail, At, histories
<1>2. Say("invalid") \in [kind : {"tooMany", "invalid", "session", "failed"},
                          seconds : 0 .. MaxTime + IpWindow + EmailWindow]
      BY GateConstants DEF Say
<1>3. GateLocals'
      BY <1>1, <1>2, FinishLocals
<1>4. /\ Sound(emailLimiter, now, Email, EmailMax, EmailWindow)
      /\ now \in Nat
      BY GateConstants DEF GateIInv, GateLimiters, Time
<1>5. GateLimiters'
      BY <1>1, <1>4, RecordStep DEF GateIInv, GateLimiters
<1>6. /\ Counted(e)' = IF Len(Counted(e)) >= EmailMax THEN Counted(e)
                       ELSE Append(Counted(e), now)
      /\ \A j \in Email \ {e} : Counted(j)' = Counted(j)
      BY <1>1, <1>4, RecordStep DEF Counted
<1>7. /\ pc'[p] = "idle" /\ \A q \in Proc \ {p} : pc'[q] = pc[q] /\ req'[q] = req[q]
      BY <1>1 DEF Finish, GateIInv, GateLocals
<1>8. ASSUME NEW q \in Proc, NEW j \in Email, j # e PROVE Held(q, j)'
  <2>1. Owed(q, j)' <=> Owed(q, j)
        BY <1>0, <1>7, <1>8 DEF Owed
  <2> QED
        BY <1>1, <1>6, <1>8, <2>1, HeldOne
<1>9. ASSUME NEW q \in Proc PROVE Held(q, e)'
  <2> DEFINE a == Within(fresh[q][e])
             r == Counted(e)
  <2>1. /\ History(fresh[q][e], now, EmailMax)
        /\ History(a, now, EmailMax) /\ History(r, now, EmailMax)
        /\ Behind(a, r, Margin(q, e)) /\ Margin(q, e) \in {0, 1}
        /\ Len(r) < EmailMax \/ Len(r) = EmailMax
        BY HeldFacts
  <2>2. Len(r) \in Nat /\ EmailMax \in Nat
        BY <2>1, GateConstants DEF History
  <2>3. /\ fresh'[q][e] = fresh[q][e]
        /\ Within(fresh[q][e])' = a
        BY <1>1 DEF Within
  <2>4. CASE Len(r) = EmailMax
    <3>1. Counted(e)' = r
          BY <1>6, <2>2, <2>4
    <3>2. Margin(q, e) = 0 /\ Margin(q, e)' = 0
          BY <2>2, <2>4, <3>1 DEF Margin
    <3> HIDE DEF a, r
    <3> QED
          BY <1>1, <2>1, <2>3, <3>1, <3>2 DEF Held
  <2>5. CASE Len(r) < EmailMax
    <3>1. Counted(e)' = Append(r, now)
          BY <1>6, <2>2, <2>5
    <3> HIDE DEF a, r
    <3>2. Behind(a, Append(r, now), 0)
          BY <2>1, <2>5, BehindRecorded
    <3>3. History(Append(r, now), now, EmailMax)
          BY <2>1, <2>5, AppendHistory
    <3>4. Behind(a, Append(r, now), 1)
          BY <2>1, <3>2, <3>3, BehindWeaken
    <3>5. Margin(q, e)' \in {0, 1}
          BY DEF Margin
    <3>6. Behind(a, Append(r, now), Margin(q, e)')
          BY <3>2, <3>4, <3>5
    <3> QED
          BY <1>1, <2>1, <2>3, <3>1, <3>6 DEF Held
  <2> QED
        BY <2>1, <2>4, <2>5
<1> QED
      BY <1>1, <1>3, <1>5, <1>8, <1>9 DEF GateIInv

LEMMA ResetEmailGate ==
    ASSUME GateIInv, NEW p \in Proc, ResetEmail(p)
    PROVE  GateIInv'
<1>0. PICK e \in Email : req[p].email = e
  <2>1. pc[p] # "idle"
        BY DEF ResetEmail, At
  <2> QED
        BY <2>1, InFlight
<1>1. /\ pc[p] = "resetEmail" /\ now' = now
      /\ emailLimiter' = Reset(emailLimiter, e)
      /\ ipLimiter' = ipLimiter
      /\ fresh' = [q \in Proc |-> [fresh[q] EXCEPT ![e] = << >>]]
      /\ \E what \in {"session", "failed"} : Finish(p, Say(what))
      BY <1>0 DEF ResetEmail, At
<1>2. PICK what \in {"session", "failed"} : Finish(p, Say(what))
      BY <1>1
<1>3. Say(what) \in [kind : {"tooMany", "invalid", "session", "failed"},
                     seconds : 0 .. MaxTime + IpWindow + EmailWindow]
      BY GateConstants DEF Say
<1>4. GateLocals'
      BY <1>1, <1>2, <1>3, FinishLocals
<1>5. /\ Sound(emailLimiter, now, Email, EmailMax, EmailWindow)
      /\ now \in Nat /\ fresh \in [Proc -> [Email -> Seq(Nat)]]
      BY GateConstants DEF GateIInv, GateLimiters, Time
<1>6. GateLimiters'
      BY <1>1, <1>5, ResetStep DEF GateIInv, GateLimiters
<1>7. Counted(e)' = << >> /\ \A j \in Email \ {e} : Counted(j)' = Counted(j)
      BY <1>1, <1>5, ResetStep DEF Counted
<1>8. /\ fresh' \in [Proc -> [Email -> Seq(Nat)]]
      /\ \A q \in Proc : fresh'[q][e] = << >>
      /\ \A q \in Proc, j \in Email : j # e => fresh'[q][j] = fresh[q][j]
      BY <1>1, <1>5
<1>9. /\ pc'[p] = "idle" /\ \A q \in Proc \ {p} : pc'[q] = pc[q] /\ req'[q] = req[q]
      BY <1>2 DEF Finish, GateIInv, GateLocals
<1>10. ASSUME NEW q \in Proc, NEW j \in Email, j # e PROVE Held(q, j)'
  <2>1. Owed(q, j)' <=> Owed(q, j)
        BY <1>0, <1>9, <1>10 DEF Owed
  <2> QED
        BY <1>1, <1>7, <1>8, <1>10, <2>1, HeldOne
<1>11. ASSUME NEW q \in Proc PROVE Held(q, e)'
  <2>1. Len(Counted(e)') \in Nat
        BY <1>7
  <2> QED
        BY <1>1, <1>5, <1>8, <2>1, EmptyHeld
<1> QED
      BY <1>4, <1>6, <1>8, <1>10, <1>11 DEF GateIInv

LEMMA NextGate == GateIInv /\ [GateNext]_gateVars => GateIInv'
<1> SUFFICES ASSUME GateIInv, [GateNext]_gateVars PROVE GateIInv'
    OBVIOUS
<1>1. ASSUME NEW p \in Proc, Step(p) PROVE GateIInv'
      BY <1>1, RefuseGate, AuthenticateGate, CheckIpGate, CheckEmailGate,
         VerifyGate, CountIpGate, CountEmailGate, ResetIpGate, ResetEmailGate
         DEF Step
<1>2. CASE UNCHANGED gateVars
  <2>1. UNCHANGED <<now, ipLimiter, emailLimiter, pc, req, ipCheck, reply, fresh>>
        BY <1>2 DEF gateVars, limiters, histories
  <2>2. \A p \in Proc, e \in Email : Held(p, e)'
        BY <2>1, HeldSame DEF Counted, Owed
  <2> QED
        BY <2>1, <2>2 DEF GateIInv, GateLimiters, GateLocals
<1> QED
      BY <1>1, <1>2, RestartGate, TickGate DEF GateNext

-----------------------------------------------------------------------------
(* The attempts of a window across the resets of the account.              *)

\* A history of any length.
Log(times, t) == t \in Nat /\ times \in Seq(0 .. t) /\ Sorted(times)

LEMMA LogHistory ==
    ASSUME NEW t, NEW times, Log(times, t)
    PROVE  /\ Len(times) \in Nat
           /\ History(times, t, Len(times) + 2)
<1>1. t \in Nat /\ times \in Seq(0 .. t) /\ Sorted(times)
      BY DEF Log
<1>2. Len(times) \in Nat
      BY <1>1
<1>3. Len(times) + 2 \in Nat \ {0} /\ Len(times) <= Len(times) + 2
      BY <1>2
<1> QED
      BY <1>1, <1>2, <1>3 DEF History

\* A window holds no more than there is, and nothing of what is not before now.
LEMMA LogPrune ==
    ASSUME NEW t, NEW times, Log(times, t), NEW c \in Int
    PROVE  /\ Len(Prune(times, c)) \in Nat
           /\ Len(Prune(times, c)) <= Len(times)
           /\ c >= t => Prune(times, c) = << >>
<1>1. /\ Len(times) \in Nat /\ t \in Nat
      /\ History(times, t, Len(times) + 2)
      BY LogHistory DEF Log
<1>2. PICK d : Rest(Prune(times, c), times, d)
      BY <1>1, PruneRest
<1>3. d \in 0 .. Len(times) /\ Len(Prune(times, c)) = Len(times) - d
      BY <1>2 DEF Rest
<1>4. ASSUME c >= t PROVE Prune(times, c) = << >>
  <2>1. \A i \in DOMAIN times : times[i] \in 0 .. t
        BY DEF Log
  <2>2. {i \in DOMAIN times : times[i] > c} = {}
        BY <1>1, <1>4, <2>1
  <2> QED
        BY <2>2 DEF Prune
<1> QED
      BY <1>1, <1>3, <1>4

\* What AndNow appends counts once in every window that reaches back from now.
LEMMA LogAppend ==
    ASSUME NEW t, NEW times, Log(times, t), NEW b \in Int, NEW c \in Int,
           b <= c, c < t
    PROVE  /\ Log(Append(Prune(times, b), t), t)
           /\ Len(Prune(Append(Prune(times, b), t), c)) = Len(Prune(times, c)) + 1
<1> DEFINE max == Len(times) + 2
           a == Prune(times, b)
           e == Append(a, t)
           q == Prune(times, c)
<1>1. Len(times) \in Nat /\ History(times, t, max) /\ t \in Nat
  <2>1. t \in Nat
        BY DEF Log
  <2> QED
        BY <2>1, LogHistory
<1> HIDE DEF max
<1>2. History(a, t, max) /\ Prune(a, c) = q
  <2>1. History(a, t, max)
        BY <1>1, PruneRest
  <2>2. Prune(a, c) = q
        BY <1>1, PruneTwice
  <2> QED
        BY <2>1, <2>2
<1>3. Len(a) \in Nat /\ Len(a) <= Len(times) /\ Len(a) < max
      BY <1>1, LogPrune DEF max
<1> HIDE DEF a, q
<1>4. PICK d : Rest(q, a, d) /\ Cut(a, d, c)
      BY <1>2, PruneRest
<1>5. d \in 0 .. Len(a) /\ Len(q) = Len(a) - d
      BY <1>4 DEF Rest
<1>6. /\ History(e, t, max) /\ Len(e) = Len(a) + 1
      /\ \A i \in 1 .. Len(a) : e[i] = a[i]
      /\ e[Len(a) + 1] = t
      BY <1>2, <1>3, AppendHistory
<1> HIDE DEF e
<1>7. Cut(e, d, c)
  <2>1. \A i \in 1 .. d : e[i] <= c
        BY <1>3, <1>4, <1>5, <1>6 DEF Cut
  <2>2. ASSUME NEW i \in d + 1 .. Len(e) PROVE e[i] > c
    <3>1. CASE i = Len(a) + 1
          BY <1>1, <1>6, <3>1
    <3>2. CASE i # Len(a) + 1
      <4>1. i \in d + 1 .. Len(a) /\ i \in 1 .. Len(a)
            BY <1>3, <1>5, <1>6, <3>2
      <4> QED
            BY <1>4, <1>6, <4>1 DEF Cut
    <3> QED
          BY <3>1, <3>2
  <2> QED
        BY <2>1, <2>2 DEF Cut
<1>8. d \in 0 .. Len(e)
      BY <1>3, <1>5, <1>6
<1>9. Rest(Prune(e, c), e, d)
      BY <1>6, <1>7, <1>8, PruneCut
<1>10. Len(Prune(e, c)) = Len(q) + 1
       BY <1>3, <1>5, <1>6, <1>9 DEF Rest
<1>11. Log(e, t)
       BY <1>6 DEF History, Log
<1> QED
      BY <1>10, <1>11 DEF a, e, q

\* In every window that ends now, p was let through no more often than since
\* the last reset, and EmailMax times for each reset.
Paid(p, e) ==
    \A c \in Int : c >= now - EmailWindow =>
        Len(Prune(attempts[p][e], c)) <=
            Len(Prune(fresh[p][e], c)) + EmailMax * Len(Prune(resets[e], c))

GateHistory ==
    /\ attempts \in [Proc -> [Email -> Seq(Nat)]]
    /\ resets \in [Email -> Seq(Nat)]
    /\ \A e \in Email : Log(resets[e], now)
    /\ \A p \in Proc, e \in Email : Log(attempts[p][e], now) /\ Paid(p, e)

\* The three histories of a client at an account, as they are counted.
LEMMA Counts ==
    ASSUME GateIInv, GateHistory, NEW p \in Proc, NEW e \in Email, NEW c \in Int
    PROVE  /\ now \in Nat /\ EmailMax \in Nat /\ EmailWindow \in Nat \ {0}
           /\ Log(attempts[p][e], now) /\ Log(fresh[p][e], now)
           /\ Log(resets[e], now)
           /\ Len(Prune(attempts[p][e], c)) \in Nat
           /\ Len(Prune(fresh[p][e], c)) \in Nat
           /\ Len(Prune(fresh[p][e], c)) <= EmailMax
           /\ Len(Prune(resets[e], c)) \in Nat
<1>1. now \in Nat /\ EmailMax \in Nat /\ EmailWindow \in Nat \ {0}
      BY GateConstants, HeldFacts
<1>2. Log(attempts[p][e], now) /\ Log(resets[e], now)
      BY DEF GateHistory
<1>3. Log(fresh[p][e], now) /\ Len(fresh[p][e]) <= EmailMax
      BY HeldFacts DEF History, Log
<1>4. Len(fresh[p][e]) \in Nat
      BY <1>3, LogHistory
<1>5. /\ Len(Prune(attempts[p][e], c)) \in Nat
      /\ Len(Prune(fresh[p][e], c)) \in Nat
      /\ Len(Prune(fresh[p][e], c)) <= Len(fresh[p][e])
      /\ Len(Prune(resets[e], c)) \in Nat
      BY <1>2, <1>3, LogPrune
<1> QED
      BY <1>1, <1>2, <1>3, <1>4, <1>5

\* A step that leaves a client's histories at an account alone.
LEMMA PaidSame ==
    ASSUME GateHistory, NEW p \in Proc, NEW e \in Email, now' = now,
           attempts'[p][e] = attempts[p][e], fresh'[p][e] = fresh[p][e],
           resets'[e] = resets[e]
    PROVE  Log(attempts[p][e], now)' /\ Paid(p, e)'
BY DEF GateHistory, Paid

LEMMA HistorySame ==
    ASSUME GateHistory, UNCHANGED <<now, histories>>
    PROVE  GateHistory'
<1>1. /\ now' = now /\ attempts' = attempts /\ fresh' = fresh
      /\ resets' = resets
      BY DEF histories
<1> QED
      BY <1>1, PaidSame DEF GateHistory

LEMMA HistoryTick ==
    ASSUME GateIInv, GateHistory, GateTick
    PROVE  GateHistory'
<1>1. /\ now \in Nat /\ now' = now + 1 /\ EmailWindow \in Nat
      /\ attempts' = attempts /\ fresh' = fresh /\ resets' = resets
      BY GateConstants DEF GateTick, Advance, GateIInv, GateLimiters, Time, histories
<1>2. \A times : Log(times, now) => Log(times, now + 1)
      BY <1>1 DEF Log
<1>3. ASSUME NEW p \in Proc, NEW e \in Email
      PROVE  Log(attempts[p][e], now)' /\ Paid(p, e)'
  <2>1. Log(attempts[p][e], now) /\ Paid(p, e)
        BY DEF GateHistory
  <2>3. \A c \in Int : c >= (now + 1) - EmailWindow => c >= now - EmailWindow
        BY <1>1
  <2>4. Paid(p, e)'
        BY <1>1, <2>1, <2>3 DEF Paid
  <2> QED
        BY <1>1, <1>2, <2>1, <2>4
<1>4. \A e \in Email : Log(resets[e], now)'
      BY <1>1, <1>2 DEF GateHistory
<1> QED
      BY <1>1, <1>3, <1>4 DEF GateHistory

LEMMA HistoryCheckEmail ==
    ASSUME GateIInv, GateHistory, NEW p \in Proc, CheckEmail(p)
    PROVE  GateHistory'
<1>e. PICK e \in Email : req[p].email = e
      BY AskedEmail
<1>0. now' = now
      BY DEF CheckEmail, At
<1>1. CASE UNCHANGED histories
      BY <1>0, <1>1, HistorySame
<1>2. CASE ~UNCHANGED histories
  <2>1. /\ attempts' = [attempts EXCEPT ![p][e] = AndNow(@)]
        /\ fresh' = [fresh EXCEPT ![p][e] = AndNow(@)]
        /\ resets' = resets
        BY <1>e, <1>2 DEF CheckEmail
  <2>2. /\ attempts \in [Proc -> [Email -> Seq(Nat)]]
        /\ fresh \in [Proc -> [Email -> Seq(Nat)]]
        BY DEF GateIInv, GateHistory
  <2>3. /\ attempts'[p][e] = AndNow(attempts[p][e])
        /\ fresh'[p][e] = AndNow(fresh[p][e])
        /\ \A q \in Proc, j \in Email : <<q, j>> # <<p, e>> =>
              attempts'[q][j] = attempts[q][j] /\ fresh'[q][j] = fresh[q][j]
        BY <2>1, <2>2
  <2>4. now \in Nat /\ EmailMax \in Nat /\ EmailWindow \in Nat \ {0}
        BY HeldFacts, GateConstants
  <2> DEFINE b == now - EmailWindow
  <2>5. Log(attempts[p][e], now) /\ Log(fresh[p][e], now) /\ Paid(p, e)
        BY <2>4, 0 \in Int, Counts DEF GateHistory
  <2>6. b \in Int /\ b < now
        BY <2>4
  <2>7. Log(AndNow(attempts[p][e]), now)
        BY <2>5, <2>6, LogAppend DEF AndNow, Within
  <2>8. ASSUME NEW c \in Int, c >= b
        PROVE  Len(Prune(AndNow(attempts[p][e]), c)) <=
                   Len(Prune(AndNow(fresh[p][e]), c))
                       + EmailMax * Len(Prune(resets[e], c))
    <3> DEFINE n == EmailMax * Len(Prune(resets[e], c))
    <3>1. /\ Len(Prune(attempts[p][e], c)) \in Nat
          /\ Len(Prune(fresh[p][e], c)) \in Nat
          /\ Len(Prune(resets[e], c)) \in Nat
          BY Counts
    <3>2. n \in Nat
          BY <2>4, <3>1
    <3>3. Len(Prune(attempts[p][e], c)) <= Len(Prune(fresh[p][e], c)) + n
          BY <2>5, <2>8 DEF Paid
    <3> HIDE DEF n
    <3>4. CASE c < now
      <4>1. /\ Len(Prune(AndNow(attempts[p][e]), c)) = Len(Prune(attempts[p][e], c)) + 1
            /\ Len(Prune(AndNow(fresh[p][e]), c)) = Len(Prune(fresh[p][e], c)) + 1
            BY <2>5, <2>6, <2>8, <3>4, LogAppend DEF AndNow, Within
      <4>2. Len(Prune(AndNow(attempts[p][e]), c)) <=
                Len(Prune(AndNow(fresh[p][e]), c)) + n
            BY <3>1, <3>2, <3>3, <4>1
      <4> QED
            BY <4>2 DEF n
    <3>5. CASE c >= now
      <4>1. Log(AndNow(fresh[p][e]), now)
            BY <2>5, <2>6, LogAppend DEF AndNow, Within
      <4>2. /\ Prune(AndNow(attempts[p][e]), c) = << >>
            /\ Len(Prune(AndNow(fresh[p][e]), c)) \in Nat
            BY <2>7, <3>5, <4>1, LogPrune
      <4>3. Len(Prune(AndNow(attempts[p][e]), c)) <=
                Len(Prune(AndNow(fresh[p][e]), c)) + n
            BY <3>2, <4>2
      <4> QED
            BY <4>3 DEF n
    <3> QED
          BY <2>4, <3>4, <3>5
  <2>9. Log(attempts[p][e], now)' /\ Paid(p, e)'
        BY <1>0, <2>1, <2>3, <2>7, <2>8 DEF Paid
  <2>10. ASSUME NEW q \in Proc, NEW j \in Email, <<q, j>> # <<p, e>>
         PROVE  Log(attempts[q][j], now)' /\ Paid(q, j)'
         BY <1>0, <2>1, <2>3, <2>10, PaidSame
  <2>11. attempts' \in [Proc -> [Email -> Seq(Nat)]]
    <3>1. AndNow(attempts[p][e]) \in Seq(Nat)
          BY <2>4, <2>7 DEF Log
    <3> QED
          BY <2>1, <2>2, <3>1
  <2> QED
        BY <1>0, <2>1, <2>9, <2>10, <2>11 DEF GateHistory
<1> QED
      BY <1>1, <1>2

LEMMA ResetLog ==
    ASSUME GateIInv, GateHistory, NEW e \in Email, now' = now,
           resets'[e] = AndNow(resets[e])
    PROVE  resets'[e] \in Seq(Nat) /\ Log(resets[e], now)'
<1>1. /\ now \in Nat /\ now - EmailWindow \in Int /\ now - EmailWindow < now
      /\ Log(resets[e], now)
      BY GateConstants DEF GateIInv, GateLimiters, Time, GateHistory
<1>2. Log(AndNow(resets[e]), now)
      BY <1>1, LogAppend DEF AndNow, Within
<1> QED
      BY <1>1, <1>2 DEF Log

\* A reset of e: what it forgets is at most EmailMax attempts of each client.
LEMMA PaidReset ==
    ASSUME GateIInv, GateHistory, NEW p \in Proc, NEW e \in Email, now' = now,
           attempts' = attempts, fresh'[p][e] = << >>,
           resets'[e] = AndNow(resets[e])
    PROVE  Log(attempts[p][e], now)' /\ Paid(p, e)'
<1> DEFINE b == now - EmailWindow
<1>1. /\ now \in Nat /\ EmailMax \in Nat /\ EmailWindow \in Nat \ {0}
      /\ b \in Int /\ b < now
      BY HeldFacts, GateConstants
<1>2. Log(attempts[p][e], now) /\ Log(resets[e], now) /\ Paid(p, e)
      BY DEF GateHistory
<1>3. Log(AndNow(resets[e]), now)
      BY ResetLog
<1>4. ASSUME NEW c \in Int, c >= b
      PROVE  Len(Prune(attempts[p][e], c)) <=
                 0 + EmailMax * Len(Prune(AndNow(resets[e]), c))
  <2> DEFINE n == Len(Prune(resets[e], c))
             m == Len(Prune(AndNow(resets[e]), c))
  <2>1. /\ Len(Prune(attempts[p][e], c)) \in Nat
        /\ Len(Prune(fresh[p][e], c)) \in Nat
        /\ Len(Prune(fresh[p][e], c)) <= EmailMax
        /\ n \in Nat
        BY Counts
  <2>2. Len(Prune(attempts[p][e], c)) <= Len(Prune(fresh[p][e], c)) + EmailMax * n
        BY <1>2, <1>4 DEF Paid
  <2>3. m \in Nat
        BY <1>3, LogPrune
  <2>4. CASE c < now
    <3>1. m = n + 1
          BY <1>1, <1>2, <1>4, <2>4, LogAppend DEF AndNow, Within
    <3> HIDE DEF m, n
    <3>2. EmailMax * m = EmailMax * n + EmailMax /\ EmailMax * n \in Nat
          BY <1>1, <2>1, <3>1
    <3> QED
          BY <1>1, <2>1, <2>2, <3>2 DEF m
  <2>5. CASE c >= now
    <3>1. Prune(attempts[p][e], c) = << >>
          BY <1>2, <2>5, LogPrune
    <3> HIDE DEF m
    <3>2. EmailMax * m \in Nat
          BY <1>1, <2>3
    <3> QED
          BY <3>1, <3>2 DEF m
  <2> QED
        BY <1>1, <2>4, <2>5
<1>5. Paid(p, e)'
  <2>1. \A c \in Int : Len(Prune(fresh'[p][e], c)) = 0
        BY PruneEmpty
  <2> QED
        BY <1>4, <2>1 DEF Paid
<1> QED
      BY <1>2, <1>5

LEMMA HistoryResetEmail ==
    ASSUME GateIInv, GateHistory, NEW p \in Proc, ResetEmail(p)
    PROVE  GateHistory'
<1>0. PICK e \in Email : req[p].email = e
  <2>1. pc[p] # "idle"
        BY DEF ResetEmail, At
  <2> QED
        BY <2>1, InFlight
<1>1. /\ now' = now /\ attempts' = attempts
      /\ fresh' = [q \in Proc |-> [fresh[q] EXCEPT ![e] = << >>]]
      /\ resets' = [resets EXCEPT ![e] = AndNow(@)]
      BY <1>0 DEF ResetEmail, At
<1>2. /\ attempts \in [Proc -> [Email -> Seq(Nat)]]
      /\ fresh \in [Proc -> [Email -> Seq(Nat)]]
      /\ resets \in [Email -> Seq(Nat)]
      BY DEF GateIInv, GateHistory
<1>3. /\ resets'[e] = AndNow(resets[e])
      /\ \A j \in Email : j # e => resets'[j] = resets[j]
      /\ \A q \in Proc : fresh'[q][e] = << >>
      /\ \A q \in Proc, j \in Email : j # e => fresh'[q][j] = fresh[q][j]
      BY <1>1, <1>2
<1>4. ASSUME NEW q \in Proc, NEW j \in Email
      PROVE  Log(attempts[q][j], now)' /\ Paid(q, j)'
  <2>1. CASE j = e
        BY <1>1, <1>3, <2>1, PaidReset
  <2>2. CASE j # e
        BY <1>1, <1>3, <2>2, PaidSame
  <2> QED
        BY <2>1, <2>2
<1>5. resets'[e] \in Seq(Nat) /\ Log(resets[e], now)'
      BY <1>1, <1>3, ResetLog
<1>6. resets' \in [Email -> Seq(Nat)]
      BY <1>1, <1>2, <1>3, <1>5
<1>7. \A j \in Email : Log(resets[j], now)'
      BY <1>1, <1>3, <1>5 DEF GateHistory
<1> QED
      BY <1>1, <1>2, <1>4, <1>6, <1>7 DEF GateHistory

LEMMA HistoryRestart ==
    ASSUME GateIInv, GateHistory, Restart
    PROVE  GateHistory'
<1>1. /\ now' = now /\ attempts' = attempts
      /\ \A p \in Proc, e \in Email : fresh'[p][e] = << >>
      /\ resets' = [e \in Email |-> AndNow(resets[e])]
      BY DEF Restart, NoAttempts
<1>2. \A p \in Proc, e \in Email : Log(attempts[p][e], now)' /\ Paid(p, e)'
      BY <1>1, PaidReset
<1>3. \A e \in Email : resets'[e] \in Seq(Nat) /\ Log(resets[e], now)'
      BY <1>1, ResetLog
<1>4. attempts' \in [Proc -> [Email -> Seq(Nat)]]
      BY <1>1 DEF GateHistory
<1> QED
      BY <1>1, <1>2, <1>3, <1>4 DEF GateHistory

LEMMA InitHistory == GateInit => GateHistory
<1> SUFFICES ASSUME GateInit PROVE GateHistory
    OBVIOUS
<1>1. now = 0 /\ now \in Nat
      BY DEF GateInit
<1>2. /\ attempts \in [Proc -> [Email -> Seq(Nat)]]
      /\ resets \in [Email -> Seq(Nat)]
      /\ \A p \in Proc, e \in Email : attempts[p][e] = << >> /\ fresh[p][e] = << >>
      /\ \A e \in Email : resets[e] = << >>
      BY DEF GateInit, NoAttempts
<1>3. Log(<< >>, now)
      BY <1>1 DEF Log, Sorted
<1>4. \A p \in Proc, e \in Email : Paid(p, e)
  <2>1. \A c : Len(Prune(<< >>, c)) = 0
        BY PruneEmpty
  <2>2. EmailMax * 0 = 0
        BY GateConstants
  <2> QED
        BY <1>2, <2>1, <2>2 DEF Paid
<1> QED
      BY <1>2, <1>3, <1>4 DEF GateHistory

LEMMA NextHistory ==
    GateIInv /\ GateHistory /\ [GateNext]_gateVars => GateHistory'
<1> SUFFICES ASSUME GateIInv, GateHistory, [GateNext]_gateVars
             PROVE  GateHistory'
    OBVIOUS
<1>1. ASSUME NEW p \in Proc, Step(p) PROVE GateHistory'
  <2>1. CASE CheckEmail(p)
        BY <2>1, HistoryCheckEmail
  <2>2. CASE ResetEmail(p)
        BY <2>2, HistoryResetEmail
  <2>3. CASE ~CheckEmail(p) /\ ~ResetEmail(p)
    <3>1. UNCHANGED <<now, histories>>
          BY <1>1, <2>3 DEF Step, RefuseBody, Authenticate, CheckIp, Verify,
             CountIp, CountEmail, ResetIp, At
    <3> QED
          BY <3>1, HistorySame
  <2> QED
        BY <2>1, <2>2, <2>3
<1>2. CASE UNCHANGED gateVars
      BY <1>2, HistorySame DEF gateVars
<1> QED
      BY <1>1, <1>2, HistoryRestart, HistoryTick DEF GateNext

\* What the theorems about the gate rest on.
THEOREM GateInvariance == GateSpec => [](GateIInv /\ GateHistory)
BY InitGate, NextGate, InitHistory, NextHistory, PTL DEF GateSpec

\* Limiters that stay within their limits and locals that are what the steps
\* expect, although Record follows a Check that other requests have outrun.
THEOREM GateTypeCorrect == GateSpec => []GateTypeOK
<1>1. ASSUME GateIInv, GateHistory PROVE GateTypeOK
  <2>1. /\ now \in Nat /\ now \in 0 .. MaxTime
        /\ Sound(ipLimiter, now, Ip, IpMax, IpWindow)
        /\ Sound(emailLimiter, now, Email, EmailMax, EmailWindow)
        BY <1>1, GateConstants DEF GateIInv, GateLimiters, Time
  <2>2. ASSUME NEW K, NEW max, NEW window, NEW l, Sound(l, now, K, max, window)
        PROVE  Bounded(l, K)
    <3>1. ASSUME NEW k \in Keys(l) PROVE Len(l.failures[k]) \in 1 .. max
      <4> DEFINE times == l.failures[k]
      <4>1. History(times, now, max) /\ times # << >>
            BY <2>2, <3>1 DEF Sound, Entry
      <4> HIDE DEF times
      <4>2. Len(times) \in Nat /\ Len(times) <= max /\ max \in Nat /\ Len(times) # 0
            BY <4>1, EmptySeq DEF History
      <4> QED
            BY <4>2 DEF times
    <3> QED
          BY <2>2, <3>1, SoundParts DEF Bounded, Sound
  <2>3. Bounded(ipLimiter, Ip) /\ Bounded(emailLimiter, Email)
        BY <2>1, <2>2
  <2>4. fresh \in [Proc -> [Email -> Seq(0 .. now)]]
    <3>1. \A p \in Proc, e \in Email : fresh[p][e] \in Seq(0 .. now)
          BY <1>1 DEF GateIInv, Held, History
    <3> QED
          BY <1>1, <3>1 DEF GateIInv
  <2>5. /\ attempts \in [Proc -> [Email -> Seq(0 .. now)]]
        /\ resets \in [Email -> Seq(0 .. now)]
    <3>1. \A p \in Proc, e \in Email : attempts[p][e] \in Seq(0 .. now)
          BY <1>1 DEF GateHistory, Log
    <3>2. \A e \in Email : resets[e] \in Seq(0 .. now)
          BY <1>1 DEF GateHistory, Log
    <3> QED
          BY <1>1, <3>1, <3>2 DEF GateHistory
  <2> QED
        BY <1>1, <2>1, <2>3, <2>4, <2>5 DEF GateIInv, GateLocals, GateTypeOK
<1> QED
      BY <1>1, GateInvariance, PTL

\* A client that sends its guesses one after the other gets at most EmailMax
\* judged per window and account between resets of the account, whatever the
\* others guess, and at most EmailMax more for each login and restart.
THEOREM ClientsAreHeld == GateSpec => []EachClientIsHeld
<1>1. ASSUME GateIInv, GateHistory PROVE EachClientIsHeld
  <2>1. ASSUME NEW p \in Proc, NEW e \in Email
        PROVE  /\ Len(Within(fresh[p][e])) <= EmailMax
               /\ Len(Within(attempts[p][e])) <=
                     EmailMax * (1 + Len(Within(resets[e])))
    <3> DEFINE b == now - EmailWindow
               a == Len(Prune(attempts[p][e], b))
               f == Len(Prune(fresh[p][e], b))
               n == Len(Prune(resets[e], b))
    <3>1. b \in Int
          BY <1>1, HeldFacts
    <3>2. a \in Nat /\ f \in Nat /\ f <= EmailMax /\ n \in Nat /\ EmailMax \in Nat
          BY <1>1, <3>1, Counts
    <3>3. a <= f + EmailMax * n
          BY <1>1, <3>1 DEF GateHistory, Paid
    <3> HIDE DEF a, f, n
    <3>4. EmailMax * (1 + n) = EmailMax + EmailMax * n /\ EmailMax * n \in Nat
          BY <3>2
    <3>5. a <= EmailMax * (1 + n)
          BY <3>2, <3>3, <3>4
    <3> QED
          BY <3>2, <3>5 DEF a, f, n, Within
  <2> QED
        BY <2>1 DEF EachClientIsHeld
<1> QED
      BY <1>1, GateInvariance, PTL

\* A client that waits as long as it was told is not refused by a limiter that
\* refused it, if the block of its address still is the one it was told of.
THEOREM WaitSuffices == GateSpec => WaitIsEnough
<1>1. ASSUME GateIInv, GateNext, NEW p \in Proc,
             pc[p] = "checkEmail", reply'[p].kind = "tooMany"
      PROVE  LET retry == now + reply'[p].seconds * Second IN
             /\ Check(emailLimiter', req[p].email, retry).ok
             /\ BlockStands(p) => Check(ipLimiter', req[p].ip, retry).ok
  <2>1. reply[p].kind = "none"
        BY <1>1, InFlight DEF Say
  <2>2. CheckEmail(p)
    <3>1. reply' # reply
          BY <1>1, <2>1
    <3>2. ~GateTick
          BY <3>1 DEF GateTick
    <3>3. ~Restart
          BY <1>1 DEF Restart, Say
    <3>4. PICK q \in Proc : Step(q)
          BY <1>1, <3>2, <3>3 DEF GateNext
    <3>5. q = p
      <4> SUFFICES ASSUME q # p PROVE reply'[p] = reply[p]
          BY <1>1, <2>1
      <4> QED
          BY <1>1, <3>4 DEF Step, RefuseBody, Authenticate, CheckIp, CheckEmail,
             Verify, CountIp, CountEmail, ResetIp, ResetEmail, Goto, Finish,
             GateIInv, GateLocals
    <3> QED
        BY <1>1, <3>4, <3>5 DEF Step, RefuseBody, Authenticate, CheckIp, Verify,
           CountIp, CountEmail, ResetIp, ResetEmail, At
  <2>3. PICK e \in Email : req[p].email = e
        BY <1>1, InFlight
  <2> DEFINE c == Check(emailLimiter, e, now)
             wait == ipCheck[p].wait
             retry == now + reply'[p].seconds * Second
  <2>4. /\ now' = now /\ now \in Nat /\ ipLimiter' = ipLimiter /\ GateLimiters'
        /\ Times(emailLimiter', e) = Counted(e)
        /\ c.retryAfter \in 0 .. EmailWindow
        /\ c.ok <=> Len(Counted(e)) < EmailMax
        /\ ~c.ok => Counted(e)[1] + EmailWindow = now + c.retryAfter
        BY <1>1, <2>2, <2>3, AskedEmail
  <2>5. reply'[p].seconds = RetryAfterSeconds(Wait(wait, c.retryAfter))
    <3>1. CASE ipCheck[p].ok /\ c.ok
      <4>1. reply' = reply
            BY <2>2, <2>3, <3>1 DEF CheckEmail, Goto
      <4> QED
            BY <1>1, <2>1, <4>1
    <3>2. CASE ~(ipCheck[p].ok /\ c.ok)
          BY <1>1, <2>2, <2>3, <3>2 DEF CheckEmail, Finish, GateIInv, GateLocals
    <3> QED
          BY <3>1, <3>2
  <2>6. wait \in Nat /\ c.retryAfter \in Nat /\ wait \in 0 .. IpWindow
        /\ ipCheck[p].at \in 0 .. now
        BY <1>1, <2>4, GateConstants DEF GateIInv, GateLocals
  <2>7. /\ reply'[p].seconds * Second \in Nat
        /\ reply'[p].seconds * Second >= wait
        /\ reply'[p].seconds * Second >= c.retryAfter
    <3>1. /\ reply'[p].seconds \in Nat
          /\ reply'[p].seconds * Second >= wait
          /\ reply'[p].seconds * Second >= c.retryAfter
          BY <2>5, <2>6, RoundedUp
    <3> QED
          BY <3>1, GateConstants
  <2>8. retry \in Nat /\ now <= retry /\ now + c.retryAfter <= retry
        /\ ipCheck[p].at + wait <= retry
        BY <2>4, <2>6, <2>7, SMTT(30)
  <2> HIDE DEF c, wait, retry
  <2>9. Check(emailLimiter', e, retry).ok
    <3>1. Sound(emailLimiter', now, Email, EmailMax, EmailWindow)
          BY <2>4 DEF GateLimiters
    <3>2. \/ Len(Times(emailLimiter', e)) < EmailMax
          \/ Times(emailLimiter', e)[1] + EmailWindow <= retry
          BY <2>4, <2>8
    <3> QED
          BY <2>8, <3>1, <3>2, LapsedStep
  <2>10. ASSUME BlockStands(p) PROVE Check(ipLimiter', req[p].ip, retry).ok
    <3>1. Sound(ipLimiter, now, Ip, IpMax, IpWindow)
          BY <1>1 DEF GateIInv, GateLimiters
    <3>2. Times(ipLimiter, req[p].ip)[1] + IpWindow <= retry
          BY <2>8, <2>10 DEF BlockStands, wait
    <3> QED
          BY <2>4, <2>8, <3>1, <3>2, LapsedStep
  <2> QED
        BY <2>3, <2>9, <2>10 DEF retry
<1>2. GateIInv /\ [GateNext]_gateVars =>
          [\A p \in Proc :
             LET retry == now + reply'[p].seconds * Second IN
             pc[p] = "checkEmail" /\ reply'[p].kind = "tooMany" =>
                 /\ Check(emailLimiter', req[p].email, retry).ok
                 /\ BlockStands(p) => Check(ipLimiter', req[p].ip, retry).ok]_gateVars
      BY <1>1
<1> QED
      BY <1>2, GateInvariance, PTL DEF GateSpec, WaitIsEnough

=============================================================================
