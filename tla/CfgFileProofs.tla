----------------------------- MODULE CfgFileProofs -----------------------------
(***************************************************************************)
(* What cfg_read makes of the lines of a file, for any file, and that it   *)
(* reads back what cfg_write has written, for any configuration.  Both are *)
(* inductions over lines, sections and items.                              *)
(***************************************************************************)
EXTENDS CfgFile, FiniteSetTheorems, WellFoundedInduction, TLAPS

-----------------------------------------------------------------------------
(* Induction up to a bound, from the well-foundedness of the order of the  *)
(* subsets of an interval.                                                 *)

LEMMA BoundedInduction ==
    ASSUME NEW n \in Nat, NEW T \in SUBSET (0..n),
           0 \in T, \A i \in 0..(n - 1) : i \in T => i + 1 \in T
    PROVE  T = 0..n
  <1>. SUFFICES ASSUME T # 0..n PROVE FALSE
    OBVIOUS
  <1>. DEFINE Left == {S \in SUBSET (0..n) : \E i \in (0..n) \ T : S = 0..i}
              Order == StrictSubsetOrdering(0..n)
  <1>1. IsWellFoundedOn(Order, SUBSET (0..n))
    <2>1. IsFiniteSet(0..n)
      BY FS_Interval
    <2>. QED
      BY <2>1, FS_FiniteSubsetsOfFinite, FS_StrictSubsetOrderingWellFounded
  <1>2. Left \subseteq SUBSET (0..n) /\ Left # {}
    <2>1. PICK i \in 0..n : i \notin T
      OBVIOUS
    <2>2. 0..i \subseteq 0..n
      BY <2>1
    <2>. QED
      BY <2>1, <2>2
  <1>3. PICK S \in Left : \A R \in Left : <<R, S>> \notin Order
    <2>. HIDE DEF Left, Order
    <2>. QED
      BY <1>1, <1>2, WFMin
  <1>4. PICK i \in (0..n) \ T : S = 0..i
    BY <1>3
  <1>5. i - 1 \in 0..n /\ i - 1 \notin T
    BY <1>4
  <1>6. 0..(i - 1) \in SUBSET (0..n)
    BY <1>4
  <1>7. 0..(i - 1) \in Left
    BY <1>5, <1>6
  <1>8. 0..(i - 1) \subseteq S /\ i \in S /\ i \notin 0..(i - 1)
    BY <1>4
  <1>9. <<0..(i - 1), S>> \in Order
    BY <1>3, <1>6, <1>8 DEF StrictSubsetOrdering
  <1>. QED
    BY <1>3, <1>7, <1>9

-----------------------------------------------------------------------------
(* cfg_read, line by line.                                                 *)

Begin == [cfg |-> cfg_create, at |-> 0, desc |-> NoText]

\* Reading these lines takes cfg_read from one state to another.
Stages(st, lines) == \A i \in 0..(Len(lines) - 1) : st[i + 1] = ReadLine(st[i], lines[i + 1])

Reads(from, lines, to) ==
    \E st : Stages(st, lines) /\ st[0] = from /\ st[Len(lines)] = to

\* The fold takes the greatest number out of a set of them again and again.
IsReading(g, n, lines) ==
    g = [s \in SUBSET (1..n) |->
            IF s = {} THEN Begin
            ELSE LET x == Max(s) IN ReadLine(g[s \ {x}], lines[x])]

LEMMA ReadingUnfolds ==
    ASSUME NEW n \in Nat, NEW lines, DOMAIN lines = 1..n,
           \E g : IsReading(g, n, lines)
    PROVE  \E g : IsReading(g, n, lines) /\ cfg_read(lines) = g[1..n].cfg
  <1>. DEFINE iter == CHOOSE g : IsReading(g, n, lines)
  <1>1. IsReading(iter, n, lines)
    OBVIOUS
  <1>2. cfg_read(lines) = iter[1..n].cfg
    BY DEF cfg_read, FoldLeft, MapThenFoldSet, IsReading, Begin
  <1>. QED
    BY <1>1, <1>2

LEMMA GreatestIs ==
    ASSUME NEW k \in Nat, NEW s \in SUBSET (1..k), k \in s
    PROVE  Max(s) = k
  <1>1. \A x \in s : (\A y \in s : x >= y) <=> x = k
    OBVIOUS
  <1>. QED
    BY <1>1 DEF Max

LEMMA GreatestOf ==
    ASSUME NEW k \in Nat, NEW s \in SUBSET (1..k), s # {}
    PROVE  Max(s) \in s
  <1>. DEFINE T == {j \in 0..k : \A r \in SUBSET (1..j) : r # {} => Max(r) \in r}
  <1>1. 0 \in T
    <2>1. 1..0 = {}
      OBVIOUS
    <2>2. ASSUME NEW r \in SUBSET (1..0), r # {} PROVE Max(r) \in r
      BY <2>1, <2>2
    <2>3. 0 \in 0..k
      OBVIOUS
    <2>. QED
      BY <2>2, <2>3
  <1>2. ASSUME NEW i \in 0..(k - 1), i \in T PROVE i + 1 \in T
    <2>1. ASSUME NEW r \in SUBSET (1..(i + 1)), r # {} PROVE Max(r) \in r
      <3>1. CASE i + 1 \in r
        BY <3>1, GreatestIs
      <3>2. CASE i + 1 \notin r
        <4>1. r \in SUBSET (1..i)
          BY <3>2
        <4>. QED
          BY <4>1, <1>2, <2>1
      <3>. QED
        BY <3>1, <3>2
    <2>. QED
      BY <2>1
  <1>3. T = 0..k
    <2>. HIDE DEF T
    <2>1. T \in SUBSET (0..k)
      BY DEF T
    <2>. QED
      BY <1>1, <1>2, <2>1, BoundedInduction
  <1>. QED
    BY <1>3

\* The function that the fold is defined by exists.
LEMMA ReadingExists ==
    ASSUME NEW n \in Nat, NEW lines
    PROVE  \E g : IsReading(g, n, lines)
  <1>. DEFINE T == {k \in 0..n : \E g : IsReading(g, k, lines)}
  <1>1. 0 \in T
    <2>. DEFINE g == [s \in SUBSET (1..0) |-> Begin]
    <2>1. 1..0 = {}
      OBVIOUS
    <2>2. \A s \in SUBSET (1..0) : s = {}
      BY <2>1
    <2>3. IsReading(g, 0, lines)
      BY <2>2 DEF IsReading
    <2>. QED
      BY <2>3
  <1>2. ASSUME NEW k \in 0..(n - 1), k \in T PROVE k + 1 \in T
    <2>1. PICK g : IsReading(g, k, lines)
      BY <1>2
    <2>. DEFINE more == [s \in SUBSET (1..(k + 1)) |->
                            IF k + 1 \in s THEN ReadLine(g[s \ {k + 1}], lines[k + 1]) ELSE g[s]]
    <2>2. ASSUME NEW s \in SUBSET (1..(k + 1))
          PROVE  more[s] = IF s = {} THEN Begin
                           ELSE LET x == Max(s) IN ReadLine(more[s \ {x}], lines[x])
      <3>1. CASE k + 1 \in s
        <4>1. Max(s) = k + 1
          BY <3>1, GreatestIs
        <4>2. s \ {k + 1} \in SUBSET (1..(k + 1)) /\ k + 1 \notin s \ {k + 1}
          OBVIOUS
        <4>3. more[s \ {k + 1}] = g[s \ {k + 1}]
          BY <4>2
        <4>4. more[s] = ReadLine(g[s \ {k + 1}], lines[k + 1])
          BY <3>1
        <4>. HIDE DEF more
        <4>. QED
          BY <3>1, <4>1, <4>3, <4>4
      <3>2. CASE k + 1 \notin s /\ s # {}
        <4>1. s \in SUBSET (1..k)
          BY <3>2
        <4>2. Max(s) \in s
          BY <3>2, <4>1, GreatestOf
        <4>3. s \ {Max(s)} \in SUBSET (1..(k + 1)) /\ k + 1 \notin s \ {Max(s)}
          BY <3>2
        <4>4. more[s \ {Max(s)}] = g[s \ {Max(s)}] /\ more[s] = g[s]
          BY <3>2, <4>3
        <4>5. g[s] = ReadLine(g[s \ {Max(s)}], lines[Max(s)])
          BY <2>1, <3>2, <4>1 DEF IsReading
        <4>. HIDE DEF more
        <4>. QED
          BY <3>2, <4>4, <4>5
      <3>3. CASE s = {}
        <4>1. g[s] = Begin
          BY <2>1, <3>3 DEF IsReading
        <4>. QED
          BY <3>3, <4>1
      <3>. QED
        BY <3>1, <3>2, <3>3
    <2>3. IsReading(more, k + 1, lines)
      <3>1. more = [s \in SUBSET (1..(k + 1)) |-> more[s]]
        OBVIOUS
      <3>. HIDE DEF more
      <3>. QED
        BY <2>2, <3>1 DEF IsReading
    <2>. QED
      BY <2>3
  <1>3. T = 0..n
    <2>1. T \in SUBSET (0..n)
      OBVIOUS
    <2>. HIDE DEF T
    <2>. QED
      BY <1>1, <1>2, <2>1, BoundedInduction
  <1>. QED
    BY <1>3

LEMMA ReadByLine ==
    ASSUME NEW S, NEW lines \in Seq(S)
    PROVE  \E to : Reads(Begin, lines, to) /\ cfg_read(lines) = to.cfg
  <1>. DEFINE n == Len(lines)
  <1>1. n \in Nat /\ DOMAIN lines = 1..n
    OBVIOUS
  <1>2. \E g : IsReading(g, n, lines)
    BY <1>1, ReadingExists
  <1>3. PICK g : IsReading(g, n, lines) /\ cfg_read(lines) = g[1..n].cfg
    BY <1>1, <1>2, ReadingUnfolds
  <1>. DEFINE st == [i \in 0..n |-> g[1..i]]
  <1>4. st[0] = Begin
    <2>1. 1..0 = {} /\ {} \in SUBSET (1..n)
      BY <1>1
    <2>2. g[{}] = Begin
      BY <1>3, <2>1 DEF IsReading
    <2>. QED
      BY <1>1, <2>1, <2>2
  <1>5. ASSUME NEW i \in 0..(n - 1) PROVE st[i + 1] = ReadLine(st[i], lines[i + 1])
    <2>1. 1..(i + 1) \in SUBSET (1..n) /\ i + 1 \in 1..(i + 1)
      BY <1>1
    <2>2. Max(1..(i + 1)) = i + 1
      BY <2>1, <1>1, GreatestIs
    <2>3. (1..(i + 1)) \ {i + 1} = 1..i
      BY <1>1
    <2>4. g[1..(i + 1)] = ReadLine(g[(1..(i + 1)) \ {i + 1}], lines[i + 1])
      BY <1>3, <2>1, <2>2 DEF IsReading
    <2>5. st[i + 1] = g[1..(i + 1)] /\ st[i] = g[1..i]
      BY <1>1
    <2>. HIDE DEF st
    <2>. QED
      BY <2>3, <2>4, <2>5
  <1>6. st[n] = g[1..n]
    BY <1>1
  <1>7. Stages(st, lines)
    BY <1>5 DEF Stages
  <1>8. Reads(Begin, lines, st[n])
    <2>. HIDE DEF st
    <2>. QED
      BY <1>4, <1>7 DEF Reads
  <1>. QED
    BY <1>3, <1>6, <1>8

\* Where a reading gets to is determined by where it begins.
LEMMA ReadsOnce ==
    ASSUME NEW S, NEW lines \in Seq(S), NEW a, NEW b, NEW c,
           Reads(a, lines, b), Reads(a, lines, c)
    PROVE  b = c
  <1>. DEFINE n == Len(lines)
  <1>1. PICK f : Stages(f, lines) /\ f[0] = a /\ f[n] = b
    BY DEF Reads
  <1>2. PICK g : Stages(g, lines) /\ g[0] = a /\ g[n] = c
    BY DEF Reads
  <1>. DEFINE T == {i \in 0..n : f[i] = g[i]}
  <1>3. 0 \in T
    BY <1>1, <1>2
  <1>4. ASSUME NEW i \in 0..(n - 1), i \in T PROVE i + 1 \in T
    BY <1>1, <1>2, <1>4 DEF Stages
  <1>5. T = 0..n
    <2>1. T \in SUBSET (0..n) /\ n \in Nat
      OBVIOUS
    <2>. HIDE DEF T, n
    <2>. QED
      BY <1>3, <1>4, <2>1, BoundedInduction
  <1>. QED
    BY <1>1, <1>2, <1>5

LEMMA ReadsNone == ASSUME NEW a PROVE Reads(a, <<>>, a)
  <1>. DEFINE st == [i \in 0..0 |-> a]
  <1>1. Stages(st, <<>>) /\ st[0] = a /\ st[Len(<<>>)] = a
    BY DEF Stages
  <1>. HIDE DEF st
  <1>. QED
    BY <1>1 DEF Reads

LEMMA ReadsALine == ASSUME NEW a, NEW l PROVE Reads(a, <<l>>, ReadLine(a, l))
  <1>. DEFINE st == [i \in 0..1 |-> IF i = 0 THEN a ELSE ReadLine(a, l)]
  <1>1. st[0] = a /\ st[1] = ReadLine(a, l) /\ Len(<<l>>) = 1 /\ <<l>>[1] = l
    OBVIOUS
  <1>. HIDE DEF st
  <1>2. Stages(st, <<l>>)
    BY <1>1 DEF Stages
  <1>. QED
    BY <1>1, <1>2 DEF Reads

LEMMA ReadsBoth ==
    ASSUME NEW S, NEW s \in Seq(S), NEW t \in Seq(S), NEW a, NEW b, NEW c,
           Reads(a, s, b), Reads(b, t, c)
    PROVE  Reads(a, s \o t, c)
  <1>. DEFINE m == Len(s)
              n == Len(t)
  <1>1. PICK f : Stages(f, s) /\ f[0] = a /\ f[m] = b
    BY DEF Reads
  <1>2. PICK g : Stages(g, t) /\ g[0] = b /\ g[n] = c
    BY DEF Reads
  <1>. DEFINE st == [i \in 0..(m + n) |-> IF i <= m THEN f[i] ELSE g[i - m]]
  <1>3. m \in Nat /\ n \in Nat /\ Len(s \o t) = m + n
    OBVIOUS
  <1>4. st[0] = a
    BY <1>1, <1>3
  <1>5. st[m + n] = c
    <2>1. CASE n = 0
      BY <1>1, <1>2, <1>3, <2>1
    <2>2. CASE n > 0
      <3>1. ~(m + n <= m) /\ (m + n) - m = n /\ m + n \in 0..(m + n)
        BY <1>3, <2>2
      <3>. QED
        BY <1>2, <3>1
    <2>. QED
      BY <1>3, <2>1, <2>2
  <1>6. ASSUME NEW i \in 0..(m + n - 1) PROVE st[i + 1] = ReadLine(st[i], (s \o t)[i + 1])
    <2>1. CASE i < m
      <3>1. (s \o t)[i + 1] = s[i + 1]
        BY <1>3, <2>1
      <3>2. st[i] = f[i] /\ st[i + 1] = f[i + 1]
        BY <1>3, <2>1
      <3>. HIDE DEF st
      <3>. QED
        BY <1>1, <1>3, <2>1, <3>1, <3>2 DEF Stages
    <2>2. CASE i >= m
      <3>1. (s \o t)[i + 1] = t[(i - m) + 1]
        BY <1>3, <2>2
      <3>2. st[i + 1] = g[(i - m) + 1]
        BY <1>3, <2>2
      <3>3. st[i] = g[i - m]
        <4>1. CASE i = m
          BY <1>1, <1>2, <1>3, <4>1
        <4>2. CASE i > m
          BY <1>3, <4>2
        <4>. QED
          BY <1>3, <2>2, <4>1, <4>2
      <3>4. i - m \in 0..(n - 1)
        BY <1>3, <2>2
      <3>. HIDE DEF st
      <3>. QED
        BY <1>2, <3>1, <3>2, <3>3, <3>4 DEF Stages
    <2>. QED
      BY <1>3, <2>1, <2>2
  <1>7. Stages(st, s \o t)
    <2>. HIDE DEF st
    <2>. QED
      BY <1>3, <1>6 DEF Stages
  <1>. HIDE DEF st
  <1>. QED
    BY <1>3, <1>4, <1>5, <1>7 DEF Reads

LEMMA ReadsTo ==
    ASSUME NEW S, NEW lines \in Seq(S), NEW to, Reads(Begin, lines, to)
    PROVE  cfg_read(lines) = to.cfg
  BY ReadByLine, ReadsOnce

-----------------------------------------------------------------------------
(* Lists and searches.                                                     *)

LEMMA LeastOf ==
    ASSUME NEW n \in Nat, NEW I \in SUBSET (1..n), I # {}
    PROVE  Min(I) \in I /\ \A i \in I : Min(I) <= i
  <1>. DEFINE T == {k \in 0..n : (1..k) \cap I = {}}
  <1>1. \E m \in I : \A i \in I : m <= i
    <2>. SUFFICES ASSUME \A m \in I : \E i \in I : ~(m <= i) PROVE FALSE
      OBVIOUS
    <2>1. 0 \in T
      OBVIOUS
    <2>2. ASSUME NEW k \in 0..(n - 1), k \in T PROVE k + 1 \in T
      <3>1. \A i \in I : i > k
        BY <2>2
      <3>2. k + 1 \notin I
        <4>. SUFFICES ASSUME k + 1 \in I PROVE FALSE
          OBVIOUS
        <4>1. PICK i \in I : ~(k + 1 <= i)
          OBVIOUS
        <4>. QED
          BY <3>1, <4>1
      <3>. QED
        BY <3>1, <3>2
    <2>3. T = 0..n
      <3>1. T \in SUBSET (0..n)
        OBVIOUS
      <3>. HIDE DEF T
      <3>. QED
        BY <2>1, <2>2, <3>1, BoundedInduction
    <2>4. n \in T
      BY <2>3
    <2>. QED
      BY <2>4
  <1>. QED
    BY <1>1 DEF Min

\* A search that finds nothing returns 0.
LEMMA Found ==
    ASSUME NEW S, NEW list \in Seq(S), NEW name
    PROVE  /\ ListFind(list, name) \in 0..Len(list)
           /\ ListFind(list, name) = 0 <=> \A i \in DOMAIN list : list[i].name # name
           /\ ListFind(list, name) # 0 => list[ListFind(list, name)].name = name
  <1>. DEFINE I == {i \in 1..Len(list) : list[i].name = name}
  <1>1. ListFind(list, name) = IF I # {} THEN Min(I) ELSE 0
    BY DEF ListFind, SelectInSeq
  <1>2. I \in SUBSET (1..Len(list)) /\ Len(list) \in Nat /\ DOMAIN list = 1..Len(list)
    OBVIOUS
  <1>3. I # {} => Min(I) \in I
    <2>. HIDE DEF I
    <2>. QED
      BY <1>2, LeastOf
  <1>. QED
    BY <1>1, <1>2, <1>3

Unique(list) == \A i, j \in DOMAIN list : list[i].name = list[j].name => i = j

LEMMA FoundIt ==
    ASSUME NEW S, NEW list \in Seq(S), Unique(list), NEW i \in DOMAIN list
    PROVE  ListFind(list, list[i].name) = i
  <1>. DEFINE f == ListFind(list, list[i].name)
  <1>1. f \in 1..Len(list) /\ list[f].name = list[i].name
    BY Found
  <1>. HIDE DEF f
  <1>2. f = i
    BY <1>1 DEF Unique
  <1>. QED
    BY <1>2 DEF f

LEMMA Removed ==
    ASSUME NEW S, NEW s \in Seq(S), NEW i \in DOMAIN s
    PROVE  /\ RemoveAt(s, i) \in Seq(S) /\ Len(RemoveAt(s, i)) = Len(s) - 1
           /\ \A j \in 1..(Len(s) - 1) : RemoveAt(s, i)[j] = IF j < i THEN s[j] ELSE s[j + 1]
  <1>. DEFINE p == SubSeq(s, 1, i - 1)
              q == SubSeq(s, i + 1, Len(s))
  <1>1. i \in 1..Len(s) /\ Len(s) \in Nat
    OBVIOUS
  <1>2. /\ p \in Seq(S) /\ Len(p) = i - 1 /\ \A j \in 1..(i - 1) : p[j] = s[j]
        /\ q \in Seq(S) /\ Len(q) = Len(s) - i /\ \A j \in 1..(Len(s) - i) : q[j] = s[i + j]
    BY <1>1
  <1>3. RemoveAt(s, i) = p \o q
    BY DEF RemoveAt
  <1>. HIDE DEF p, q
  <1>4. p \o q \in Seq(S) /\ Len(p \o q) = Len(s) - 1
    BY <1>1, <1>2
  <1>5. ASSUME NEW j \in 1..(Len(s) - 1)
        PROVE  (p \o q)[j] = IF j < i THEN s[j] ELSE s[j + 1]
    <2>1. CASE j < i
      BY <1>1, <1>2, <2>1
    <2>2. CASE j >= i
      <3>1. j - (i - 1) \in 1..(Len(s) - i)
        BY <1>1, <2>2
      <3>2. (p \o q)[j] = q[j - (i - 1)]
        <4>1. j \in (Len(p) + 1)..(Len(p) + Len(q)) /\ j - Len(p) = j - (i - 1)
          BY <1>1, <1>2, <2>2
        <4>2. p \in Seq(S) /\ q \in Seq(S)
          BY <1>2
        <4>3. (p \o q)[j] = q[j - Len(p)]
          BY <4>1, <4>2
        <4>. QED
          BY <4>1, <4>3
      <3>3. i + (j - (i - 1)) = j + 1
        BY <1>1
      <3>4. q[j - (i - 1)] = s[i + (j - (i - 1))]
        BY <1>2, <3>1
      <3>. QED
        BY <1>1, <2>2, <3>2, <3>3, <3>4
    <2>3. j < i \/ j >= i
      BY <1>1
    <2>. QED
      BY <2>1, <2>2, <2>3, Zenon
  <1>. QED
    BY <1>3, <1>4, <1>5

-----------------------------------------------------------------------------
(* What is in memory.                                                      *)

\* No name in it is one that toupper changes.
Uppers == Texts \ DOMAIN Upcase

UpperItems == [name : Uppers, value : Texts, desc : Texts]

Sections == [name : Uppers, items : Seq(UpperItems)]

Tidy(cfg) == cfg \in Seq(Sections) /\ Unique(cfg) /\ \A x \in DOMAIN cfg : Unique(cfg[x].items)

LEMMA UpperIs ==
    /\ \A n \in Texts : Upper(n) \in Uppers
    /\ \A n \in Uppers : Upper(n) = n /\ n \in Texts
    /\ NoText \in Texts /\ Null \notin Texts
  BY CfgAssumption DEF CfgAssumption, Upper, Uppers, Texts, NoText, Null

LEMMA SeqOfMore == ASSUME NEW S, NEW T, S \subseteq T, NEW s \in Seq(S) PROVE s \in Seq(T)
  OBVIOUS

LEMMA TidyIsSome == ASSUME NEW cfg, Tidy(cfg) PROVE cfg # NoCfg
  <1>1. UpperItems \subseteq Items
    BY DEF UpperItems, Items, Uppers
  <1>2. Seq(UpperItems) \subseteq Seq(Items)
    BY <1>1
  <1>3. Sections \subseteq [name : Texts, items : Seq(Items)]
    BY <1>2 DEF Sections, Uppers
  <1>4. cfg \in Cfgs
    <2>1. cfg \in Seq(Sections)
      BY DEF Tidy
    <2>. QED
      BY <1>3, <2>1, SeqOfMore, Zenon DEF Cfgs
  <1>. QED
    BY <1>4, CfgAssumption DEF CfgAssumption

\* The item k of section s has the value v.
Has(cfg, s, k, v) ==
    \E x \in DOMAIN cfg : \E i \in DOMAIN cfg[x].items :
        cfg[x].name = s /\ cfg[x].items[i].name = k /\ cfg[x].items[i].value = v

LEMMA GetsItem ==
    ASSUME NEW cfg, Tidy(cfg), NEW s \in Uppers, NEW k \in Uppers
    PROVE  \A v : Has(cfg, s, k, v) <=> cfg_get_item(cfg, s, k) = v /\ v # Null
  <1>. DEFINE x == ListFind(cfg, s)
              i == ListFind(cfg[x].items, k)
  <1>1. cfg # NoCfg /\ Upper(s) = s /\ Upper(k) = k
    BY TidyIsSome, UpperIs
  <1>2. cfg_get_item(cfg, s, k) =
            IF x = 0 THEN Null ELSE IF i = 0 THEN Null ELSE cfg[x].items[i].value
    BY <1>1 DEF cfg_get_item, cfg_get_section
  <1>3. x \in 0..Len(cfg) /\ (x = 0 <=> \A y \in DOMAIN cfg : cfg[y].name # s)
        /\ (x # 0 => cfg[x].name = s)
    BY Found DEF Tidy
  <1>4. CASE x = 0
    BY <1>2, <1>3, <1>4 DEF Has
  <1>5. CASE x # 0
    <2>. HIDE DEF x
    <2>1. x \in DOMAIN cfg /\ cfg[x] \in Sections /\ cfg[x].items \in Seq(UpperItems)
      <3>1. cfg \in Seq(Sections)
        BY DEF Tidy
      <3>2. x \in DOMAIN cfg /\ cfg[x] \in Sections
        BY <1>3, <1>5, <3>1
      <3>. QED
        BY <3>2 DEF Sections
    <2>2. \A y \in DOMAIN cfg : cfg[y].name = s => y = x
      BY <1>3, <1>5, <2>1 DEF Tidy, Unique
    <2>3. /\ i \in 0..Len(cfg[x].items)
          /\ (i = 0 <=> \A j \in DOMAIN cfg[x].items : cfg[x].items[j].name # k)
          /\ (i # 0 => cfg[x].items[i].name = k)
      BY <2>1, Found
    <2>. HIDE DEF i
    <2>4. CASE i = 0
      BY <1>2, <1>5, <2>2, <2>3, <2>4 DEF Has
    <2>5. CASE i # 0
      <3>1. i \in DOMAIN cfg[x].items /\ cfg[x].items[i] \in UpperItems
        BY <2>1, <2>3, <2>5
      <3>2. cfg[x].items[i].value # Null
        BY <3>1 DEF UpperItems, Texts
      <3>3. \A j \in DOMAIN cfg[x].items : cfg[x].items[j].name = k => j = i
        BY <2>1, <2>3, <2>5, <3>1 DEF Tidy, Unique
      <3>4. ASSUME NEW v PROVE Has(cfg, s, k, v) <=> v = cfg[x].items[i].value
        BY <1>3, <1>5, <2>1, <2>2, <2>3, <2>5, <3>1, <3>3 DEF Has
      <3>. QED
        BY <1>2, <1>5, <2>5, <3>2, <3>4
    <2>. QED
      BY <2>4, <2>5
  <1>. QED
    BY <1>4, <1>5

-----------------------------------------------------------------------------
(* What a line does to what is in memory.                                  *)

InMemory(state) ==
    /\ state \in [cfg : Seq(Sections), at : Nat, desc : Texts]
    /\ Tidy(state.cfg) /\ state.at <= Len(state.cfg)

LEMMA ReadsBlank ==
    ASSUME NEW state, InMemory(state), NEW l, l.is = "blank"
    PROVE  ReadLine(state, l) = [cfg |-> state.cfg, at |-> 0, desc |-> state.desc]
  BY DEF InMemory, ReadLine

LEMMA ReadsRemark ==
    ASSUME NEW state, InMemory(state), NEW l, l.is = "remark"
    PROVE  ReadLine(state, l) =
               [cfg |-> state.cfg, at |-> state.at,
                desc |-> IF state.at = 0 THEN state.desc ELSE l.text]
  <1>1. ReadLine(state, l) = IF state.at = 0 THEN state ELSE [state EXCEPT !.desc = l.text]
    BY DEF ReadLine
  <1>. QED
    BY <1>1 DEF InMemory

NewSection(s) == [name |-> Upper(s), items |-> <<>>]

LEMMA AddsSection ==
    ASSUME NEW cfg, Tidy(cfg), NEW s \in Texts, \A x \in DOMAIN cfg : cfg[x].name # Upper(s)
    PROVE  Tidy(Append(cfg, NewSection(s)))
  <1>. DEFINE more == Append(cfg, NewSection(s))
  <1>1. NewSection(s) \in Sections
    <2>1. Upper(s) \in Uppers /\ <<>> \in Seq(UpperItems)
      BY UpperIs
    <2>. QED
      BY <2>1 DEF Sections, NewSection
  <1>2. cfg \in Seq(Sections) /\ Len(cfg) \in Nat /\ DOMAIN cfg = 1..Len(cfg)
    BY DEF Tidy
  <1>3. /\ more \in Seq(Sections) /\ DOMAIN more = 1..(Len(cfg) + 1)
        /\ \A x \in 1..Len(cfg) : more[x] = cfg[x]
        /\ more[Len(cfg) + 1] = NewSection(s)
    BY <1>1, <1>2
  <1>4. Unique(more)
    <2>. SUFFICES ASSUME NEW i \in DOMAIN more, NEW j \in DOMAIN more, more[i].name = more[j].name
                  PROVE  i = j
      BY DEF Unique
    <2>1. NewSection(s).name = Upper(s)
      BY DEF NewSection
    <2>. HIDE DEF more
    <2>2. CASE i \in 1..Len(cfg) /\ j \in 1..Len(cfg)
      BY <1>2, <1>3, <2>2 DEF Tidy, Unique
    <2>3. CASE ~(i \in 1..Len(cfg) /\ j \in 1..Len(cfg))
      BY <1>2, <1>3, <2>1, <2>3
    <2>. QED
      BY <2>2, <2>3
  <1>5. ASSUME NEW x \in DOMAIN more PROVE Unique(more[x].items)
    <2>1. CASE x \in 1..Len(cfg)
      BY <1>2, <1>3, <2>1 DEF Tidy
    <2>2. CASE x = Len(cfg) + 1
      <3>1. more[x].items = <<>>
        BY <1>3, <2>2 DEF NewSection
      <3>2. Unique(<<>>)
        BY DEF Unique
      <3>. QED
        BY <3>1, <3>2
    <2>. QED
      BY <1>2, <1>3, <2>1, <2>2
  <1>. QED
    BY <1>3, <1>4, <1>5 DEF Tidy

\* A header makes the section if there is none with this name, and goes there.
LEMMA ReadsHeader ==
    ASSUME NEW state, InMemory(state), NEW l, l.is = "header", l.name \in Texts
    PROVE  LET new == ReadLine(state, l)
           IN  /\ InMemory(new) /\ new.desc = NoText
               /\ new.at \in DOMAIN new.cfg /\ new.cfg[new.at].name = Upper(l.name)
               /\ \/ new.cfg = state.cfg
                  \/ new.cfg = Append(state.cfg, NewSection(l.name)) /\ new.at = Len(state.cfg) + 1
               /\ (\A x \in DOMAIN state.cfg : state.cfg[x].name # Upper(l.name)) =>
                      new.cfg = Append(state.cfg, NewSection(l.name))
  <1>. DEFINE cfg == state.cfg
              n == Upper(l.name)
              with == WithSection(cfg, l.name)
              new == [cfg |-> with, at |-> ListFind(with, n), desc |-> NoText]
  <1>1. ReadLine(state, l) = new
    BY DEF ReadLine, cfg_get_section
  <1>2. Tidy(cfg) /\ cfg \in Seq(Sections) /\ n \in Uppers /\ NoText \in Texts
    BY UpperIs DEF InMemory, Tidy
  <1>3. CASE \A x \in DOMAIN cfg : cfg[x].name # n
    <2>1. ListFind(cfg, n) = 0
      BY <1>2, <1>3, Found
    <2>2. with = Append(cfg, NewSection(l.name))
      BY <2>1 DEF WithSection, cfg_get_section, cfg_create_section, ListAdd, NewSection
    <2>3. Tidy(with)
      BY <1>2, <1>3, <2>2, AddsSection
    <2>4. with \in Seq(Sections)
      BY <2>3 DEF Tidy
    <2>5. /\ Len(cfg) \in Nat /\ Len(with) = Len(cfg) + 1
          /\ Len(cfg) + 1 \in DOMAIN with /\ with[Len(cfg) + 1] = NewSection(l.name)
      BY <1>2, <2>2
    <2>6. with[Len(cfg) + 1].name = n
      BY <2>5 DEF NewSection
    <2>7. ListFind(with, n) = Len(cfg) + 1
      <3>1. Unique(with)
        BY <2>3 DEF Tidy
      <3>. HIDE DEF with, n, cfg
      <3>. QED
        BY <2>4, <2>5, <2>6, <3>1, FoundIt
    <2>. HIDE DEF with, n
    <2>8. new.cfg = with /\ new.at = Len(cfg) + 1 /\ new.desc = NoText
          /\ new \in [cfg : Seq(Sections), at : Nat, desc : Texts]
      BY <1>2, <2>4, <2>5, <2>7
    <2>9. InMemory(new)
      BY <2>3, <2>5, <2>8 DEF InMemory
    <2>. HIDE DEF new
    <2>. QED
      BY <1>1, <2>2, <2>5, <2>6, <2>8, <2>9 DEF n
  <1>4. CASE \E x \in DOMAIN cfg : cfg[x].name = n
    <2>. DEFINE f == ListFind(cfg, n)
    <2>1. f \in 0..Len(cfg) /\ f # 0 /\ cfg[f].name = n
      BY <1>2, <1>4, Found
    <2>2. with = cfg
      BY <2>1 DEF WithSection, cfg_get_section
    <2>3. new = [cfg |-> cfg, at |-> f, desc |-> NoText]
      BY <2>2
    <2>4. f \in DOMAIN cfg /\ f \in Nat /\ f <= Len(cfg)
      BY <1>2, <2>1
    <2>. HIDE DEF with, n, f
    <2>5. InMemory(new)
      BY <1>2, <2>3, <2>4 DEF InMemory
    <2>6. new.cfg = cfg /\ new.at = f /\ new.desc = NoText
      BY <2>3
    <2>. HIDE DEF new
    <2>. QED
      BY <1>1, <1>4, <2>1, <2>4, <2>5, <2>6 DEF n
  <1>. QED
    BY <1>3, <1>4

\* An item takes the place at the end, whether there was one of its name or not.
LEMMA ReplacesItem ==
    ASSUME NEW items \in Seq(UpperItems), Unique(items), NEW e \in UpperItems
    PROVE  LET new == ReplaceItem(items, e)
           IN  /\ new \in Seq(UpperItems) /\ Unique(new)
               /\ \A x : (\E j \in DOMAIN new : new[j] = x) <=>
                             x = e \/ \E j \in DOMAIN items : items[j] = x /\ x.name # e.name
               /\ (\A j \in DOMAIN items : items[j].name # e.name) => new = Append(items, e)
  <1>. DEFINE f == ListFind(items, e.name)
              rest == IF f = 0 THEN items ELSE RemoveAt(items, f)
              new == Append(rest, e)
  <1>1. ReplaceItem(items, e) = new
    BY DEF ReplaceItem, ListAdd, ListDelete
  <1>2. /\ f \in 0..Len(items) /\ (f = 0 <=> \A i \in DOMAIN items : items[i].name # e.name)
        /\ (f # 0 => items[f].name = e.name)
    BY Found
  <1>3. /\ rest \in Seq(UpperItems) /\ Unique(rest)
        /\ \A x : (\E j \in DOMAIN rest : rest[j] = x) <=>
                      \E j \in DOMAIN items : items[j] = x /\ x.name # e.name
    <2>1. CASE f = 0
      BY <1>2, <2>1
    <2>2. CASE f # 0
      <3>. DEFINE n == Len(items)
      <3>1. f \in DOMAIN items /\ f \in 1..n /\ DOMAIN items = 1..n /\ n \in Nat
        BY <1>2, <2>2
      <3>. HIDE DEF f
      <3>2. /\ rest \in Seq(UpperItems) /\ Len(rest) = n - 1
            /\ \A j \in 1..(n - 1) : rest[j] = IF j < f THEN items[j] ELSE items[j + 1]
        BY <2>2, <3>1, Removed
      <3>. HIDE DEF rest
      <3>3. DOMAIN rest = 1..(n - 1)
        BY <3>2
      <3>4. \A i \in 1..n : items[i].name = e.name <=> i = f
        BY <1>2, <2>2, <3>1 DEF Unique
      <3>5. Unique(rest)
        <4>. SUFFICES ASSUME NEW i \in 1..(n - 1), NEW j \in 1..(n - 1), rest[i].name = rest[j].name
                      PROVE  i = j
          BY <3>3 DEF Unique
        <4>. DEFINE At(k) == IF k < f THEN k ELSE k + 1
        <4>1. At(i) \in 1..n /\ At(j) \in 1..n
          BY <3>1
        <4>2. rest[i] = items[At(i)] /\ rest[j] = items[At(j)]
          BY <3>2
        <4>3. At(i) = At(j)
          <5>. HIDE DEF At
          <5>. QED
            BY <3>1, <4>1, <4>2 DEF Unique
        <4>. QED
          BY <3>1, <4>3
      <3>6. ASSUME NEW x PROVE (\E j \in DOMAIN rest : rest[j] = x) <=>
                                   \E j \in DOMAIN items : items[j] = x /\ x.name # e.name
        <4>1. ASSUME NEW j \in 1..(n - 1), rest[j] = x
              PROVE  \E i \in 1..n : items[i] = x /\ x.name # e.name
          <5>1. CASE j < f
            <6>1. j \in 1..n /\ j # f /\ items[j] = x
              BY <3>1, <3>2, <4>1, <5>1
            <6>. QED
              BY <3>4, <6>1
          <5>2. CASE ~(j < f)
            <6>1. j + 1 \in 1..n /\ j + 1 # f /\ items[j + 1] = x
              BY <3>1, <3>2, <4>1, <5>2
            <6>. QED
              BY <3>4, <6>1
          <5>. QED
            BY <5>1, <5>2
        <4>2. ASSUME NEW i \in 1..n, items[i] = x, x.name # e.name
              PROVE  \E j \in 1..(n - 1) : rest[j] = x
          <5>1. i # f
            BY <3>4, <4>2
          <5>2. CASE i < f
            <6>1. i \in 1..(n - 1) /\ rest[i] = x
              BY <3>1, <3>2, <4>2, <5>2
            <6>. QED
              BY <6>1
          <5>3. CASE i > f
            <6>1. i - 1 \in 1..(n - 1) /\ ~(i - 1 < f) /\ (i - 1) + 1 = i
              BY <3>1, <5>3
            <6>2. rest[i - 1] = x
              BY <3>2, <4>2, <6>1
            <6>. QED
              BY <6>1, <6>2
          <5>. QED
            BY <3>1, <5>1, <5>2, <5>3
        <4>. QED
          BY <3>1, <3>3, <4>1, <4>2
      <3>. QED
        BY <3>2, <3>5, <3>6
    <2>. QED
      BY <2>1, <2>2
  <1>4. (\A j \in DOMAIN items : items[j].name # e.name) => new = Append(items, e)
    BY <1>2
  <1>. HIDE DEF f, rest
  <1>. DEFINE m == Len(rest)
  <1>5. /\ new \in Seq(UpperItems) /\ DOMAIN new = 1..(m + 1) /\ DOMAIN rest = 1..m /\ m \in Nat
        /\ new[m + 1] = e /\ \A i \in 1..m : new[i] = rest[i]
    BY <1>3
  <1>6. \A i \in 1..m : rest[i].name # e.name
    BY <1>3, <1>5
  <1>. HIDE DEF new, m
  <1>7. Unique(new)
    <2>. SUFFICES ASSUME NEW i \in 1..(m + 1), NEW j \in 1..(m + 1), new[i].name = new[j].name
                  PROVE  i = j
      BY <1>5 DEF Unique
    <2>1. CASE i \in 1..m /\ j \in 1..m
      BY <1>3, <1>5, <2>1 DEF Unique
    <2>2. CASE ~(i \in 1..m /\ j \in 1..m)
      BY <1>5, <1>6, <2>2
    <2>. QED
      BY <2>1, <2>2
  <1>8. ASSUME NEW x
        PROVE  (\E j \in DOMAIN new : new[j] = x) <=> x = e \/ \E j \in DOMAIN rest : rest[j] = x
    <2>1. ASSUME NEW j \in 1..m, rest[j] = x PROVE \E i \in 1..(m + 1) : new[i] = x
      BY <1>5, <2>1
    <2>2. \E i \in 1..(m + 1) : new[i] = e
      BY <1>5
    <2>3. ASSUME NEW i \in 1..(m + 1), new[i] = x PROVE x = e \/ \E j \in 1..m : rest[j] = x
      BY <1>5, <2>3
    <2>. QED
      BY <1>5, <2>1, <2>2, <2>3
  <1>. QED
    BY <1>1, <1>3, <1>4, <1>5, <1>7, <1>8

LEMMA AppendsItem ==
    ASSUME NEW items \in Seq(UpperItems), NEW e, \A j \in DOMAIN items : items[j].name # e.name
    PROVE  ReplaceItem(items, e) = Append(items, e)
  BY Found DEF ReplaceItem, ListAdd

ItemOf(state, l) == [name |-> Upper(l.name), value |-> l.value, desc |-> state.desc]

\* An item of a section.
LEMMA ReadsItem ==
    ASSUME NEW state, InMemory(state), NEW l, l.is = "item", l.name \in Texts, l.value \in Texts,
           state.at # 0
    PROVE  LET new == ReadLine(state, l)
               at == state.at
               e == ItemOf(state, l)
           IN  /\ InMemory(new) /\ new.desc = NoText /\ new.at = at
               /\ at \in DOMAIN state.cfg /\ DOMAIN new.cfg = DOMAIN state.cfg
               /\ \A x \in DOMAIN state.cfg : x # at => new.cfg[x] = state.cfg[x]
               /\ new.cfg[at] = [name |-> state.cfg[at].name,
                                 items |-> ReplaceItem(state.cfg[at].items, e)]
               /\ e \in UpperItems
  <1>. DEFINE cfg == state.cfg
              at == state.at
              e == ItemOf(state, l)
              sec == [name |-> cfg[at].name, items |-> ReplaceItem(cfg[at].items, e)]
              more == [cfg EXCEPT ![at] = sec]
              new == [cfg |-> more, at |-> at, desc |-> NoText]
  <1>1. /\ cfg \in Seq(Sections) /\ Len(cfg) \in Nat /\ DOMAIN cfg = 1..Len(cfg)
        /\ at \in 1..Len(cfg) /\ state = [cfg |-> cfg, at |-> at, desc |-> state.desc]
        /\ state.desc \in Texts
    BY DEF InMemory
  <1>2. e \in UpperItems
    BY <1>1, UpperIs DEF ItemOf, UpperItems
  <1>3. cfg[at] \in Sections
    BY <1>1
  <1>4. /\ cfg[at] = [name |-> cfg[at].name, items |-> cfg[at].items]
        /\ cfg[at].name \in Uppers /\ cfg[at].items \in Seq(UpperItems) /\ Unique(cfg[at].items)
    BY <1>1, <1>3 DEF Sections, InMemory, Tidy
  <1>5. ReadLine(state, l) = new
    <2>1. ReadLine(state, l) =
            [state EXCEPT !.cfg[at].items = ReplaceItem(@, e), !.desc = NoText]
      BY DEF ReadLine, ItemOf
    <2>2. [cfg EXCEPT ![at].items = ReplaceItem(@, e)] = more
      BY <1>1, <1>4
    <2>. QED
      BY <1>1, <2>1, <2>2
  <1>. HIDE DEF e
  <1>6. sec \in Sections /\ Unique(sec.items) /\ sec.name = cfg[at].name
    <2>1. ReplaceItem(cfg[at].items, e) \in Seq(UpperItems) /\ Unique(ReplaceItem(cfg[at].items, e))
      BY <1>2, <1>4, ReplacesItem
    <2>. QED
      BY <1>4, <2>1 DEF Sections
  <1>. HIDE DEF sec
  <1>7. /\ more \in Seq(Sections) /\ DOMAIN more = DOMAIN cfg /\ Len(more) = Len(cfg)
        /\ more[at] = sec /\ \A x \in DOMAIN cfg : x # at => more[x] = cfg[x]
    BY <1>1, <1>6
  <1>8. Tidy(more)
    <2>. HIDE DEF more
    <2>1. \A x \in DOMAIN cfg : more[x].name = cfg[x].name
      BY <1>6, <1>7
    <2>2. Unique(more)
      BY <1>7, <2>1 DEF Unique, InMemory, Tidy
    <2>3. \A x \in DOMAIN more : Unique(more[x].items)
      BY <1>6, <1>7 DEF InMemory, Tidy
    <2>. QED
      BY <1>7, <2>2, <2>3 DEF Tidy
  <1>. HIDE DEF more
  <1>9. new.cfg = more /\ new.at = at /\ new.desc = NoText
        /\ new \in [cfg : Seq(Sections), at : Nat, desc : Texts]
    BY <1>1, <1>7, UpperIs
  <1>10. InMemory(new)
    BY <1>1, <1>7, <1>8, <1>9 DEF InMemory
  <1>. HIDE DEF new
  <1>. QED
    BY <1>1, <1>2, <1>5, <1>7, <1>9, <1>10 DEF e, sec

-----------------------------------------------------------------------------
(* What a file says.                                                       *)

LEMMA LastOf ==
    ASSUME NEW n \in Nat, NEW I \in SUBSET (1..n), I # {}
    PROVE  \E m \in I : \A i \in I : i <= m
  <1>. DEFINE T == {k \in 0..n : \A r \in SUBSET (1..k) : r # {} => \E m \in r : \A i \in r : i <= m}
  <1>1. 0 \in T
    <2>1. 1..0 = {} /\ 0 \in 0..n
      OBVIOUS
    <2>2. ASSUME NEW r \in SUBSET (1..0) PROVE r = {}
      BY <2>1
    <2>. QED
      BY <2>1, <2>2
  <1>2. ASSUME NEW k \in 0..(n - 1), k \in T PROVE k + 1 \in T
    <2>1. ASSUME NEW r \in SUBSET (1..(k + 1)), r # {} PROVE \E m \in r : \A i \in r : i <= m
      <3>1. CASE k + 1 \in r
        BY <3>1
      <3>2. CASE k + 1 \notin r
        <4>1. r \in SUBSET (1..k)
          BY <3>2
        <4>. QED
          BY <4>1, <1>2, <2>1
      <3>. QED
        BY <3>1, <3>2
    <2>. QED
      BY <2>1
  <1>3. T = 0..n
    <2>1. T \in SUBSET (0..n)
      OBVIOUS
    <2>. HIDE DEF T
    <2>. QED
      BY <1>1, <1>2, <2>1, BoundedInduction
  <1>. QED
    BY <1>3

\* The lines at which a section begins or ends.
Ends(lines, i) == {j \in 1..(i - 1) : lines[j].is \in {"header", "blank"}}

Named(line) == IF line.is = "blank" THEN Null ELSE Upper(line.name)

LEMMA SectionFrom ==
    ASSUME NEW lines, NEW i \in Nat \ {0}
    PROVE  /\ Ends(lines, i) = {} => SectionAt(lines, i) = Null
           /\ \A m \in Ends(lines, i) :
                (\A j \in Ends(lines, i) : j <= m) => SectionAt(lines, i) = Named(lines[m])
           /\ Ends(lines, i) # {} => \E m \in Ends(lines, i) : \A j \in Ends(lines, i) : j <= m
  <1>. DEFINE E == Ends(lines, i)
              last == CHOOSE j \in E : \A k \in E : k <= j
  <1>1. SectionAt(lines, i) =
            IF E = {} \/ lines[last].is = "blank" THEN Null ELSE Upper(lines[last].name)
    BY DEF SectionAt, Ends
  <1>2. E \in SUBSET (1..(i - 1)) /\ i - 1 \in Nat
    BY DEF Ends
  <1>3. E # {} => \E m \in E : \A j \in E : j <= m
    <2>. HIDE DEF E
    <2>. QED
      BY <1>2, LastOf
  <1>4. ASSUME NEW m \in E, \A j \in E : j <= m PROVE last = m
    <2>. HIDE DEF E
    <2>1. ASSUME NEW j \in E, \A k \in E : k <= j PROVE j = m
      <3>1. j <= m /\ m <= j /\ j \in Int /\ m \in Int
        BY <1>2, <1>4, <2>1
      <3>. QED
        BY <3>1
    <2>. QED
      BY <1>4, <2>1
  <1>. HIDE DEF E, last
  <1>5. ASSUME NEW m \in E, \A j \in E : j <= m PROVE SectionAt(lines, i) = Named(lines[m])
    BY <1>1, <1>4, <1>5 DEF Named
  <1>. QED
    BY <1>1, <1>3, <1>5 DEF E

LEMMA SectionBefore ==
    ASSUME NEW S, NEW lines \in Seq(S), NEW l \in S, NEW i \in 1..(Len(lines) + 1)
    PROVE  SectionAt(Append(lines, l), i) = SectionAt(lines, i)
  <1>. DEFINE more == Append(lines, l)
  <1>. SUFFICES SectionAt(more, i) = SectionAt(lines, i)
    OBVIOUS
  <1>1. i \in Nat \ {0} /\ \A j \in 1..(i - 1) : more[j] = lines[j]
    OBVIOUS
  <1>. HIDE DEF more
  <1>2. Ends(more, i) = Ends(lines, i)
    BY <1>1 DEF Ends
  <1>3. CASE Ends(lines, i) = {}
    BY <1>1, <1>2, <1>3, SectionFrom
  <1>4. CASE Ends(lines, i) # {}
    <2>1. PICK m \in Ends(lines, i) : \A j \in Ends(lines, i) : j <= m
      BY <1>1, <1>4, SectionFrom
    <2>2. more[m] = lines[m]
      BY <1>1, <2>1 DEF Ends
    <2>3. SectionAt(lines, i) = Named(lines[m])
      BY <1>1, <2>1, SectionFrom
    <2>4. SectionAt(more, i) = Named(more[m])
      BY <1>1, <1>2, <2>1, SectionFrom
    <2>. QED
      BY <2>2, <2>3, <2>4 DEF Named
  <1>. QED
    BY <1>3, <1>4

LEMMA SectionAfter ==
    ASSUME NEW S, NEW lines \in Seq(S), NEW l \in S
    PROVE  SectionAt(Append(lines, l), Len(lines) + 2) =
               IF l.is \in {"header", "blank"} THEN Named(l) ELSE SectionAt(lines, Len(lines) + 1)
  <1>. DEFINE more == Append(lines, l)
              n == Len(lines)
  <1>1. n \in Nat /\ more[n + 1] = l /\ \A j \in 1..n : more[j] = lines[j]
    OBVIOUS
  <1>. HIDE DEF more, n
  <1>2. (n + 2) - 1 = n + 1 /\ (n + 1) - 1 = n
    BY <1>1
  <1>3. Ends(more, n + 2) = {j \in 1..(n + 1) : more[j].is \in {"header", "blank"}}
        /\ Ends(lines, n + 1) = {j \in 1..n : lines[j].is \in {"header", "blank"}}
    BY <1>2 DEF Ends
  <1>4. CASE l.is \in {"header", "blank"}
    <2>1. n + 1 \in Ends(more, n + 2) /\ \A j \in Ends(more, n + 2) : j <= n + 1
      BY <1>1, <1>3, <1>4
    <2>2. SectionAt(more, n + 2) = Named(more[n + 1])
      BY <1>1, <2>1, SectionFrom
    <2>. QED
      BY <1>1, <1>4, <2>2 DEF more, n
  <1>5. CASE l.is \notin {"header", "blank"}
    <2>1. Ends(more, n + 2) = Ends(lines, n + 1)
      <3>1. \A j \in 1..n : more[j].is \in {"header", "blank"} <=> lines[j].is \in {"header", "blank"}
        BY <1>1
      <3>2. more[n + 1].is \notin {"header", "blank"}
        BY <1>1, <1>5
      <3>3. \A j : j \in 1..(n + 1) <=> j \in 1..n \/ j = n + 1
        BY <1>1
      <3>. QED
        BY <1>3, <3>1, <3>2, <3>3, Zenon
    <2>2. CASE Ends(lines, n + 1) = {}
      <3>1. SectionAt(more, n + 2) = Null /\ SectionAt(lines, n + 1) = Null
        BY <1>1, <2>1, <2>2, SectionFrom
      <3>. QED
        BY <1>5, <3>1 DEF more, n
    <2>3. CASE Ends(lines, n + 1) # {}
      <3>1. PICK m \in Ends(lines, n + 1) : \A j \in Ends(lines, n + 1) : j <= m
        BY <1>1, <2>3, SectionFrom
      <3>2. more[m] = lines[m]
        BY <1>1, <1>3, <3>1
      <3>3. SectionAt(lines, n + 1) = Named(lines[m]) /\ SectionAt(more, n + 2) = Named(more[m])
        BY <1>1, <2>1, <3>1, SectionFrom
      <3>. QED
        BY <1>5, <3>2, <3>3 DEF more, n
    <2>. QED
      BY <2>2, <2>3
  <1>. QED
    BY <1>4, <1>5

\* The lines that say something of an item.
Where(lines, s, k) ==
    {i \in DOMAIN lines : lines[i].is = "item" /\ Upper(lines[i].name) = k /\ SectionAt(lines, i) = s}

LEMMA SaysFrom ==
    ASSUME NEW S, NEW lines \in Seq(S), NEW s, NEW k
    PROVE  /\ Where(lines, s, k) = {} => Says(lines, s, k) = Null
           /\ \A m \in Where(lines, s, k) :
                (\A j \in Where(lines, s, k) : j <= m) => Says(lines, s, k) = lines[m].value
           /\ Where(lines, s, k) # {} =>
                \E m \in Where(lines, s, k) : \A j \in Where(lines, s, k) : j <= m
  <1>. DEFINE W == Where(lines, s, k)
              last == CHOOSE i \in W : \A j \in W : j <= i
  <1>1. Says(lines, s, k) = IF W = {} THEN Null ELSE lines[last].value
    BY DEF Says, Where
  <1>2. W \in SUBSET (1..Len(lines)) /\ Len(lines) \in Nat
    BY DEF Where
  <1>. HIDE DEF W
  <1>3. W # {} => \E m \in W : \A j \in W : j <= m
    BY <1>2, LastOf
  <1>4. ASSUME NEW m \in W, \A j \in W : j <= m PROVE last = m
    <2>1. ASSUME NEW j \in W, \A i \in W : i <= j PROVE j = m
      <3>1. j <= m /\ m <= j /\ j \in Int /\ m \in Int
        BY <1>2, <1>4, <2>1
      <3>. QED
        BY <3>1
    <2>. QED
      BY <1>4, <2>1
  <1>. HIDE DEF last
  <1>5. ASSUME NEW m \in W, \A j \in W : j <= m PROVE Says(lines, s, k) = lines[m].value
    BY <1>1, <1>4, <1>5
  <1>. QED
    BY <1>1, <1>3, <1>5 DEF W

\* A line more counts if it is an item of the section that the lines before it are in.
LEMMA SaysMore ==
    ASSUME NEW S, NEW lines \in Seq(S), NEW l \in S, NEW s, NEW k
    PROVE  Says(Append(lines, l), s, k) =
               IF l.is = "item" /\ Upper(l.name) = k /\ SectionAt(lines, Len(lines) + 1) = s
               THEN l.value ELSE Says(lines, s, k)
  <1>. DEFINE more == Append(lines, l)
              n == Len(lines)
              counts == l.is = "item" /\ Upper(l.name) = k /\ SectionAt(lines, n + 1) = s
  <1>1. /\ n \in Nat /\ more[n + 1] = l /\ DOMAIN lines = 1..n /\ DOMAIN more = 1..(n + 1)
        /\ more \in Seq(S) /\ \A j \in 1..n : more[j] = lines[j]
    OBVIOUS
  <1>2. \A j \in 1..(n + 1) : SectionAt(more, j) = SectionAt(lines, j)
    BY SectionBefore
  <1>. HIDE DEF more, n
  <1>3. Where(more, s, k) = Where(lines, s, k) \cup (IF counts THEN {n + 1} ELSE {})
    <2>1. \A j \in 1..n : j \in Where(more, s, k) <=> j \in Where(lines, s, k)
      BY <1>1, <1>2 DEF Where
    <2>2. n + 1 \in Where(more, s, k) <=> counts
      BY <1>1, <1>2 DEF Where
    <2>3. Where(more, s, k) \subseteq 1..(n + 1) /\ Where(lines, s, k) \subseteq 1..n
      BY <1>1 DEF Where
    <2>. HIDE DEF counts
    <2>4. ASSUME NEW j
          PROVE  j \in Where(more, s, k) <=> j \in Where(lines, s, k) \cup (IF counts THEN {n + 1} ELSE {})
      <3>1. CASE j \in 1..n
        BY <1>1, <2>1, <3>1
      <3>2. CASE j = n + 1
        BY <1>1, <2>2, <2>3, <3>2
      <3>3. CASE j \notin 1..(n + 1)
        BY <1>1, <2>3, <3>3
      <3>. QED
        BY <1>1, <3>1, <3>2, <3>3
    <2>. QED
      BY <2>4
  <1>. HIDE DEF counts
  <1>4. Where(lines, s, k) \subseteq 1..n
    BY <1>1 DEF Where
  <1>5. CASE counts
    <2>1. n + 1 \in Where(more, s, k) /\ \A j \in Where(more, s, k) : j <= n + 1
      BY <1>1, <1>3, <1>4, <1>5
    <2>2. Says(more, s, k) = l.value
      BY <1>1, <2>1, SaysFrom
    <2>. QED
      BY <1>5, <2>2 DEF counts, more, n
  <1>6. CASE ~counts
    <2>1. Where(more, s, k) = Where(lines, s, k)
      BY <1>3, <1>6
    <2>2. Says(more, s, k) = Says(lines, s, k)
      <3>1. CASE Where(lines, s, k) = {}
        BY <1>1, <2>1, <3>1, SaysFrom
      <3>2. CASE Where(lines, s, k) # {}
        <4>1. PICK m \in Where(lines, s, k) : \A j \in Where(lines, s, k) : j <= m
          BY <3>2, SaysFrom
        <4>2. more[m] = lines[m]
          BY <1>1, <1>4, <4>1
        <4>3. Says(lines, s, k) = lines[m].value
          BY <4>1, SaysFrom
        <4>4. Says(more, s, k) = more[m].value
          BY <1>1, <2>1, <4>1, SaysFrom
        <4>. QED
          BY <4>2, <4>3, <4>4
      <3>. QED
        BY <3>1, <3>2
    <2>. QED
      BY <1>6, <2>2 DEF counts, more, n
  <1>. QED
    BY <1>5, <1>6

-----------------------------------------------------------------------------
(* cfg_read has in memory what the lines say.                              *)

Faithful(state, lines) ==
    /\ InMemory(state)
    /\ SectionAt(lines, Len(lines) + 1) = IF state.at = 0 THEN Null ELSE state.cfg[state.at].name
    /\ \A s, k \in Uppers : \A v : Has(state.cfg, s, k, v) <=> Says(lines, s, k) = v /\ v # Null

LEMMA NothingIsFaithful == Faithful(Begin, <<>>)
  <1>1. <<>> \in Seq(Sections) /\ Len(<<>>) = 0 /\ NoText \in Texts /\ DOMAIN <<>> = {}
    BY UpperIs
  <1>2. Tidy(<<>>)
    BY <1>1 DEF Tidy, Unique
  <1>3. InMemory(Begin)
    BY <1>1, <1>2 DEF InMemory, Begin, cfg_create
  <1>4. SectionAt(<<>>, 1) = Null
    <2>1. Ends(<<>>, 1) = {}
      BY DEF Ends
    <2>. QED
      BY <2>1, SectionFrom
  <1>5. ASSUME NEW s, NEW k PROVE Says(<<>>, s, k) = Null
    <2>1. Where(<<>>, s, k) = {}
      BY <1>1 DEF Where
    <2>2. <<>> \in Seq({})
      OBVIOUS
    <2>. QED
      BY <2>1, <2>2, SaysFrom
  <1>6. ASSUME NEW s, NEW k, NEW v PROVE ~Has(<<>>, s, k, v)
    BY <1>1 DEF Has
  <1>7. Begin.cfg = <<>> /\ Begin.at = 0
    BY DEF Begin, cfg_create
  <1>. QED
    BY <1>1, <1>3, <1>4, <1>5, <1>6, <1>7 DEF Faithful

LEMMA SectionHasNone ==
    ASSUME NEW cfg \in Seq(Sections), NEW n, NEW s, NEW k, NEW v
    PROVE  Has(Append(cfg, NewSection(n)), s, k, v) <=> Has(cfg, s, k, v)
  <1>. DEFINE more == Append(cfg, NewSection(n))
              m == Len(cfg)
  <1>1. /\ m \in Nat /\ DOMAIN cfg = 1..m /\ DOMAIN more = 1..(m + 1)
        /\ more[m + 1] = NewSection(n) /\ \A x \in 1..m : more[x] = cfg[x]
    OBVIOUS
  <1>2. DOMAIN NewSection(n).items = {}
    BY DEF NewSection
  <1>. HIDE DEF m, more
  <1>3. ASSUME NEW x \in 1..(m + 1), NEW i \in DOMAIN more[x].items PROVE x \in 1..m
    BY <1>1, <1>2, <1>3
  <1>4. Has(more, s, k, v) => Has(cfg, s, k, v)
    BY <1>1, <1>3 DEF Has
  <1>5. Has(cfg, s, k, v) => Has(more, s, k, v)
    BY <1>1 DEF Has
  <1>. QED
    BY <1>4, <1>5 DEF more

LEMMA ItemIsHad ==
    ASSUME NEW state, InMemory(state), NEW l, l.is = "item", l.name \in Texts, l.value \in Texts,
           state.at # 0, NEW s, NEW k, NEW v
    PROVE  Has(ReadLine(state, l).cfg, s, k, v) <=>
               IF s = state.cfg[state.at].name /\ k = Upper(l.name) THEN v = l.value
               ELSE Has(state.cfg, s, k, v)
  <1>. DEFINE cfg == state.cfg
              at == state.at
              new == ReadLine(state, l).cfg
              e == ItemOf(state, l)
              items == cfg[at].items
  <1>1. /\ at \in DOMAIN cfg /\ DOMAIN new = DOMAIN cfg
        /\ \A x \in DOMAIN cfg : x # at => new[x] = cfg[x]
        /\ new[at].name = cfg[at].name /\ new[at].items = ReplaceItem(items, e)
        /\ e \in UpperItems
    <2>1. /\ at \in DOMAIN cfg /\ DOMAIN new = DOMAIN cfg
          /\ \A x \in DOMAIN cfg : x # at => new[x] = cfg[x]
          /\ new[at] = [name |-> cfg[at].name, items |-> ReplaceItem(items, e)]
          /\ e \in UpperItems
      BY ReadsItem, Zenon
    <2>. HIDE DEF new, cfg, at, items, e
    <2>. QED
      BY <2>1
  <1>2. /\ cfg \in Seq(Sections) /\ items \in Seq(UpperItems) /\ Unique(items) /\ Unique(cfg)
    <2>1. cfg \in Seq(Sections) /\ Unique(cfg) /\ Unique(items)
      BY <1>1 DEF InMemory, Tidy
    <2>2. cfg[at] \in Sections
      BY <1>1, <2>1
    <2>. QED
      BY <2>1, <2>2 DEF Sections
  <1>3. e.name = Upper(l.name) /\ e.value = l.value
    BY DEF ItemOf
  <1>. HIDE DEF e, new, cfg, at, items
  <1>4. \A y : (\E j \in DOMAIN new[at].items : new[at].items[j] = y) <=>
                   y = e \/ \E j \in DOMAIN items : items[j] = y /\ y.name # e.name
    <2>. DEFINE rep == ReplaceItem(items, e)
    <2>1. \A y : (\E j \in DOMAIN rep : rep[j] = y) <=>
                     y = e \/ \E j \in DOMAIN items : items[j] = y /\ y.name # e.name
      BY <1>1, <1>2, ReplacesItem
    <2>. QED
      BY <1>1, <2>1
  <1>5. \A x \in DOMAIN cfg : cfg[x].name = cfg[at].name => x = at
    BY <1>1, <1>2 DEF Unique
  <1>6. items = cfg[at].items
    BY DEF items
  <1>7. CASE s # cfg[at].name
    <2>1. \A x \in DOMAIN cfg : cfg[x].name = s \/ new[x].name = s => x # at /\ new[x] = cfg[x]
      BY <1>1, <1>7
    <2>2. Has(new, s, k, v) <=> Has(cfg, s, k, v)
      BY <1>1, <2>1 DEF Has
    <2>. QED
      BY <1>7, <2>2 DEF new, cfg, at
  <1>8. CASE s = cfg[at].name
    <2>1. Has(cfg, s, k, v) <=> \E j \in DOMAIN items : items[j].name = k /\ items[j].value = v
      BY <1>1, <1>5, <1>6, <1>8 DEF Has
    <2>2. Has(new, s, k, v) <=>
              \E j \in DOMAIN new[at].items : new[at].items[j].name = k /\ new[at].items[j].value = v
      BY <1>1, <1>5, <1>8 DEF Has
    <2>3. Has(new, s, k, v) <=>
              \/ e.name = k /\ e.value = v
              \/ \E j \in DOMAIN items : items[j].name = k /\ items[j].value = v /\ items[j].name # e.name
      BY <1>4, <2>2
    <2>4. Has(new, s, k, v) <=> IF k = e.name THEN v = e.value ELSE Has(cfg, s, k, v)
      BY <2>1, <2>3
    <2>. QED
      BY <1>3, <1>8, <2>4 DEF new, cfg, at
  <1>. QED
    BY <1>7, <1>8

LEMMA LineTypes ==
    ASSUME NEW l \in Lines
    PROVE  /\ l.is \in {"header", "item", "remark", "blank"}
           /\ l.is = "header" => l.name \in Texts
           /\ l.is = "item" => l.name \in Texts /\ l.value \in Texts
           /\ l.is = "remark" => l.text \in Texts
  BY DEF Lines, BlankLine

LEMMA FaithfulLine ==
    ASSUME NEW lines \in Seq(Lines), NEW l \in Lines, NEW state, Faithful(state, lines)
    PROVE  Faithful(ReadLine(state, l), Append(lines, l))
  <1>. DEFINE new == ReadLine(state, l)
              more == Append(lines, l)
              n == Len(lines)
              here == SectionAt(lines, n + 1)
  <1>1. InMemory(state) /\ here = (IF state.at = 0 THEN Null ELSE state.cfg[state.at].name)
    BY DEF Faithful
  <1>2. n \in Nat /\ Len(more) + 1 = n + 2
    OBVIOUS
  <1>3. SectionAt(more, Len(more) + 1) = IF l.is \in {"header", "blank"} THEN Named(l) ELSE here
    BY <1>2, SectionAfter
  <1>4. \A s, k : Says(more, s, k) = IF l.is = "item" /\ Upper(l.name) = k /\ here = s
                                      THEN l.value ELSE Says(lines, s, k)
    BY SaysMore
  <1>5. \A s, k \in Uppers : \A v : Has(state.cfg, s, k, v) <=> Says(lines, s, k) = v /\ v # Null
    BY DEF Faithful
  <1>. HIDE DEF more, here, n
  <1>6. CASE l.is = "blank"
    <2>1. new = [cfg |-> state.cfg, at |-> 0, desc |-> state.desc]
      BY <1>1, <1>6, ReadsBlank
    <2>. HIDE DEF new
    <2>2. InMemory(new)
      BY <1>1, <2>1 DEF InMemory
    <2>3. new.at = 0 /\ new.cfg = state.cfg /\ Named(l) = Null
      BY <1>6, <2>1 DEF Named
    <2>4. Faithful(new, more)
      BY <1>3, <1>4, <1>5, <1>6, <2>2, <2>3 DEF Faithful
    <2>. QED
      BY <2>4 DEF new, more
  <1>7. CASE l.is = "remark"
    <2>1. new = [cfg |-> state.cfg, at |-> state.at,
                 desc |-> IF state.at = 0 THEN state.desc ELSE l.text]
      BY <1>1, <1>7, ReadsRemark
    <2>. HIDE DEF new
    <2>2. InMemory(new)
      BY <1>1, <1>7, <2>1, LineTypes DEF InMemory
    <2>3. new.at = state.at /\ new.cfg = state.cfg
      BY <2>1
    <2>4. Faithful(new, more)
      BY <1>1, <1>3, <1>4, <1>5, <1>7, <2>2, <2>3 DEF Faithful
    <2>. QED
      BY <2>4 DEF new, more
  <1>8. CASE l.is = "header"
    <2>1. /\ InMemory(new) /\ new.at \in DOMAIN new.cfg /\ new.cfg[new.at].name = Upper(l.name)
          /\ new.cfg = state.cfg \/ new.cfg = Append(state.cfg, NewSection(l.name))
      BY <1>1, <1>8, LineTypes, ReadsHeader
    <2>. HIDE DEF new
    <2>2. \A s, k, v : Has(new.cfg, s, k, v) <=> Has(state.cfg, s, k, v)
      <3>1. state.cfg \in Seq(Sections)
        BY <1>1 DEF InMemory
      <3>2. CASE new.cfg = state.cfg
        BY <3>2
      <3>3. CASE new.cfg = Append(state.cfg, NewSection(l.name))
        BY <3>1, <3>3, SectionHasNone
      <3>. QED
        BY <2>1, <3>2, <3>3
    <2>3. new.at # 0 /\ Named(l) = Upper(l.name)
      <3>1. new.cfg \in Seq(Sections)
        BY <2>1 DEF InMemory
      <3>2. new.at # 0
        BY <2>1, <3>1
      <3>. QED
        BY <1>8, <3>2 DEF Named
    <2>4. Faithful(new, more)
      BY <1>3, <1>4, <1>5, <1>8, <2>1, <2>2, <2>3 DEF Faithful
    <2>. QED
      BY <2>4 DEF new, more
  <1>9. CASE l.is = "item" /\ state.at = 0
    <2>1. new = state
      BY <1>9 DEF ReadLine
    <2>2. \A s \in Uppers : here # s
      BY <1>1, <1>9, UpperIs
    <2>. HIDE DEF new
    <2>3. Faithful(new, more)
      BY <1>1, <1>3, <1>4, <1>5, <1>9, <2>1, <2>2 DEF Faithful
    <2>. QED
      BY <2>3 DEF new, more
  <1>10. CASE l.is = "item" /\ state.at # 0
    <2>1. l.name \in Texts /\ l.value \in Texts /\ l.value # Null
      BY <1>10, LineTypes, UpperIs
    <2>2. /\ InMemory(new) /\ new.at = state.at /\ state.at \in DOMAIN state.cfg
          /\ new.cfg[state.at].name = state.cfg[state.at].name
      <3>. DEFINE e == ItemOf(state, l)
                  rep == ReplaceItem(state.cfg[state.at].items, e)
      <3>1. /\ InMemory(new) /\ new.at = state.at /\ state.at \in DOMAIN state.cfg
            /\ new.cfg[state.at] = [name |-> state.cfg[state.at].name, items |-> rep]
        BY <1>1, <1>10, <2>1, ReadsItem, Zenon
      <3>. HIDE DEF rep, new
      <3>. QED
        BY <3>1
    <2>3. \A s, k, v : Has(new.cfg, s, k, v) <=>
               IF s = state.cfg[state.at].name /\ k = Upper(l.name) THEN v = l.value
               ELSE Has(state.cfg, s, k, v)
      BY <1>1, <1>10, <2>1, ItemIsHad
    <2>. HIDE DEF new
    <2>4. Faithful(new, more)
      <3>1. SectionAt(more, Len(more) + 1) = IF new.at = 0 THEN Null ELSE new.cfg[new.at].name
        BY <1>1, <1>3, <1>10, <2>2
      <3>2. ASSUME NEW s \in Uppers, NEW k \in Uppers, NEW v
            PROVE  Has(new.cfg, s, k, v) <=> Says(more, s, k) = v /\ v # Null
        BY <1>1, <1>4, <1>5, <1>10, <2>1, <2>3
      <3>. QED
        BY <2>2, <3>1, <3>2 DEF Faithful
    <2>. QED
      BY <2>4 DEF new, more
  <1>. QED
    BY <1>6, <1>7, <1>8, <1>9, <1>10, LineTypes

LEMMA ReadsFaithfully ==
    ASSUME NEW lines \in Seq(Lines), NEW to, Reads(Begin, lines, to)
    PROVE  Faithful(to, lines)
  <1>. DEFINE n == Len(lines)
              First(i) == SubSeq(lines, 1, i)
  <1>1. PICK st : Stages(st, lines) /\ st[0] = Begin /\ st[n] = to
    BY DEF Reads
  <1>. DEFINE T == {i \in 0..n : Faithful(st[i], First(i))}
  <1>2. n \in Nat /\ First(0) = <<>> /\ First(n) = lines
    OBVIOUS
  <1>3. \A i \in 0..(n - 1) : /\ First(i) \in Seq(Lines) /\ lines[i + 1] \in Lines
                               /\ First(i + 1) = Append(First(i), lines[i + 1])
    OBVIOUS
  <1>. HIDE DEF First
  <1>4. 0 \in T
    BY <1>1, <1>2, NothingIsFaithful
  <1>5. ASSUME NEW i \in 0..(n - 1), i \in T PROVE i + 1 \in T
    <2>1. Faithful(st[i], First(i)) /\ st[i + 1] = ReadLine(st[i], lines[i + 1])
      BY <1>1, <1>5 DEF Stages
    <2>2. Faithful(st[i + 1], First(i + 1))
      BY <1>3, <2>1, FaithfulLine
    <2>. QED
      BY <1>2, <2>2
  <1>6. T = 0..n
    <2>1. T \in SUBSET (0..n)
      OBVIOUS
    <2>. HIDE DEF T, n
    <2>. QED
      BY <1>2, <1>4, <1>5, <2>1, BoundedInduction
  <1>. QED
    BY <1>1, <1>2, <1>6

\* What cfg_read has in memory, for every file: each section once, each item of it once,
\* and for every one of them the value that the file says.
LEMMA ReadsTheFile ==
    ASSUME NEW lines \in Seq(Lines)
    PROVE  /\ Tidy(cfg_read(lines))
           /\ \A s, k \in Uppers : cfg_get_item(cfg_read(lines), s, k) = Says(lines, s, k)
  <1>1. PICK to : Reads(Begin, lines, to) /\ cfg_read(lines) = to.cfg
    BY ReadByLine
  <1>2. Faithful(to, lines)
    BY <1>1, ReadsFaithfully
  <1>3. Tidy(cfg_read(lines))
    BY <1>1, <1>2 DEF Faithful, InMemory
  <1>4. ASSUME NEW s \in Uppers, NEW k \in Uppers
        PROVE  cfg_get_item(cfg_read(lines), s, k) = Says(lines, s, k)
    <2>1. \A v : Has(to.cfg, s, k, v) <=> Says(lines, s, k) = v /\ v # Null
      BY <1>2 DEF Faithful
    <2>2. \A v : Has(to.cfg, s, k, v) <=> cfg_get_item(to.cfg, s, k) = v /\ v # Null
      BY <1>1, <1>3, GetsItem
    <2>. QED
      BY <1>1, <2>1, <2>2
  <1>. QED
    BY <1>3, <1>4

-----------------------------------------------------------------------------
(* The lines of a list of lists, one after the other.                      *)

IsFlat(g, m, f) == g = [i \in 1..m |-> IF i = 1 THEN f[i] ELSE g[i - 1] \o f[i]]

LEMMA FlatExists == ASSUME NEW n \in Nat, NEW f PROVE \E g : IsFlat(g, n, f)
  <1>. DEFINE T == {m \in 0..n : \E g : IsFlat(g, m, f)}
  <1>1. 0 \in T
    <2>. DEFINE g == [i \in 1..0 |-> f[i]]
    <2>1. IsFlat(g, 0, f)
      BY DEF IsFlat
    <2>. QED
      BY <2>1
  <1>2. ASSUME NEW m \in 0..(n - 1), m \in T PROVE m + 1 \in T
    <2>1. PICK g : IsFlat(g, m, f)
      BY <1>2
    <2>. DEFINE more == [i \in 1..(m + 1) |->
                            IF i = 1 THEN f[i] ELSE IF i <= m THEN g[i] ELSE g[m] \o f[i]]
    <2>2. ASSUME NEW i \in 1..(m + 1)
          PROVE  more[i] = IF i = 1 THEN f[i] ELSE more[i - 1] \o f[i]
      <3>1. CASE i = 1
        BY <3>1
      <3>2. CASE i # 1
        <4>1. i - 1 \in 1..m /\ i - 1 \in 1..(m + 1)
          BY <3>2
        <4>2. more[i - 1] = g[i - 1]
          <5>1. more[i - 1] = IF i - 1 = 1 THEN f[i - 1] ELSE g[i - 1]
            BY <4>1
          <5>2. i - 1 = 1 => g[i - 1] = f[i - 1]
            BY <2>1, <4>1 DEF IsFlat
          <5>. HIDE DEF more
          <5>. QED
            BY <5>1, <5>2
        <4>3. CASE i <= m
          <5>1. g[i] = g[i - 1] \o f[i]
            <6>1. i \in 1..m
              BY <4>3
            <6>2. g[i] = IF i = 1 THEN f[i] ELSE g[i - 1] \o f[i]
              BY <2>1, <6>1 DEF IsFlat
            <6>. QED
              BY <3>2, <6>2
          <5>2. more[i] = g[i]
            BY <3>2, <4>3
          <5>. HIDE DEF more
          <5>. QED
            BY <3>2, <4>2, <5>1, <5>2
        <4>4. CASE ~(i <= m)
          <5>1. i - 1 = m
            BY <4>4
          <5>2. more[i] = g[m] \o f[i]
            BY <3>2, <4>4
          <5>. HIDE DEF more
          <5>. QED
            BY <3>2, <4>2, <5>1, <5>2
        <4>. QED
          BY <4>3, <4>4
      <3>. QED
        BY <3>1, <3>2
    <2>3. IsFlat(more, m + 1, f)
      <3>1. more = [i \in 1..(m + 1) |-> more[i]]
        OBVIOUS
      <3>. HIDE DEF more
      <3>. QED
        BY <2>2, <3>1 DEF IsFlat
    <2>. QED
      BY <2>3
  <1>3. T = 0..n
    <2>1. T \in SUBSET (0..n)
      OBVIOUS
    <2>. HIDE DEF T
    <2>. QED
      BY <1>1, <1>2, <2>1, BoundedInduction
  <1>. QED
    BY <1>3

\* Parts(fl, f): fl[i] is the first i parts of f, one after the other.
Parts(fl, f) == fl[0] = <<>> /\ \A i \in 0..(Len(f) - 1) : fl[i + 1] = fl[i] \o f[i + 1]

LEMMA FlatByPart ==
    ASSUME NEW S, NEW f \in Seq(Seq(S))
    PROVE  \E fl : /\ Parts(fl, f) /\ FlattenSeq(f) = fl[Len(f)]
                   /\ \A i \in 0..Len(f) : fl[i] \in Seq(S)
  <1>. DEFINE n == Len(f)
              g == CHOOSE h : IsFlat(h, n, f)
              fl == [i \in 0..n |-> IF i = 0 THEN <<>> ELSE g[i]]
  <1>1. n \in Nat /\ \A i \in 1..n : f[i] \in Seq(S)
    OBVIOUS
  <1>2. IsFlat(g, n, f)
    BY <1>1, FlatExists
  <1>3. FlattenSeq(f) = fl[n]
    <2>1. CASE n = 0
      <3>1. f = <<>>
        BY <2>1
      <3>. QED
        BY <2>1, <3>1 DEF FlattenSeq
    <2>2. CASE n # 0
      <3>1. FlattenSeq(f) = g[n]
        BY <2>2 DEF FlattenSeq, IsFlat
      <3>. HIDE DEF g
      <3>. QED
        BY <1>1, <2>2, <3>1
    <2>. QED
      BY <2>1, <2>2
  <1>. HIDE DEF g
  <1>4. fl[0] = <<>>
    BY <1>1
  <1>5. ASSUME NEW i \in 0..(n - 1) PROVE fl[i + 1] = fl[i] \o f[i + 1]
    <2>1. fl[i + 1] = g[i + 1] /\ i + 1 \in 1..n /\ (i + 1) - 1 = i
      BY <1>1
    <2>2. g[i + 1] = IF i + 1 = 1 THEN f[i + 1] ELSE g[i] \o f[i + 1]
      BY <1>2, <2>1 DEF IsFlat
    <2>3. CASE i = 0
      <3>1. fl[i] = <<>> /\ f[i + 1] \in Seq(S)
        BY <1>1, <2>1, <2>3
      <3>. HIDE DEF fl
      <3>2. fl[i] \o f[i + 1] = f[i + 1]
        BY <3>1
      <3>. QED
        BY <2>1, <2>2, <2>3, <3>2
    <2>4. CASE i # 0
      <3>1. fl[i] = g[i]
        BY <1>1, <2>4
      <3>2. i + 1 # 1
        BY <2>4
      <3>. HIDE DEF fl
      <3>. QED
        BY <2>1, <2>2, <3>1, <3>2
    <2>. QED
      BY <2>3, <2>4
  <1>. HIDE DEF fl
  <1>6. \A i \in 0..n : fl[i] \in Seq(S)
    <2>. DEFINE T == {i \in 0..n : fl[i] \in Seq(S)}
    <2>1. 0 \in T
      <3>1. <<>> \in Seq(S) /\ 0 \in 0..n
        BY <1>1
      <3>2. fl[0] \in Seq(S)
        BY <1>4, <3>1, Zenon
      <3>. QED
        BY <3>1, <3>2
    <2>2. ASSUME NEW i \in 0..(n - 1), i \in T PROVE i + 1 \in T
      <3>1. fl[i] \in Seq(S) /\ f[i + 1] \in Seq(S)
        BY <1>1, <2>2
      <3>2. fl[i] \o f[i + 1] \in Seq(S)
        BY <3>1
      <3>3. i + 1 \in 0..n /\ fl[i + 1] = fl[i] \o f[i + 1]
        <4>1. i + 1 \in 0..n
          BY <1>1
        <4>2. fl[i + 1] = fl[i] \o f[i + 1]
          BY <1>5
        <4>. QED
          BY <4>1, <4>2
      <3>4. fl[i + 1] \in Seq(S)
        BY <3>2, <3>3, Zenon
      <3>. QED
        BY <3>3, <3>4
    <2>3. T = 0..n
      <3>1. T \in SUBSET (0..n)
        OBVIOUS
      <3>. HIDE DEF T, n
      <3>. QED
        BY <1>1, <2>1, <2>2, <3>1, BoundedInduction
    <2>. QED
      BY <2>3
  <1>7. Parts(fl, f)
    BY <1>4, <1>5 DEF Parts
  <1>. QED
    BY <1>3, <1>6, <1>7

-----------------------------------------------------------------------------
(* cfg_read reads back what cfg_write writes.                              *)

NormalItem(e) == [e EXCEPT !.desc = Semicolon(@)]

NormalItems(items) == [i \in DOMAIN items |-> NormalItem(items[i])]

NormalSection(sec) == [sec EXCEPT !.items = NormalItems(@)]

\* Within a section: its header and some items have been read.
Within(c, s, items) ==
    [cfg |-> Append(c, [name |-> s, items |-> items]), at |-> Len(c) + 1, desc |-> NoText]

LEMMA NormalTypes ==
    ASSUME NEW e \in UpperItems
    PROVE  /\ NormalItem(e) = [name |-> e.name, value |-> e.value, desc |-> Semicolon(e.desc)]
           /\ NormalItem(e) \in UpperItems /\ Semicolon(e.desc) \in Texts
           /\ Semicolon(e.desc) = NoText <=> e.desc = NoText
  <1>1. e.name \in Uppers /\ e.value \in Texts /\ e.desc \in Texts
        /\ e = [name |-> e.name, value |-> e.value, desc |-> e.desc]
    BY DEF UpperItems
  <1>2. Semicolon(e.desc) \in Texts
    BY <1>1, CfgAssumption DEF CfgAssumption, Semicolon
  <1>3. Semicolon(e.desc) = NoText <=> e.desc = NoText
    BY DEF Semicolon, NoText
  <1>4. NormalItem(e) = [name |-> e.name, value |-> e.value, desc |-> Semicolon(e.desc)]
    BY <1>1 DEF NormalItem
  <1>. QED
    BY <1>1, <1>2, <1>3, <1>4 DEF UpperItems

LEMMA WithinIsInMemory ==
    ASSUME NEW c, NEW s, NEW items, Tidy(Append(c, [name |-> s, items |-> items])),
           c \in Seq(Sections), s \in Uppers, items \in Seq(UpperItems)
    PROVE  /\ InMemory(Within(c, s, items)) /\ Within(c, s, items).at # 0
           /\ Within(c, s, items).desc = NoText /\ Within(c, s, items).at = Len(c) + 1
           /\ Within(c, s, items).cfg[Len(c) + 1] = [name |-> s, items |-> items]
  <1>. DEFINE sec == [name |-> s, items |-> items]
              w == Append(c, sec)
  <1>1. sec \in Sections
    BY DEF Sections
  <1>. HIDE DEF sec
  <1>2. /\ Len(c) \in Nat /\ w \in Seq(Sections) /\ Len(w) = Len(c) + 1
        /\ w[Len(c) + 1] = sec
    BY <1>1
  <1>3. Within(c, s, items) = [cfg |-> w, at |-> Len(c) + 1, desc |-> NoText]
    BY DEF Within, sec
  <1>4. Tidy(w)
    BY DEF sec
  <1>. HIDE DEF w
  <1>. QED
    BY <1>2, <1>3, <1>4, UpperIs DEF InMemory, sec

LEMMA ItemReadBack ==
    ASSUME NEW c \in Seq(Sections), NEW s \in Uppers, NEW items \in Seq(UpperItems),
           Tidy(Append(c, [name |-> s, items |-> items])), NEW e \in UpperItems,
           \A j \in DOMAIN items : items[j].name # e.name
    PROVE  /\ Reads(Within(c, s, items), ItemLines(e), Within(c, s, Append(items, NormalItem(e))))
           /\ InMemory(Within(c, s, Append(items, NormalItem(e))))
           /\ ItemLines(e) \in Seq(Lines)
  <1>. DEFINE from == Within(c, s, items)
              t == Semicolon(e.desc)
              mid == [cfg |-> from.cfg, at |-> from.at, desc |-> t]
              l == Setting(e.name, e.value)
              new == ReadLine(mid, l)
              to == Within(c, s, Append(items, NormalItem(e)))
              m == Len(c) + 1
  <1>1. /\ InMemory(from) /\ from.at # 0 /\ from.desc = NoText /\ from.at = m
        /\ from.cfg[m] = [name |-> s, items |-> items]
        /\ from.cfg = Append(c, [name |-> s, items |-> items])
    BY WithinIsInMemory DEF Within
  <1>2. /\ e.name \in Uppers /\ e.name \in Texts /\ e.value \in Texts /\ t \in Texts
        /\ (t = NoText <=> e.desc = NoText)
        /\ NormalItem(e) = [name |-> e.name, value |-> e.value, desc |-> t]
        /\ NormalItem(e) \in UpperItems
    BY NormalTypes, UpperIs DEF UpperItems
  <1>3. InMemory(mid) /\ mid.at = m /\ mid.at # 0 /\ mid.cfg = from.cfg /\ mid.desc = t
    <2>. HIDE DEF from, t
    <2>. QED
      BY <1>1, <1>2 DEF InMemory
  <1>4. /\ l.is = "item" /\ l.name = e.name /\ l.value = e.value /\ l \in Lines
        /\ Remark(t).is = "remark" /\ Remark(t).text = t /\ Remark(t) \in Lines
    BY <1>2 DEF Setting, Remark, Lines
  <1>5. ItemOf(mid, l) = NormalItem(e)
    BY <1>2, <1>3, <1>4, UpperIs DEF ItemOf
  <1>6. ReplaceItem(items, NormalItem(e)) = Append(items, NormalItem(e))
    <2>1. NormalItem(e).name = e.name
      BY <1>2
    <2>. QED
      BY <2>1, AppendsItem
  <1>7. /\ InMemory(new) /\ new.desc = NoText /\ new.at = m
        /\ DOMAIN new.cfg = DOMAIN from.cfg
        /\ \A x \in DOMAIN from.cfg : x # m => new.cfg[x] = from.cfg[x]
        /\ new.cfg[m] = [name |-> from.cfg[m].name,
                         items |-> ReplaceItem(from.cfg[m].items, ItemOf(mid, l))]
    <2>. HIDE DEF mid, l, from, m
    <2>1. /\ InMemory(new) /\ new.desc = NoText /\ new.at = mid.at
          /\ DOMAIN new.cfg = DOMAIN mid.cfg
          /\ \A x \in DOMAIN mid.cfg : x # mid.at => new.cfg[x] = mid.cfg[x]
          /\ new.cfg[mid.at] = [name |-> mid.cfg[mid.at].name,
                                items |-> ReplaceItem(mid.cfg[mid.at].items, ItemOf(mid, l))]
      <3>1. l.is = "item" /\ l.name \in Texts /\ l.value \in Texts /\ mid.at # 0 /\ InMemory(mid)
        BY <1>2, <1>3, <1>4
      <3>. QED
        BY <3>1, ReadsItem, Zenon
    <2>2. mid.at = m /\ mid.cfg = from.cfg
      BY <1>3
    <2>. HIDE DEF new
    <2>. QED
      BY <2>1, <2>2
  <1>8. new = to
    <2>. DEFINE sec == [name |-> s, items |-> Append(items, NormalItem(e))]
                old == [name |-> s, items |-> items]
    <2>1. new.cfg[m] = sec
      <3>1. from.cfg[m].name = s /\ from.cfg[m].items = items
        BY <1>1
      <3>. HIDE DEF from, new, mid, l
      <3>. QED
        BY <1>5, <1>6, <1>7, <3>1
    <2>2. new.cfg = Append(c, sec)
      <3>1. new.cfg \in Seq(Sections)
        BY <1>7 DEF InMemory
      <3>2. Len(c) \in Nat /\ DOMAIN Append(c, old) = 1..m /\ \A x \in 1..Len(c) : Append(c, old)[x] = c[x]
        OBVIOUS
      <3>3. DOMAIN new.cfg = 1..m /\ \A x \in 1..Len(c) : new.cfg[x] = c[x]
        <4>1. from.cfg = Append(c, old)
          BY <1>1
        <4>2. \A x \in 1..Len(c) : x \in 1..m /\ x # m
          BY <3>2
        <4>. HIDE DEF from, new, mid, l, old
        <4>. QED
          BY <1>7, <3>2, <4>1, <4>2
      <3>. HIDE DEF sec, new
      <3>4. Len(new.cfg) = m
        BY <3>1, <3>2, <3>3
      <3>. QED
        BY <2>1, <3>1, <3>2, <3>3, <3>4
    <2>3. new = [cfg |-> new.cfg, at |-> new.at, desc |-> new.desc]
      <3>. HIDE DEF new
      <3>. QED
        BY <1>7 DEF InMemory
    <2>. QED
      BY <1>7, <2>2, <2>3 DEF Within
  <1>9. Reads(mid, <<l>>, to)
    BY <1>8, ReadsALine
  <1>10. InMemory(to)
    BY <1>7, <1>8
  <1>. HIDE DEF to, new, l
  <1>11. CASE e.desc = NoText
    <2>1. ItemLines(e) = <<>> \o <<l>>
      BY <1>11 DEF ItemLines, l
    <2>2. <<>> \o <<l>> = <<l>> /\ <<l>> \in Seq(Lines)
      BY <1>4
    <2>3. mid = from
      BY <1>1, <1>2, <1>11 DEF Within
    <2>. QED
      BY <1>9, <1>10, <2>1, <2>2, <2>3 DEF to
  <1>12. CASE e.desc # NoText
    <2>1. ItemLines(e) = <<Remark(t)>> \o <<l>>
      BY <1>12 DEF ItemLines, l
    <2>2. ReadLine(from, Remark(t)) = mid
      BY <1>1, <1>4, ReadsRemark
    <2>. HIDE DEF mid, from, t
    <2>3. Reads(from, <<Remark(t)>>, mid)
      BY <2>2, ReadsALine
    <2>4. <<Remark(t)>> \in Seq(Lines) /\ <<l>> \in Seq(Lines)
      BY <1>4
    <2>5. Reads(from, <<Remark(t)>> \o <<l>>, to)
      BY <1>9, <2>3, <2>4, ReadsBoth
    <2>6. <<Remark(t)>> \o <<l>> \in Seq(Lines)
      BY <2>4
    <2>. QED
      BY <1>10, <2>1, <2>5, <2>6 DEF to, from
  <1>. QED
    BY <1>11, <1>12

LEMMA LinesOfItem == ASSUME NEW e \in UpperItems PROVE ItemLines(e) \in Seq(Lines)
  <1>1. e.name \in Texts /\ e.value \in Texts /\ Semicolon(e.desc) \in Texts
    BY NormalTypes, UpperIs DEF UpperItems
  <1>2. Setting(e.name, e.value) \in Lines /\ Remark(Semicolon(e.desc)) \in Lines
    BY <1>1 DEF Setting, Remark, Lines
  <1>3. <<Setting(e.name, e.value)>> \in Seq(Lines) /\ <<Remark(Semicolon(e.desc))>> \in Seq(Lines)
        /\ <<>> \in Seq(Lines)
    BY <1>2
  <1>. QED
    BY <1>3 DEF ItemLines

\* Between two sections.
Between(c) == [cfg |-> c, at |-> 0, desc |-> NoText]

LEMMA HeaderReadBack ==
    ASSUME NEW c, Tidy(c), NEW s \in Uppers, \A x \in DOMAIN c : c[x].name # s
    PROVE  /\ Reads(Between(c), <<Header(s)>>, Within(c, s, <<>>))
           /\ InMemory(Within(c, s, <<>>)) /\ Header(s) \in Lines
  <1>. DEFINE l == Header(s)
              new == ReadLine(Between(c), l)
              sec == [name |-> s, items |-> <<>>]
  <1>1. c \in Seq(Sections) /\ Len(c) \in Nat /\ NoText \in Texts
    BY UpperIs DEF Tidy
  <1>2. InMemory(Between(c)) /\ Between(c).cfg = c
    BY <1>1 DEF InMemory, Between
  <1>3. l.is = "header" /\ l.name = s /\ l \in Lines /\ s \in Texts /\ Upper(s) = s
    BY UpperIs DEF Header, Lines
  <1>4. NewSection(l.name) = sec
    BY <1>3 DEF NewSection
  <1>. HIDE DEF l
  <1>5. /\ InMemory(new) /\ new.desc = NoText /\ new.cfg = Append(c, sec)
        /\ new.cfg = c \/ new.at = Len(c) + 1
    BY <1>2, <1>3, <1>4, ReadsHeader
  <1>6. new.at = Len(c) + 1
    <2>1. Append(c, sec) # c
      BY <1>1
    <2>. QED
      BY <1>5, <2>1
  <1>7. new = Within(c, s, <<>>)
    <2>1. new = [cfg |-> new.cfg, at |-> new.at, desc |-> new.desc]
      <3>. HIDE DEF new
      <3>. QED
        BY <1>5 DEF InMemory
    <2>. QED
      BY <1>5, <1>6, <2>1 DEF Within
  <1>. QED
    BY <1>3, <1>5, <1>7, ReadsALine DEF l

LEMMA SectionReadBack ==
    ASSUME NEW c, Tidy(c), NEW sec \in Sections, Unique(sec.items),
           \A x \in DOMAIN c : c[x].name # sec.name
    PROVE  /\ Reads(Between(c), SectionLines(sec), Between(Append(c, NormalSection(sec))))
           /\ Tidy(Append(c, NormalSection(sec)))
           /\ SectionLines(sec) \in Seq(Lines)
  <1>. DEFINE s == sec.name
              items == sec.items
              n == Len(items)
              f == [i \in DOMAIN items |-> ItemLines(items[i])]
              Some(i) == [j \in 1..i |-> NormalItem(items[j])]
  <1>1. /\ c \in Seq(Sections) /\ s \in Uppers /\ items \in Seq(UpperItems)
        /\ sec = [name |-> s, items |-> items]
    BY DEF Tidy, Sections
  <1>2. n \in Nat /\ DOMAIN items = 1..n /\ \A i \in 1..n : items[i] \in UpperItems
    BY <1>1
  <1>. HIDE DEF items, s
  <1>3. f \in Seq(Seq(Lines)) /\ Len(f) = n /\ \A i \in 1..n : f[i] = ItemLines(items[i])
    <2>1. \A i \in 1..n : ItemLines(items[i]) \in Seq(Lines)
      BY <1>2, LinesOfItem
    <2>. QED
      BY <1>2, <2>1
  <1>. HIDE DEF f
  <1>4. PICK fl : /\ Parts(fl, f) /\ FlattenSeq(f) = fl[n]
                  /\ \A i \in 0..n : fl[i] \in Seq(Lines)
    BY <1>3, FlatByPart
  <1>. DEFINE start == Within(c, s, <<>>)
              Good(i) == Reads(start, fl[i], Within(c, s, Some(i))) /\ InMemory(Within(c, s, Some(i)))
              T == {i \in 0..n : Good(i)}
  <1>5. Reads(Between(c), <<Header(s)>>, start) /\ InMemory(start) /\ Header(s) \in Lines
    BY <1>1, HeaderReadBack DEF s
  <1>. HIDE DEF n, start
  <1>6. 0 \in T
    <2>1. Some(0) = <<>> /\ 0 \in 0..n
      BY <1>2
    <2>2. fl[0] = <<>>
      BY <1>4 DEF Parts
    <2>3. Reads(start, <<>>, start)
      BY ReadsNone
    <2>. HIDE DEF Some
    <2>. QED
      BY <1>5, <2>1, <2>2, <2>3 DEF start
  <1>7. ASSUME NEW i \in 0..(n - 1), i \in T PROVE i + 1 \in T
    <2>1. i \in Nat /\ i + 1 \in 1..n /\ i + 1 \in 0..n
      BY <1>2
    <2>2. Good(i)
      BY <1>7
    <2>3. /\ Some(i) \in Seq(UpperItems) /\ DOMAIN Some(i) = 1..i
          /\ \A j \in 1..i : Some(i)[j].name = items[j].name
          /\ Some(i + 1) = Append(Some(i), NormalItem(items[i + 1]))
      <3>1. ASSUME NEW j \in 1..(i + 1)
            PROVE  NormalItem(items[j]) \in UpperItems /\ NormalItem(items[j]).name = items[j].name
        <4>1. items[j] \in UpperItems
          BY <1>2, <2>1
        <4>. QED
          BY <4>1, NormalTypes
      <3>2. Some(i) \in Seq(UpperItems) /\ DOMAIN Some(i) = 1..i /\ Len(Some(i)) = i
        BY <2>1, <3>1
      <3>3. \A j \in 1..i : Some(i)[j].name = items[j].name
        BY <2>1, <3>1
      <3>4. Some(i + 1) = Append(Some(i), NormalItem(items[i + 1]))
        <4>1. Some(i + 1) \in Seq(UpperItems) /\ Len(Some(i + 1)) = i + 1
          BY <2>1, <3>1
        <4>2. Append(Some(i), NormalItem(items[i + 1])) \in Seq(UpperItems)
              /\ Len(Append(Some(i), NormalItem(items[i + 1]))) = i + 1
          <5>1. NormalItem(items[i + 1]) \in UpperItems
            BY <2>1, <3>1
          <5>. HIDE DEF Some
          <5>. QED
            BY <3>2, <5>1
        <4>3. ASSUME NEW j \in 1..(i + 1)
              PROVE  Some(i + 1)[j] = Append(Some(i), NormalItem(items[i + 1]))[j]
          <5>1. CASE j \in 1..i
            <6>1. Some(i + 1)[j] = Some(i)[j]
              BY <2>1, <5>1
            <6>. HIDE DEF Some
            <6>. QED
              BY <2>1, <3>2, <5>1, <6>1
          <5>2. CASE j = i + 1
            <6>1. Some(i + 1)[j] = NormalItem(items[i + 1])
              BY <2>1, <5>2
            <6>. HIDE DEF Some
            <6>. QED
              BY <2>1, <3>2, <5>2, <6>1
          <5>. QED
            BY <2>1, <5>1, <5>2
        <4>. HIDE DEF Some
        <4>. QED
          BY <2>1, <4>1, <4>2, <4>3
      <3>. HIDE DEF Some
      <3>. QED
        BY <3>2, <3>3, <3>4
    <2>. HIDE DEF Some
    <2>4. \A j \in DOMAIN Some(i) : Some(i)[j].name # items[i + 1].name
      <3>1. Unique(items)
        BY DEF items
      <3>2. \A j \in 1..i : j \in 1..n /\ j # i + 1
        BY <2>1, <1>2
      <3>. QED
        BY <1>2, <2>1, <2>3, <3>1, <3>2 DEF Unique
    <2>5. Tidy(Append(c, [name |-> s, items |-> Some(i)]))
      BY <2>2 DEF InMemory, Within
    <2>6. /\ Reads(Within(c, s, Some(i)), ItemLines(items[i + 1]), Within(c, s, Some(i + 1)))
          /\ InMemory(Within(c, s, Some(i + 1)))
      BY <1>1, <1>2, <2>1, <2>3, <2>4, <2>5, ItemReadBack
    <2>7. fl[i + 1] = fl[i] \o ItemLines(items[i + 1]) /\ fl[i] \in Seq(Lines)
          /\ ItemLines(items[i + 1]) \in Seq(Lines)
      <3>1. fl[i + 1] = fl[i] \o f[i + 1]
        BY <1>3, <1>4 DEF Parts
      <3>2. i \in 0..n
        BY <1>2, <2>1
      <3>. QED
        BY <1>2, <1>3, <1>4, <2>1, <3>1, <3>2, LinesOfItem
    <2>8. Reads(start, fl[i + 1], Within(c, s, Some(i + 1)))
      BY <2>2, <2>6, <2>7, ReadsBoth
    <2>. QED
      BY <2>1, <2>6, <2>8
  <1>8. n \in T
    <2>1. T \in SUBSET (0..n)
      OBVIOUS
    <2>. HIDE DEF T
    <2>2. T = 0..n
      BY <1>2, <1>6, <1>7, <2>1, BoundedInduction
    <2>. QED
      BY <1>2, <2>2
  <1>9. Good(n)
    BY <1>8
  <1>10. Some(n) = NormalItems(items) /\ NormalSection(sec) = [name |-> s, items |-> Some(n)]
    <2>1. Some(n) = NormalItems(items)
      BY <1>2 DEF NormalItems
    <2>2. NormalSection(sec) = [sec EXCEPT !.items = NormalItems(items)]
      BY DEF NormalSection, items
    <2>. HIDE DEF Some
    <2>. QED
      BY <1>1, <2>1, <2>2
  <1>. DEFINE end == Within(c, s, Some(n))
              new == Append(c, NormalSection(sec))
  <1>. HIDE DEF Some, T
  <1>11. ReadLine(end, BlankLine) = Between(new)
    <2>1. BlankLine.is = "blank"
      BY DEF BlankLine
    <2>2. end = [cfg |-> new, at |-> Len(c) + 1, desc |-> NoText]
      BY <1>10 DEF Within
    <2>3. ReadLine(end, BlankLine) = [cfg |-> end.cfg, at |-> 0, desc |-> end.desc]
      BY <1>9, <2>1, ReadsBlank
    <2>. HIDE DEF end, new
    <2>. QED
      BY <2>2, <2>3 DEF Between
  <1>12. Tidy(new)
    BY <1>9, <1>10 DEF InMemory, Within
  <1>. HIDE DEF new, end
  <1>13. /\ <<Header(s)>> \in Seq(Lines) /\ <<BlankLine>> \in Seq(Lines) /\ fl[n] \in Seq(Lines)
         /\ SectionLines(sec) = <<Header(s)>> \o fl[n] \o <<BlankLine>>
    <2>1. BlankLine \in Lines
      BY DEF Lines
    <2>2. n \in 0..n
      BY <1>2
    <2>3. SectionLines(sec) = <<Header(s)>> \o FlattenSeq(f) \o <<BlankLine>>
      BY Zenon DEF SectionLines, f, s, items
    <2>. QED
      BY <1>4, <1>5, <2>1, <2>2, <2>3
  <1>14. Reads(start, fl[n], end) /\ Reads(end, <<BlankLine>>, Between(new))
    BY <1>9, <1>11, ReadsALine DEF end
  <1>. DEFINE h == <<Header(s)>>
              b == <<BlankLine>>
              from == Between(c)
              to == Between(new)
  <1>15. h \in Seq(Lines) /\ b \in Seq(Lines) /\ Reads(from, h, start) /\ Reads(end, b, to)
    BY <1>5, <1>13, <1>14
  <1>. HIDE DEF h, b, from, to
  <1>16. h \o fl[n] \in Seq(Lines) /\ (h \o fl[n]) \o b \in Seq(Lines)
    BY <1>13, <1>15
  <1>17. Reads(from, h \o fl[n], end)
    BY <1>13, <1>14, <1>15, ReadsBoth
  <1>18. Reads(from, (h \o fl[n]) \o b, to)
    BY <1>15, <1>16, <1>17, ReadsBoth
  <1>. QED
    BY <1>12, <1>13, <1>16, <1>18 DEF new, h, b, from, to

-----------------------------------------------------------------------------
(* The whole file.                                                         *)

LEMMA NormalSectionTypes ==
    ASSUME NEW sec \in Sections
    PROVE  /\ NormalSection(sec) \in Sections /\ NormalSection(sec).name = sec.name
           /\ DOMAIN NormalSection(sec).items = DOMAIN sec.items
           /\ \A i \in DOMAIN sec.items : NormalSection(sec).items[i] = NormalItem(sec.items[i])
  <1>. DEFINE items == sec.items
              new == NormalItems(items)
  <1>1. /\ sec.name \in Uppers /\ items \in Seq(UpperItems)
        /\ sec = [name |-> sec.name, items |-> items]
    BY DEF Sections
  <1>2. NormalSection(sec) = [name |-> sec.name, items |-> new]
    BY <1>1 DEF NormalSection
  <1>. HIDE DEF items
  <1>3. DOMAIN items = 1..Len(items) /\ Len(items) \in Nat /\ \A i \in 1..Len(items) : items[i] \in UpperItems
    BY <1>1
  <1>4. \A i \in 1..Len(items) : NormalItem(items[i]) \in UpperItems
    BY <1>3, NormalTypes
  <1>5. new \in Seq(UpperItems) /\ DOMAIN new = DOMAIN items
        /\ \A i \in DOMAIN items : new[i] = NormalItem(items[i])
    BY <1>3, <1>4 DEF NormalItems
  <1>. HIDE DEF new
  <1>. QED
    BY <1>1, <1>2, <1>5 DEF Sections, items

LEMMA FileReadBack ==
    ASSUME NEW cfg, Tidy(cfg)
    PROVE  cfg_write(cfg) \in Seq(Lines) /\ cfg_read(cfg_write(cfg)) = Normal(cfg)
  <1>. DEFINE n == Len(cfg)
              f == [x \in DOMAIN cfg |-> SectionLines(cfg[x])]
              Some(x) == [y \in 1..x |-> NormalSection(cfg[y])]
  <1>1. /\ cfg \in Seq(Sections) /\ n \in Nat /\ DOMAIN cfg = 1..n
        /\ \A x \in 1..n : cfg[x] \in Sections /\ Unique(cfg[x].items)
    <2>1. cfg \in Seq(Sections) /\ \A x \in DOMAIN cfg : Unique(cfg[x].items)
      BY DEF Tidy
    <2>. QED
      BY <2>1
  <1>2. \A x \in 1..n : SectionLines(cfg[x]) \in Seq(Lines)
    <2>1. Tidy(<<>>)
      BY DEF Tidy, Unique
    <2>2. ASSUME NEW x \in 1..n PROVE SectionLines(cfg[x]) \in Seq(Lines)
      <3>1. \A y \in DOMAIN << >> : << >>[y].name # cfg[x].name
        OBVIOUS
      <3>. QED
        BY <1>1, <2>1, <3>1, SectionReadBack
    <2>. QED
      BY <2>2
  <1>3. f \in Seq(Seq(Lines)) /\ Len(f) = n /\ \A x \in 1..n : f[x] = SectionLines(cfg[x])
    BY <1>1, <1>2
  <1>. HIDE DEF f
  <1>4. PICK fl : /\ Parts(fl, f) /\ FlattenSeq(f) = fl[n]
                  /\ \A x \in 0..n : fl[x] \in Seq(Lines)
    BY <1>3, FlatByPart
  <1>5. \A x \in 1..n : NormalSection(cfg[x]) \in Sections /\ NormalSection(cfg[x]).name = cfg[x].name
    BY <1>1, NormalSectionTypes
  <1>. DEFINE Good(x) == Reads(Begin, fl[x], Between(Some(x))) /\ Tidy(Some(x))
              T == {x \in 0..n : Good(x)}
  <1>. HIDE DEF n
  <1>6. 0 \in T
    <2>1. Some(0) = <<>> /\ 0 \in 0..n
      BY <1>1
    <2>2. fl[0] = <<>>
      BY <1>4 DEF Parts
    <2>3. Between(<<>>) = Begin
      BY DEF Between, Begin, cfg_create
    <2>4. Reads(Begin, <<>>, Begin)
      BY ReadsNone
    <2>5. Tidy(<<>>)
      BY DEF Tidy, Unique
    <2>. HIDE DEF Some
    <2>. QED
      BY <2>1, <2>2, <2>3, <2>4, <2>5
  <1>7. ASSUME NEW x \in 0..(n - 1), x \in T PROVE x + 1 \in T
    <2>1. x \in Nat /\ x + 1 \in 1..n /\ x + 1 \in 0..n /\ x \in 0..n /\ \A y \in 1..(x + 1) : y \in 1..n
      BY <1>1
    <2>2. Good(x)
      BY <1>7
    <2>3. /\ Some(x) \in Seq(Sections) /\ DOMAIN Some(x) = 1..x /\ Len(Some(x)) = x
          /\ \A y \in 1..x : Some(x)[y].name = cfg[y].name
      BY <2>1, <1>5
    <2>4. Some(x + 1) = Append(Some(x), NormalSection(cfg[x + 1]))
      <3>1. Some(x + 1) \in Seq(Sections) /\ Len(Some(x + 1)) = x + 1
        BY <2>1, <1>5
      <3>2. \A y \in 1..x : Some(x + 1)[y] = Some(x)[y]
        BY <2>1
      <3>3. Some(x + 1)[x + 1] = NormalSection(cfg[x + 1])
        BY <2>1
      <3>4. NormalSection(cfg[x + 1]) \in Sections
        BY <2>1, <1>5
      <3>. HIDE DEF Some
      <3>. QED
        BY <2>1, <2>3, <3>1, <3>2, <3>3, <3>4
    <2>. HIDE DEF Some
    <2>5. \A y \in DOMAIN Some(x) : Some(x)[y].name # cfg[x + 1].name
      <3>1. \A y \in 1..x : y \in 1..n /\ y # x + 1
        BY <2>1
      <3>2. Unique(cfg)
        BY DEF Tidy
      <3>. QED
        BY <1>1, <2>1, <2>3, <3>1, <3>2 DEF Unique
    <2>6. /\ Reads(Between(Some(x)), SectionLines(cfg[x + 1]), Between(Some(x + 1)))
          /\ Tidy(Some(x + 1))
      <3>1. cfg[x + 1] \in Sections /\ Unique(cfg[x + 1].items)
        BY <1>1, <2>1
      <3>. QED
        BY <2>2, <2>4, <2>5, <3>1, SectionReadBack
    <2>7. fl[x + 1] = fl[x] \o SectionLines(cfg[x + 1]) /\ fl[x] \in Seq(Lines)
          /\ SectionLines(cfg[x + 1]) \in Seq(Lines)
      <3>1. fl[x + 1] = fl[x] \o f[x + 1]
        BY <1>3, <1>4 DEF Parts
      <3>. QED
        BY <1>2, <1>3, <1>4, <2>1, <3>1
    <2>8. Reads(Begin, fl[x + 1], Between(Some(x + 1)))
      BY <2>2, <2>6, <2>7, ReadsBoth
    <2>. QED
      BY <2>1, <2>6, <2>8
  <1>8. Good(n)
    <2>1. T \in SUBSET (0..n)
      OBVIOUS
    <2>2. n \in T
      <3>. HIDE DEF T
      <3>1. T = 0..n
        BY <1>1, <1>6, <1>7, <2>1, BoundedInduction
      <3>. QED
        BY <1>1, <3>1
    <2>. QED
      BY <2>2
  <1>9. Some(n) = Normal(cfg)
    <2>1. \A x \in 1..n : NormalSection(cfg[x]) =
              [cfg[x] EXCEPT !.items =
                 [i \in DOMAIN cfg[x].items |-> [cfg[x].items[i] EXCEPT !.desc = Semicolon(@)]]]
      BY DEF NormalSection, NormalItems, NormalItem
    <2>. QED
      BY <1>1, <2>1, Zenon DEF Normal
  <1>10. cfg_write(cfg) = fl[n] /\ fl[n] \in Seq(Lines)
    <2>1. cfg_write(cfg) = FlattenSeq(f)
      BY Zenon DEF cfg_write, f
    <2>. QED
      BY <1>1, <1>4, <2>1
  <1>11. cfg_read(fl[n]) = Between(Some(n)).cfg
    <2>. HIDE DEF Some
    <2>. QED
      BY <1>8, <1>10, ReadsTo
  <1>. HIDE DEF Some
  <1>. QED
    BY <1>9, <1>10, <1>11 DEF Between

-----------------------------------------------------------------------------
(* What is written says what is in memory.                                 *)

LEMMA NormalKeepsItems ==
    ASSUME NEW cfg, Tidy(cfg), NEW s, NEW k, NEW v
    PROVE  Has(Normal(cfg), s, k, v) <=> Has(cfg, s, k, v)
  <1>. DEFINE new == Normal(cfg)
  <1>1. cfg \in Seq(Sections) /\ \A x \in DOMAIN cfg : cfg[x] \in Sections
    BY DEF Tidy
  <1>2. DOMAIN new = DOMAIN cfg /\ \A x \in DOMAIN cfg : new[x] = NormalSection(cfg[x])
    BY DEF Normal, NormalSection, NormalItems, NormalItem
  <1>. HIDE DEF new
  <1>3. ASSUME NEW x \in DOMAIN cfg
        PROVE  /\ new[x].name = cfg[x].name /\ DOMAIN new[x].items = DOMAIN cfg[x].items
               /\ \A i \in DOMAIN cfg[x].items :
                     /\ new[x].items[i].name = cfg[x].items[i].name
                     /\ new[x].items[i].value = cfg[x].items[i].value
    <2>1. /\ new[x].name = cfg[x].name /\ DOMAIN new[x].items = DOMAIN cfg[x].items
          /\ \A i \in DOMAIN cfg[x].items : new[x].items[i] = NormalItem(cfg[x].items[i])
      BY <1>1, <1>2, NormalSectionTypes
    <2>2. ASSUME NEW i \in DOMAIN cfg[x].items
          PROVE  /\ NormalItem(cfg[x].items[i]).name = cfg[x].items[i].name
                 /\ NormalItem(cfg[x].items[i]).value = cfg[x].items[i].value
      <3>1. cfg[x].items \in Seq(UpperItems)
        BY <1>1 DEF Sections
      <3>2. cfg[x].items[i] \in UpperItems
        BY <3>1
      <3>. DEFINE e == cfg[x].items[i]
                  t == Semicolon(e.desc)
      <3>. HIDE DEF e, t
      <3>3. NormalItem(e) = [name |-> e.name, value |-> e.value, desc |-> t]
        BY <3>2, NormalTypes DEF e, t
      <3>4. NormalItem(e).name = e.name /\ NormalItem(e).value = e.value
        BY <3>3
      <3>. QED
        BY <3>4 DEF e
    <2>. QED
      BY <2>1, <2>2
  <1>4. Has(new, s, k, v) => Has(cfg, s, k, v)
    BY <1>2, <1>3 DEF Has
  <1>5. Has(cfg, s, k, v) => Has(new, s, k, v)
    BY <1>2, <1>3 DEF Has
  <1>. QED
    BY <1>4, <1>5 DEF new

LEMMA SameItems ==
    ASSUME NEW c, NEW d, Tidy(c), Tidy(d), NEW s \in Uppers, NEW k \in Uppers,
           \A v : Has(c, s, k, v) <=> Has(d, s, k, v)
    PROVE  cfg_get_item(c, s, k) = cfg_get_item(d, s, k)
  <1>1. \A v : Has(c, s, k, v) <=> cfg_get_item(c, s, k) = v /\ v # Null
    BY GetsItem
  <1>2. \A v : Has(d, s, k, v) <=> cfg_get_item(d, s, k) = v /\ v # Null
    BY GetsItem
  <1>. QED
    BY <1>1, <1>2

LEMMA WrittenSays ==
    ASSUME NEW cfg, Tidy(cfg), NEW s \in Uppers, NEW k \in Uppers
    PROVE  Says(cfg_write(cfg), s, k) = cfg_get_item(cfg, s, k)
  <1>1. cfg_write(cfg) \in Seq(Lines) /\ cfg_read(cfg_write(cfg)) = Normal(cfg)
    BY FileReadBack
  <1>2. Tidy(Normal(cfg)) /\ cfg_get_item(Normal(cfg), s, k) = Says(cfg_write(cfg), s, k)
    BY <1>1, ReadsTheFile
  <1>3. cfg_get_item(Normal(cfg), s, k) = cfg_get_item(cfg, s, k)
    BY <1>2, NormalKeepsItems, SameItems
  <1>. QED
    BY <1>2, <1>3

-----------------------------------------------------------------------------
(* cfg_set_item.                                                           *)

\* A list of items has the value v for k.
InList(items, k, v) == \E i \in DOMAIN items : items[i].name = k /\ items[i].value = v

\* A section's items are replaced.
LEMMA ChangesSection ==
    ASSUME NEW c, Tidy(c), NEW x \in DOMAIN c, NEW items \in Seq(UpperItems), Unique(items)
    PROVE  LET new == [c EXCEPT ![x] = [name |-> c[x].name, items |-> items]]
           IN  /\ Tidy(new)
               /\ \A s, k, v : Has(new, s, k, v) <=>
                      IF s = c[x].name THEN InList(items, k, v) ELSE Has(c, s, k, v)
  <1>. DEFINE sec == [name |-> c[x].name, items |-> items]
              new == [c EXCEPT ![x] = sec]
  <1>1. c \in Seq(Sections) /\ c[x] \in Sections /\ Unique(c) /\ \A y \in DOMAIN c : Unique(c[y].items)
    BY DEF Tidy
  <1>2. sec \in Sections /\ sec.name = c[x].name /\ sec.items = items
    BY <1>1 DEF Sections
  <1>. HIDE DEF sec
  <1>3. /\ new \in Seq(Sections) /\ DOMAIN new = DOMAIN c /\ new[x] = sec
        /\ \A y \in DOMAIN c : y # x => new[y] = c[y]
    BY <1>1, <1>2
  <1>. HIDE DEF new
  <1>4. \A y \in DOMAIN c : new[y].name = c[y].name
    BY <1>2, <1>3
  <1>5. Unique(new) /\ \A y \in DOMAIN c : Unique(new[y].items)
    <2>1. Unique(new)
      BY <1>1, <1>3, <1>4 DEF Unique
    <2>2. \A y \in DOMAIN c : Unique(new[y].items)
      BY <1>1, <1>2, <1>3
    <2>. QED
      BY <2>1, <2>2
  <1>6. Tidy(new)
    BY <1>3, <1>5 DEF Tidy
  <1>7. ASSUME NEW s, NEW k, NEW v
        PROVE  Has(new, s, k, v) <=>
                      IF s = c[x].name THEN InList(items, k, v) ELSE Has(c, s, k, v)
    <2>1. CASE s = c[x].name
      <3>1. \A y \in DOMAIN c : new[y].name = s <=> y = x
        BY <1>1, <1>4, <2>1 DEF Unique
      <3>2. Has(new, s, k, v) <=> InList(items, k, v)
        BY <1>2, <1>3, <3>1 DEF Has, InList
      <3>. QED
        BY <2>1, <3>2
    <2>2. CASE s # c[x].name
      <3>1. \A y \in DOMAIN c : c[y].name = s => y # x /\ new[y] = c[y]
        BY <1>3, <2>2
      <3>2. \A y \in DOMAIN c : new[y].name = s => y # x /\ new[y] = c[y]
        BY <1>3, <1>4, <2>2
      <3>3. Has(new, s, k, v) => Has(c, s, k, v)
        BY <1>3, <3>2 DEF Has
      <3>4. Has(c, s, k, v) => Has(new, s, k, v)
        BY <1>3, <3>1 DEF Has
      <3>. QED
        BY <2>2, <3>3, <3>4
    <2>. QED
      BY <2>1, <2>2
  <1>. QED
    BY <1>6, <1>7 DEF new, sec

LEMMA HasSection ==
    ASSUME NEW cfg, Tidy(cfg), NEW s \in Texts
    PROVE  LET with == WithSection(cfg, s)
               x == cfg_get_section(with, s)
           IN  /\ Tidy(with) /\ x \in DOMAIN with /\ with[x].name = Upper(s)
               /\ \A t, k, v : Has(with, t, k, v) <=> Has(cfg, t, k, v)
  <1>. DEFINE with == WithSection(cfg, s)
              x == cfg_get_section(with, s)
  <1>1. cfg \in Seq(Sections) /\ Len(cfg) \in Nat /\ DOMAIN cfg = 1..Len(cfg)
    BY DEF Tidy
  <1>2. CASE cfg_get_section(cfg, s) = 0
    <2>1. with = Append(cfg, NewSection(s))
      BY <1>2 DEF WithSection, cfg_create_section, NewSection, ListAdd
    <2>2. \A y \in DOMAIN cfg : cfg[y].name # Upper(s)
      BY <1>1, <1>2, Found DEF cfg_get_section
    <2>3. Tidy(with)
      BY <2>1, <2>2, AddsSection
    <2>4. \A t, k, v : Has(with, t, k, v) <=> Has(cfg, t, k, v)
      BY <1>1, <2>1, SectionHasNone
    <2>5. Len(cfg) + 1 \in DOMAIN with /\ with[Len(cfg) + 1].name = Upper(s)
      BY <1>1, <2>1 DEF NewSection
    <2>. HIDE DEF with
    <2>6. with \in Seq(Sections) /\ Len(with) \in Nat /\ DOMAIN with = 1..Len(with)
      BY <2>3 DEF Tidy
    <2>7. x \in DOMAIN with /\ with[x].name = Upper(s)
      <3>1. x \in 0..Len(with) /\ (x = 0 <=> \A i \in DOMAIN with : with[i].name # Upper(s))
            /\ (x # 0 => with[x].name = Upper(s))
        BY <2>6, Found DEF cfg_get_section
      <3>. HIDE DEF x
      <3>. QED
        BY <2>5, <2>6, <3>1
    <2>. QED
      BY <2>3, <2>4, <2>7 DEF with
  <1>3. CASE cfg_get_section(cfg, s) # 0
    <2>1. with = cfg
      BY <1>3 DEF WithSection
    <2>. HIDE DEF with
    <2>2. x # 0 /\ x \in 0..Len(cfg) /\ with[x].name = Upper(s)
      BY <1>1, <1>3, <2>1, Found DEF cfg_get_section
    <2>. HIDE DEF x
    <2>. QED
      BY <1>1, <2>1, <2>2 DEF with, x
  <1>. QED
    BY <1>2, <1>3

\* An item's value is replaced, or there is one more item.
WithItem(items, k, v) ==
    LET i == ListFind(items, k)
    IN  IF i # 0 THEN [items EXCEPT ![i].value = v]
        ELSE Append(items, [name |-> k, value |-> v, desc |-> NoText])

LEMMA SetsItemOfList ==
    ASSUME NEW items \in Seq(UpperItems), Unique(items), NEW k \in Uppers, NEW v \in Texts
    PROVE  LET new == WithItem(items, k, v)
           IN  /\ new \in Seq(UpperItems) /\ Unique(new)
               /\ \A l, w : InList(new, l, w) <=> IF l = k THEN w = v ELSE InList(items, l, w)
  <1>. DEFINE i == ListFind(items, k)
              n == Len(items)
              new == WithItem(items, k, v)
              Had(l, w) == InList(items, l, w)
              Now(l, w) == InList(new, l, w)
  <1>1. n \in Nat /\ DOMAIN items = 1..n /\ \A j \in 1..n : items[j] \in UpperItems
    OBVIOUS
  <1>2. /\ i \in 0..n /\ (i = 0 <=> \A j \in DOMAIN items : items[j].name # k)
        /\ (i # 0 => items[i].name = k)
    BY Found
  <1>3. CASE i # 0
    <2>. DEFINE e == [items[i] EXCEPT !.value = v]
    <2>1. new = [items EXCEPT ![i] = e]
      BY <1>3 DEF WithItem
    <2>. HIDE DEF i
    <2>2. i \in 1..n /\ items[i] \in UpperItems
      BY <1>1, <1>2, <1>3
    <2>3. e \in UpperItems /\ e.name = k /\ e.value = v
      BY <1>2, <1>3, <2>2 DEF UpperItems
    <2>. HIDE DEF e
    <2>4. /\ new \in Seq(UpperItems) /\ DOMAIN new = 1..n /\ new[i] = e
          /\ \A j \in 1..n : j # i => new[j] = items[j]
      BY <1>1, <2>1, <2>2, <2>3
    <2>. HIDE DEF new, n
    <2>5. \A j \in 1..n : new[j].name = items[j].name
      BY <1>2, <1>3, <2>3, <2>4
    <2>6. Unique(new)
      BY <1>1, <2>4, <2>5 DEF Unique
    <2>7. \A j \in 1..n : items[j].name = k <=> j = i
      BY <1>1, <1>2, <1>3, <2>2 DEF Unique
    <2>8. ASSUME NEW l, NEW w PROVE Now(l, w) <=> IF l = k THEN w = v ELSE Had(l, w)
      <3>1. CASE l = k
        <4>1. Now(l, w) => w = v
          BY <2>3, <2>4, <2>5, <2>7, <3>1 DEF InList
        <4>2. w = v => Now(l, w)
          BY <2>2, <2>3, <2>4, <3>1 DEF InList
        <4>. QED
          BY <3>1, <4>1, <4>2
      <3>2. CASE l # k
        <4>1. \A j \in 1..n : items[j].name = l => new[j] = items[j]
          BY <2>4, <2>7, <3>2
        <4>2. \A j \in 1..n : new[j].name = l => new[j] = items[j]
          BY <2>5, <4>1
        <4>3. Now(l, w) => Had(l, w)
          BY <1>1, <2>4, <4>2 DEF InList
        <4>4. Had(l, w) => Now(l, w)
          BY <1>1, <2>4, <4>1 DEF InList
        <4>. QED
          BY <3>2, <4>3, <4>4
      <3>. QED
        BY <3>1, <3>2
    <2>. HIDE DEF Had, Now
    <2>9. new \in Seq(UpperItems) /\ Unique(new)
      BY <2>4, <2>6
    <2>. QED
      BY <2>8, <2>9, Zenon DEF new, Had, Now
  <1>4. CASE i = 0
    <2>. DEFINE e == [name |-> k, value |-> v, desc |-> NoText]
    <2>1. new = Append(items, e)
      BY <1>4 DEF WithItem
    <2>2. e \in UpperItems /\ e.name = k /\ e.value = v
      BY UpperIs DEF UpperItems
    <2>. HIDE DEF e
    <2>3. /\ new \in Seq(UpperItems) /\ DOMAIN new = 1..(n + 1) /\ new[n + 1] = e
          /\ \A j \in 1..n : new[j] = items[j]
      BY <1>1, <2>1, <2>2
    <2>4. \A j \in 1..n : items[j].name # k
      BY <1>1, <1>2, <1>4
    <2>. HIDE DEF new, n, i
    <2>5. Unique(new)
      <3>. SUFFICES ASSUME NEW a \in 1..(n + 1), NEW b \in 1..(n + 1), new[a].name = new[b].name
                    PROVE  a = b
        BY <2>3 DEF Unique
      <3>1. CASE a \in 1..n /\ b \in 1..n
        BY <1>1, <2>3, <3>1 DEF Unique
      <3>2. CASE ~(a \in 1..n /\ b \in 1..n)
        BY <1>1, <2>2, <2>3, <2>4, <3>2
      <3>. QED
        BY <3>1, <3>2
    <2>6. ASSUME NEW l, NEW w PROVE Now(l, w) <=> IF l = k THEN w = v ELSE Had(l, w)
      <3>1. n + 1 \in 1..(n + 1) /\ \A j \in 1..(n + 1) : j \in 1..n \/ j = n + 1
        BY <1>1
      <3>2. CASE l = k
        <4>1. Now(l, w) => w = v
          BY <2>2, <2>3, <2>4, <3>1, <3>2 DEF InList
        <4>2. w = v => Now(l, w)
          BY <2>2, <2>3, <3>1, <3>2 DEF InList
        <4>. QED
          BY <3>2, <4>1, <4>2
      <3>3. CASE l # k
        <4>1. Now(l, w) => Had(l, w)
          BY <1>1, <2>2, <2>3, <3>1, <3>3 DEF InList
        <4>2. Had(l, w) => Now(l, w)
          <5>1. \A j \in 1..n : j \in 1..(n + 1)
            BY <1>1
          <5>. QED
            BY <1>1, <2>3, <5>1 DEF InList
        <4>. QED
          BY <3>3, <4>1, <4>2
      <3>. QED
        BY <3>2, <3>3
    <2>. HIDE DEF Had, Now
    <2>. QED
      BY <2>3, <2>5, <2>6, Zenon DEF new, Had, Now
  <1>. QED
    BY <1>3, <1>4

LEMMA SetsItem ==
    ASSUME NEW cfg, Tidy(cfg), NEW s \in Texts, NEW k \in Texts, NEW v \in Texts
    PROVE  LET new == cfg_set_item(cfg, s, k, v)
           IN  /\ Tidy(new)
               /\ \A t, l \in Uppers :
                     cfg_get_item(new, t, l) =
                         IF t = Upper(s) /\ l = Upper(k) THEN v ELSE cfg_get_item(cfg, t, l)
  <1>. DEFINE with == WithSection(cfg, s)
              x == cfg_get_section(with, s)
              items == with[x].items
              some == WithItem(items, Upper(k), v)
              sec == [name |-> with[x].name, items |-> some]
              new == [with EXCEPT ![x] = sec]
  <1>1. /\ Tidy(with) /\ x \in DOMAIN with /\ with[x].name = Upper(s)
        /\ \A t, l, w : Has(with, t, l, w) <=> Has(cfg, t, l, w)
    BY HasSection, Zenon
  <1>. HIDE DEF with, x
  <1>2. /\ with[x] = [name |-> with[x].name, items |-> items]
        /\ items \in Seq(UpperItems) /\ Unique(items) /\ with \in Seq(Sections)
    <2>1. with \in Seq(Sections) /\ \A y \in DOMAIN with : Unique(with[y].items)
      BY <1>1 DEF Tidy
    <2>2. with[x] \in Sections
      BY <1>1, <2>1
    <2>. QED
      BY <1>1, <2>1, <2>2 DEF Sections
  <1>3. Upper(k) \in Uppers
    BY UpperIs
  <1>4. cfg_set_item(cfg, s, k, v) = new
    <2>1. cfg # NoCfg
      BY TidyIsSome
    <2>. DEFINE i == ListFind(items, Upper(k))
    <2>2. cfg_set_item(cfg, s, k, v) =
              IF i # 0 THEN [with EXCEPT ![x].items[i].value = v]
              ELSE [with EXCEPT ![x].items = Append(@, [name |-> Upper(k), value |-> v, desc |-> NoText])]
      BY <2>1, Zenon DEF cfg_set_item, ListAdd, with, x
    <2>3. some = IF i # 0 THEN [items EXCEPT ![i].value = v]
                 ELSE Append(items, [name |-> Upper(k), value |-> v, desc |-> NoText])
      BY DEF WithItem
    <2>. HIDE DEF i, some
    <2>4. CASE i # 0
      <3>1. some = [items EXCEPT ![i].value = v]
        BY <2>3, <2>4
      <3>2. cfg_set_item(cfg, s, k, v) = [with EXCEPT ![x].items[i].value = v]
        BY <2>2, <2>4
      <3>3. [with[x] EXCEPT !.items[i].value = v] = sec
        <4>1. [with[x] EXCEPT !.items[i].value = v] =
                  [name |-> with[x].name, items |-> [items EXCEPT ![i].value = v]]
          <5>. DEFINE old == with[x]
                      n == with[x].name
          <5>1. old = [name |-> n, items |-> items]
            BY <1>2
          <5>. HIDE DEF items, sec, old, n
          <5>2. [old EXCEPT !.items[i].value = v] =
                    [name |-> n, items |-> [items EXCEPT ![i].value = v]]
            BY <5>1
          <5>. QED
            BY <5>2 DEF old, n
        <4>. QED
          BY <3>1, <4>1
      <3>. QED
        BY <3>2, <3>3
    <2>5. CASE i = 0
      <3>1. some = Append(items, [name |-> Upper(k), value |-> v, desc |-> NoText])
        BY <2>3, <2>5
      <3>2. cfg_set_item(cfg, s, k, v) =
                [with EXCEPT ![x].items = Append(@, [name |-> Upper(k), value |-> v, desc |-> NoText])]
        BY <2>2, <2>5
      <3>3. [with[x] EXCEPT !.items = Append(@, [name |-> Upper(k), value |-> v, desc |-> NoText])] = sec
        <4>. DEFINE e == [name |-> Upper(k), value |-> v, desc |-> NoText]
        <4>. HIDE DEF e
        <4>1. [with[x] EXCEPT !.items = Append(@, e)] =
                  [name |-> with[x].name, items |-> Append(items, e)]
          <5>. DEFINE old == with[x]
                      n == with[x].name
          <5>1. old = [name |-> n, items |-> items]
            BY <1>2
          <5>. HIDE DEF items, sec, old, n
          <5>2. [old EXCEPT !.items = Append(@, e)] = [name |-> n, items |-> Append(items, e)]
            BY <5>1
          <5>. QED
            BY <5>2 DEF old, n
        <4>. QED
          BY <3>1, <4>1 DEF e
      <3>. QED
        BY <3>2, <3>3
    <2>. QED
      BY <2>4, <2>5
  <1>5. /\ some \in Seq(UpperItems) /\ Unique(some)
        /\ \A l, w : InList(some, l, w) <=> IF l = Upper(k) THEN w = v ELSE InList(items, l, w)
    <2>. HIDE DEF items
    <2>. QED
      BY <1>2, <1>3, SetsItemOfList
  <1>. HIDE DEF some
  <1>6. /\ Tidy(new)
        /\ \A t, l, w : Has(new, t, l, w) <=>
               IF t = with[x].name THEN InList(some, l, w) ELSE Has(with, t, l, w)
    BY <1>1, <1>5, ChangesSection, Zenon
  <1>. HIDE DEF new, items
  <1>7. \A l, w : Has(with, with[x].name, l, w) <=> InList(items, l, w)
    <2>1. \A y \in DOMAIN with : with[y].name = with[x].name => y = x
      BY <1>1 DEF Tidy, Unique
    <2>. QED
      BY <1>1, <2>1 DEF Has, InList, items
  <1>8. ASSUME NEW t \in Uppers, NEW l \in Uppers
        PROVE  cfg_get_item(new, t, l) =
                   IF t = Upper(s) /\ l = Upper(k) THEN v ELSE cfg_get_item(cfg, t, l)
    <2>1. \A w : Has(new, t, l, w) <=> IF t = Upper(s) /\ l = Upper(k) THEN w = v ELSE Has(cfg, t, l, w)
      <3>1. CASE t = Upper(s)
        <4>1. t = with[x].name
          BY <1>1, <3>1
        <4>2. ASSUME NEW w
              PROVE  Has(new, t, l, w) <=> IF l = Upper(k) THEN w = v ELSE InList(items, l, w)
          BY <1>5, <1>6, <4>1
        <4>3. ASSUME NEW w PROVE Has(cfg, t, l, w) <=> InList(items, l, w)
          BY <1>1, <1>7, <4>1
        <4>. QED
          BY <3>1, <4>2, <4>3
      <3>2. CASE t # Upper(s)
        BY <1>1, <1>6, <3>2
      <3>. QED
        BY <3>1, <3>2
    <2>2. \A w : Has(new, t, l, w) <=> cfg_get_item(new, t, l) = w /\ w # Null
      BY <1>6, GetsItem
    <2>3. \A w : Has(cfg, t, l, w) <=> cfg_get_item(cfg, t, l) = w /\ w # Null
      BY GetsItem
    <2>4. v # Null
      BY DEF Texts
    <2>. QED
      BY <2>1, <2>2, <2>3, <2>4
  <1>. QED
    BY <1>4, <1>6, <1>8

-----------------------------------------------------------------------------
(* Lines of some kind.                                                     *)

LEMMA FlatIn ==
    ASSUME NEW S, NEW f \in Seq(Seq(S))
    PROVE  FlattenSeq(f) \in Seq(S)
  <1>1. PICK fl : /\ Parts(fl, f) /\ FlattenSeq(f) = fl[Len(f)]
                  /\ \A i \in 0..Len(f) : fl[i] \in Seq(S)
    BY FlatByPart
  <1>2. Len(f) \in 0..Len(f)
    OBVIOUS
  <1>. QED
    BY <1>1, <1>2

\* When all the lines of the items are of a kind, so are those that are written.
LEMMA WrittenIn ==
    ASSUME NEW S, NEW cfg, Tidy(cfg), BlankLine \in S,
           \A x \in DOMAIN cfg :
              /\ Header(cfg[x].name) \in S
              /\ \A i \in DOMAIN cfg[x].items : ItemLines(cfg[x].items[i]) \in Seq(S)
    PROVE  cfg_write(cfg) \in Seq(S)
  <1>1. cfg \in Seq(Sections) /\ DOMAIN cfg = 1..Len(cfg) /\ Len(cfg) \in Nat
    BY DEF Tidy
  <1>2. ASSUME NEW x \in DOMAIN cfg PROVE SectionLines(cfg[x]) \in Seq(S)
    <2>. DEFINE items == cfg[x].items
                f == [i \in DOMAIN items |-> ItemLines(items[i])]
    <2>1. items \in Seq(UpperItems)
      <3>1. cfg[x] \in Sections
        BY <1>1, <1>2
      <3>. QED
        BY <3>1 DEF Sections
    <2>2. \A i \in DOMAIN items : ItemLines(items[i]) \in Seq(S)
      OBVIOUS
    <2>3. f \in Seq(Seq(S))
      <3>. HIDE DEF items
      <3>. QED
        BY <2>1, <2>2
    <2>4. SectionLines(cfg[x]) = <<Header(cfg[x].name)>> \o FlattenSeq(f) \o <<BlankLine>>
      BY Zenon DEF SectionLines
    <2>. HIDE DEF f
    <2>5. FlattenSeq(f) \in Seq(S)
      BY <2>3, FlatIn
    <2>6. <<Header(cfg[x].name)>> \in Seq(S) /\ <<BlankLine>> \in Seq(S)
      OBVIOUS
    <2>. QED
      BY <2>4, <2>5, <2>6
  <1>. DEFINE g == [x \in DOMAIN cfg |-> SectionLines(cfg[x])]
  <1>3. g \in Seq(Seq(S))
    BY <1>1, <1>2
  <1>. QED
    BY <1>3, FlatIn, Zenon DEF cfg_write

==============================================================================
