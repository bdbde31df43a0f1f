--------------------------- MODULE BarStoreProofs ---------------------------
(* Theorems about the stored bars, for any calendar, any requests and any    *)
(* number of backtests at a time.                                            *)
EXTENDS BarStore, CountingLemmas, FiniteSetTheorems, SequenceTheorems, TLAPS

Widths == {"daily", "intraday"}

----------------------------------------------------------------------------
(* The calendar                                                            *)

LEMMA DivMonotone ==
  ASSUME NEW k \in Nat \ {0}, NEW x \in Int, NEW y \in Int, x <= y
  PROVE  x \div k <= y \div k
  OBVIOUS

LEMMA TimeFacts ==
  /\ Times \subseteq Nat /\ 0 \in Times
  /\ \A t \in Times : Day(t) \in Nat /\ UtcDay(t) \in Nat /\ Day(t) <= UtcDay(t)
  /\ \A s, t \in Times : s <= t => Day(s) <= Day(t) /\ UtcDay(s) <= UtcDay(t)
  BY CalendarAssumption DEF Times, Day, UtcDay

LEMMA BarFacts ==
  ASSUME NEW k
  PROVE  /\ Bars(k) \subseteq Times /\ Bars(k) \subseteq Int
         /\ \A S \in SUBSET Bars(k) : IsFiniteSet(S)
  <1>1. Bars(k) \subseteq Times
    BY DEF Bars
  <1>2. IsFiniteSet(Times)
    <2>1. 0 \in Int /\ 3 * LastDay + 2 \in Int
      BY CalendarAssumption
    <2>. QED BY <2>1, FS_Interval DEF Times
  <1>3. \A S \in SUBSET Bars(k) : IsFiniteSet(S)
    <2> SUFFICES ASSUME NEW S \in SUBSET Bars(k) PROVE IsFiniteSet(S)
      OBVIOUS
    <2>1. S \in SUBSET Times
      BY <1>1
    <2>. QED BY <1>2, <2>1, FS_Subset
  <1>4. Times \subseteq Int
    BY TimeFacts
  <1>. QED
    BY <1>1, <1>3, <1>4

\* A bar whose day is over, in UTC, at t is final.
LEMMA OverIsFinal ==
  ASSUME NEW k \in Widths, NEW b \in Bars(k), NEW t \in Times, Day(b) < UtcDay(t)
  PROVE  Quality(k, b, t) = "final"
  BY TimeFacts DEF Widths, Bars, Times, Day, UtcDay, Quality, Ends

LEMMA MonthMonotone ==
  ASSUME NEW d \in Int, NEW e \in Int, d <= e
  PROVE  Month(d) \in Int /\ Month(e) \in Int /\ Month(d) <= Month(e)
  BY LimitAssumption, DivMonotone DEF Month

----------------------------------------------------------------------------
(* Series                                                                  *)

\* Max and Min of a finite set of integers are elements that bound the others.
LEMMA ExtremeFacts ==
  ASSUME NEW S \in SUBSET Int, IsFiniteSet(S), S # {}
  PROVE  /\ Max(S) \in S /\ \A x \in S : x <= Max(S)
         /\ Min(S) \in S /\ \A x \in S : Min(S) <= x
  <1> DEFINE s == Ascending(S)
  <1>1. s \in Seq(S) /\ Ordered(s) /\ ToSet(s) = S
    BY AscendingFacts
  <1>. HIDE DEF s
  <1>11. DOMAIN s = 1 .. Len(s) /\ Len(s) \in Nat
    BY <1>1
  <1>2. \A x \in S : \E i \in 1 .. Len(s) : x = s[i]
    BY <1>1, <1>11 DEF ToSet
  <1>3. 1 .. Len(s) # {}
    BY <1>2
  <1>31. Len(s) \in Nat \ {0} /\ 1 \in 1 .. Len(s) /\ Len(s) \in 1 .. Len(s)
    BY <1>11, <1>3
  <1>32. \A i \in 1 .. Len(s) : s[i] \in S /\ s[i] \in Int
    <2>1. \A i \in 1 .. Len(s) : s[i] \in S
      BY <1>1, <1>11
    <2>. QED BY <2>1
  <1>33. \A i, j \in 1 .. Len(s) : i < j => s[i] < s[j]
    BY <1>1, <1>11 DEF Ordered
  <1>4. s[1] \in S /\ \A x \in S : s[1] <= x
    <2>1. \A i \in 1 .. Len(s) : i = 1 \/ 1 < i
      BY <1>11
    <2>2. \A i \in 1 .. Len(s) : s[1] <= s[i]
      BY <1>31, <1>32, <1>33, <2>1
    <2>. QED BY <1>2, <1>31, <1>32, <2>2
  <1>5. s[Len(s)] \in S /\ \A x \in S : x <= s[Len(s)]
    <2> DEFINE n == Len(s)
    <2>0. n \in Nat
      BY <1>11
    <2>. HIDE DEF n
    <2>3. \A i \in 1 .. n : i = n \/ i < n
      BY <2>0
    <2>1. \A i \in 1 .. Len(s) : i = Len(s) \/ i < Len(s)
      BY <2>3 DEF n
    <2>2. \A i \in 1 .. Len(s) : s[i] <= s[Len(s)]
      BY <1>31, <1>32, <1>33, <2>1
    <2>. QED BY <1>2, <1>31, <1>32, <2>2
  <1>6. \E x \in S : \A y \in S : x >= y
    BY <1>5
  <1>7. \E x \in S : \A y \in S : x <= y
    BY <1>4
  <1>. QED
    BY <1>6, <1>7 DEF Max, Min

\* Two ordered series, the first below the second.
LEMMA JoinFacts ==
  ASSUME NEW B \in SUBSET Int, NEW s \in Seq(B), NEW t \in Seq(B), Ordered(s), Ordered(t),
         \A i \in DOMAIN s, j \in DOMAIN t : s[i] < t[j]
  PROVE  /\ s \o t \in Seq(B)
         /\ Ordered(s \o t)
         /\ ToSet(s \o t) = ToSet(s) \cup ToSet(t)
  <1> DEFINE m == Len(s)
             n == Len(t)
             u == s \o t
  <1>1. /\ u \in Seq(B) /\ DOMAIN u = 1 .. (m + n) /\ m \in Nat /\ n \in Nat
        /\ \A i \in 1 .. m : u[i] = s[i]
        /\ \A i \in (m + 1) .. (m + n) : u[i] = t[i - m]
    OBVIOUS
  <1>2. DOMAIN s = 1 .. m /\ DOMAIN t = 1 .. n
    OBVIOUS
  <1>0. m \in Nat /\ n \in Nat
    OBVIOUS
  <1>. HIDE DEF u, m, n
  <1>3. Ordered(u)
    <2> SUFFICES ASSUME NEW i \in 1 .. (m + n), NEW j \in 1 .. (m + n), i < j PROVE u[i] < u[j]
      BY <1>1 DEF Ordered
    <2>1. CASE j <= m
      <3>1. i \in 1 .. m /\ j \in 1 .. m
        BY <1>0, <2>1
      <3>. QED BY <1>1, <1>2, <3>1 DEF Ordered
    <2>2. CASE i <= m /\ m < j
      <3>1. j - m \in 1 .. n /\ i \in 1 .. m /\ j \in (m + 1) .. (m + n)
        BY <1>0, <2>2
      <3>2. u[i] = s[i] /\ u[j] = t[j - m]
        BY <1>1, <3>1
      <3>. QED BY <1>2, <3>1, <3>2
    <2>3. CASE m < i
      <3>1. /\ j - m \in 1 .. n /\ i - m \in 1 .. n /\ i - m < j - m
            /\ i \in (m + 1) .. (m + n) /\ j \in (m + 1) .. (m + n)
        BY <1>0, <2>3
      <3>2. u[i] = t[i - m] /\ u[j] = t[j - m]
        BY <1>1, <3>1
      <3>. QED BY <1>2, <3>1, <3>2 DEF Ordered
    <2>. QED BY <1>0, <2>1, <2>2, <2>3
  <1>4. ToSet(u) = ToSet(s) \cup ToSet(t)
    <2>1. ASSUME NEW i \in 1 .. (m + n) PROVE u[i] \in ToSet(s) \cup ToSet(t)
      <3>1. CASE i <= m
        BY <1>1, <1>2, <3>1 DEF ToSet
      <3>2. CASE m < i
        <4>1. i - m \in 1 .. n /\ i \in (m + 1) .. (m + n)
          BY <1>0, <3>2
        <4>2. u[i] = t[i - m]
          BY <1>1, <4>1
        <4>. QED BY <1>2, <4>1, <4>2 DEF ToSet
      <3>. QED BY <1>0, <3>1, <3>2
    <2>2. ASSUME NEW i \in 1 .. m PROVE s[i] \in ToSet(u)
      <3>1. i \in 1 .. (m + n)
        BY <1>0
      <3>2. u[i] = s[i] /\ i \in DOMAIN u
        BY <1>1, <3>1
      <3>. QED BY <3>2 DEF ToSet
    <2>3. ASSUME NEW i \in 1 .. n PROVE t[i] \in ToSet(u)
      <3>1. m + i \in (m + 1) .. (m + n) /\ (m + i) - m = i
        BY <1>0
      <3>2. u[m + i] = t[i] /\ m + i \in DOMAIN u
        BY <1>1, <3>1
      <3>. QED BY <3>2 DEF ToSet
    <2>. QED BY <1>1, <1>2, <2>1, <2>2, <2>3 DEF ToSet
  <1>. QED
    BY <1>1, <1>3, <1>4 DEF u, m, n

LEMMA ExtremesOfTwo ==
  ASSUME NEW a \in Int, NEW b \in Int
  PROVE  /\ Max({a, b}) \in Int /\ a <= Max({a, b}) /\ b <= Max({a, b})
         /\ Min({a, b}) \in Int /\ Min({a, b}) <= a /\ Min({a, b}) <= b
  <1>1. IsFiniteSet({a, b})
    <2>1. IsFiniteSet({a})
      BY FS_Singleton
    <2>2. {a, b} = {a} \cup {b}
      OBVIOUS
    <2>. QED BY <2>1, <2>2, FS_AddElement
  <1>2. {a, b} \in SUBSET Int /\ {a, b} # {}
    OBVIOUS
  <1>3. \A x \in {a, b} : x <= Max({a, b}) /\ Min({a, b}) <= x
    BY <1>1, <1>2, ExtremeFacts
  <1>4. Max({a, b}) \in {a, b} /\ Min({a, b}) \in {a, b}
    BY <1>1, <1>2, ExtremeFacts
  <1>. QED BY <1>3, <1>4

----------------------------------------------------------------------------
(* Windows and downloads                                                   *)

Quals == {"final", "forming"}
Worths == {"final", "forming", "incomplete"}
RowsOf(k, V) == UNION {[S -> V] : S \in SUBSET Bars(k)}
RowSet(k) == RowsOf(k, Quals)
Answers(k) == RowsOf(k, Worths)

LEMMA UsableType ==
  ASSUME NEW today \in Int
  PROVE  Usable(today) \in Int
  <1>1. MaxDays - BufferDays \in Int
    BY LimitAssumption
  <1>. DEFINE a == 1
              b == MaxDays - BufferDays
  <1>2. a \in Int /\ b \in Int
    BY <1>1
  <1>. HIDE DEF a, b
  <1>3. Max({a, b}) \in Int
    BY <1>2, ExtremesOfTwo
  <1>4. Max({1, MaxDays - BufferDays}) \in Int
    BY <1>3 DEF a, b
  <1>. QED BY <1>4 DEF Usable

LEMMA WindowType ==
  ASSUME NEW k, NEW req \in Requests, NEW today \in Int
  PROVE  Window(k, req, today) \in Windows
  <1>1. req.start \in Int /\ req.end \in Int /\ req.warmup \in Nat
    BY StoreAssumption
  <1>2. \A w \in Int : FetchStart(req, w) \in Int
    BY <1>1, LimitAssumption DEF FetchStart
  <1>3. CapWarmup(req) \in Int
    <2> DEFINE W == {w \in 0 .. req.warmup : SpanDays(req, w) <= MaxDays}
    <2>1. IsFiniteSet(0 .. req.warmup)
      BY <1>1, FS_Interval
    <2>2. W \in SUBSET (0 .. req.warmup)
      OBVIOUS
    <2>3. IsFiniteSet(W)
      BY <2>1, <2>2, FS_Subset
    <2>4. W \cup {0} = {0} \cup W
      OBVIOUS
    <2>5. IsFiniteSet({0} \cup W)
      BY <2>3, <2>4, FS_AddElement
    <2>6. {0} \cup W \in SUBSET Int /\ {0} \cup W # {}
      BY <1>1
    <2>7. Max({0} \cup W) \in {0} \cup W
      BY <2>5, <2>6, ExtremeFacts
    <2>. QED BY <2>6, <2>7 DEF CapWarmup
  <1>4. Max({FetchStart(req, CapWarmup(req)), Usable(today)}) \in Int
    BY <1>2, <1>3, UsableType, ExtremesOfTwo
  <1>5. FetchStart(req, req.warmup) \in Int
    BY <1>1, <1>2
  <1>. QED
    BY <1>1, <1>4, <1>5 DEF Window, Windows

\* The bars of an answer are of the days asked for; what each is worth depends
\* on the time of the answer, unless it came incomplete.
LEMMA YahooFacts ==
  ASSUME NEW k \in Widths, NEW from \in Int, NEW to \in Int, NEW today \in Int,
         NEW t \in Times, NEW rows \in Yahoo(k, from, to, today, t)
  PROVE  /\ rows \in Answers(k)
         /\ \A b \in DOMAIN rows :
               /\ b \in Bars(k) /\ from <= Day(b) /\ Day(b) < to
               /\ rows[b] \in {Quality(k, b, t), "incomplete"}
  <1> DEFINE clipped == Max({from, Usable(today)})
             pieces == UNION {DownloadBars(k, c[1], c[2], t) : c \in Chunks(clipped, to)}
             answer == IF k = "daily" THEN DownloadBars(k, from, to, t) ELSE pieces
  <1>1. \E holes \in SUBSET (answer \cap Patchy) :
           rows = [b \in answer |-> IF b \in holes THEN "incomplete" ELSE Quality(k, b, t)]
    BY DEF Yahoo
  <1>2. clipped \in Int /\ from <= clipped
    <2>. DEFINE u == Usable(today)
    <2>2. u \in Int
      BY UsableType
    <2>. HIDE DEF u
    <2>3. Max({from, u}) \in Int /\ from <= Max({from, u})
      BY <2>2, ExtremesOfTwo
    <2>. QED BY <2>3 DEF u
  <1>3. \A b \in answer : b \in Bars(k) /\ from <= Day(b) /\ Day(b) < to
    <2>1. \A b \in DownloadBars(k, from, to, t) : b \in Bars(k) /\ from <= Day(b) /\ Day(b) < to
      BY DEF DownloadBars
    <2>2. ASSUME NEW b \in pieces
          PROVE  b \in Bars(k) /\ from <= Day(b) /\ Day(b) < to
      <3>. HIDE DEF clipped
      <3>1. PICK c \in Chunks(clipped, to) : b \in DownloadBars(k, c[1], c[2], t)
        OBVIOUS
      <3>2. PICK d \in clipped .. to - 1 : c = <<d, Min({d + ChunkDays, to})>>
        BY <3>1 DEF Chunks
      <3>3. c[1] \in Int /\ c[2] \in Int /\ clipped <= c[1] /\ c[2] <= to
        <4>. DEFINE e == d + ChunkDays
        <4>1. d \in Int /\ clipped <= d /\ e \in Int
          BY <1>2, LimitAssumption
        <4>. HIDE DEF e
        <4>2. Min({e, to}) \in Int /\ Min({e, to}) <= to
          BY <4>1, ExtremesOfTwo
        <4>3. c = <<d, Min({e, to})>>
          BY <3>2 DEF e
        <4>. QED BY <4>1, <4>2, <4>3
      <3>4. b \in Bars(k) /\ c[1] <= Day(b) /\ Day(b) < c[2]
        BY <3>1 DEF DownloadBars
      <3>5. Day(b) \in Int
        BY <3>4, BarFacts, TimeFacts
      <3>. QED BY <1>2, <3>3, <3>4, <3>5
    <2>. QED BY <2>1, <2>2
  <1>4. \A b \in answer : Quality(k, b, t) \in Quals
    BY DEF Quality, Quals
  <1>5. answer \in SUBSET Bars(k)
    BY <1>3
  <1>. HIDE DEF answer
  <1>6. /\ DOMAIN rows = answer /\ rows = [b \in answer |-> rows[b]]
        /\ \A b \in answer : rows[b] \in {Quality(k, b, t), "incomplete"}
    BY <1>1
  <1>7. \A b \in answer : rows[b] \in Worths
    BY <1>4, <1>6 DEF Quals, Worths
  <1>8. rows \in [answer -> Worths]
    BY <1>6, <1>7
  <1>. QED
    BY <1>3, <1>5, <1>6, <1>8 DEF Answers, RowsOf

LEMMA NoRows ==
  ASSUME NEW k
  PROVE  <<>> \in RowSet(k) /\ <<>> \in Answers(k) /\ DOMAIN <<>> = {}
  <1>1. <<>> \in [{} -> Quals] /\ <<>> \in [{} -> Worths]
    OBVIOUS
  <1>2. {} \in SUBSET Bars(k)
    OBVIOUS
  <1>. QED BY <1>1, <1>2 DEF RowSet, Answers, RowsOf

LEMMA SomeRow ==
  ASSUME NEW k, NEW f \in RowSet(k), f # <<>>
  PROVE  DOMAIN f # {}
  <1>1. PICK S \in SUBSET Bars(k) : f \in [S -> Quals]
    BY DEF RowSet, RowsOf
  <1>2. CASE S = {}
    BY <1>1, <1>2
  <1>. QED BY <1>1, <1>2

\* A table that grew: what was stored is still there, unchanged.
Grown(d, e) == DOMAIN d \subseteq DOMAIN e /\ \A b \in DOMAIN d : e[b] = d[b]

\* save_bars stores the complete rows of an answer that are not there yet.
LEMMA SaveFacts ==
  ASSUME NEW k, db \in RowSet(k), NEW rows \in Answers(k)
  PROVE  /\ Save(rows) \in RowSet(k)
         /\ Grown(db, Save(rows))
         /\ \A b \in DOMAIN rows : rows[b] # "incomplete" => b \in DOMAIN Save(rows)
         /\ \A b \in DOMAIN Save(rows) \ DOMAIN db : b \in DOMAIN rows /\ Save(rows)[b] = rows[b]
  <1>1. PICK S \in SUBSET Bars(k) : db \in [S -> Quals]
    BY DEF RowSet, RowsOf
  <1>2. PICK R \in SUBSET Bars(k) : rows \in [R -> Worths]
    BY DEF Answers, RowsOf
  <1>. DEFINE C == Complete(rows)
  <1>3. /\ C \subseteq R /\ \A b \in C : rows[b] \in Quals
        /\ \A b \in DOMAIN rows : rows[b] # "incomplete" => b \in C
    BY <1>2 DEF Complete, Quals, Worths
  <1>. HIDE DEF C
  <1>4. Save(rows) = [b \in S \cup C |-> IF b \in S THEN db[b] ELSE rows[b]]
    BY <1>1 DEF Save, C
  <1>5. Save(rows) \in [S \cup C -> Quals]
    BY <1>1, <1>3, <1>4
  <1>6. S \cup C \in SUBSET Bars(k)
    BY <1>2, <1>3
  <1>7. Save(rows) \in RowSet(k)
    BY <1>5, <1>6 DEF RowSet, RowsOf
  <1>. QED
    BY <1>1, <1>2, <1>3, <1>4, <1>7 DEF Grown

\* What the memory cache keeps of its entries.
LEMMA PutFacts ==
  ASSUME NEW E, NEW m \in Seq(E), Len(m) <= MemMax, NEW e \in E
  PROVE  Put(m, e) \in Seq(E) /\ Len(Put(m, e)) <= MemMax
  <1> DEFINE win == e.win
             w == Without(m, win)
             new == Append(w, e)
  <1>. HIDE DEF win
  <1>1. w \in Seq(E) /\ Len(w) <= Len(m)
    <2>1. CASE \E i \in DOMAIN m : m[i].win = win
      <3> DEFINE j == CHOOSE i \in DOMAIN m : m[i].win = win
      <3>1. j \in 1 .. Len(m)
        BY <2>1
      <3>. HIDE DEF j
      <3>2. /\ SubSeq(m, 1, j - 1) \in Seq(E) /\ Len(SubSeq(m, 1, j - 1)) = j - 1
            /\ SubSeq(m, j + 1, Len(m)) \in Seq(E)
            /\ Len(SubSeq(m, j + 1, Len(m))) = Len(m) - j
        BY <3>1
      <3>3. w = SubSeq(m, 1, j - 1) \o SubSeq(m, j + 1, Len(m))
        BY <2>1 DEF Without, RemoveAt, j
      <3>4. Len(m) \in Nat /\ j \in Int
        BY <3>1
      <3>. HIDE DEF w
      <3>. DEFINE p == SubSeq(m, 1, j - 1)
                  q == SubSeq(m, j + 1, Len(m))
      <3>5. w = p \o q /\ p \in Seq(E) /\ q \in Seq(E) /\ Len(p) = j - 1 /\ Len(q) = Len(m) - j
        BY <3>2, <3>3
      <3>. HIDE DEF p, q
      <3>51. p \in Seq(E) /\ q \in Seq(E)
        BY <3>5
      <3>52. p \o q \in Seq(E) /\ Len(p \o q) = Len(p) + Len(q)
        BY <3>51
      <3>6. w \in Seq(E) /\ Len(w) = Len(p) + Len(q)
        BY <3>5, <3>52
      <3>. QED BY <3>4, <3>5, <3>6
    <2>2. CASE ~\E i \in DOMAIN m : m[i].win = win
      BY <2>2 DEF Without
    <2>. QED BY <2>1, <2>2
  <1>2. MemMax \in Nat \ {0}
    BY StoreAssumption
  <1>. HIDE DEF w
  <1>3. new \in Seq(E) /\ Len(new) <= MemMax + 1 /\ Len(new) \in Nat
    BY <1>1, <1>2
  <1>4. Put(m, e) = IF e.series = <<>> THEN m
                    ELSE IF Len(new) > MemMax THEN Tail(new) ELSE new
    BY DEF Put, w, win
  <1>5. Len(new) > MemMax => Tail(new) \in Seq(E) /\ Len(Tail(new)) <= MemMax
    <2>. HIDE DEF new
    <2>1. SUFFICES ASSUME Len(new) > MemMax
                   PROVE  Tail(new) \in Seq(E) /\ Len(Tail(new)) <= MemMax
      OBVIOUS
    <2>2. new # <<>>
      BY <1>2, <1>3, <2>1
    <2>. QED BY <1>2, <1>3, <2>2
  <1>. HIDE DEF new
  <1>. QED BY <1>2, <1>3, <1>4, <1>5

----------------------------------------------------------------------------
(* The invariant: what each program has in hand                            *)

\* The ordered series of the bars of D inside a window.
Within(win, D) == {b \in D : InWindow(win, b)}
SoundSeries(win, D) == {s \in Seq(Within(win, D)) : Ordered(s)}

GapSet == [part : {"all", "head", "tail"}, from : Int, to : Int]

GapOK(k, s, win, g) ==
    /\ win.from <= g.from /\ g.to <= FetchEnd(k, win)
    /\ g.part = "all" <=> s = <<>>
    /\ g.part = "head" => g.to <= Day(Head(s))

\* What is still to be downloaded: everything, or the head and then the tail.
Planned(k, s, win, todo) ==
    /\ todo \in Seq(GapSet) /\ todo # <<>>
    /\ \A i \in DOMAIN todo : GapOK(k, s, win, todo[i])
    /\ \A i \in DOMAIN todo : i # 1 => todo[i].part = "tail"

Fetches(k) == [at : {"idle", "read", "fetch", "store", "done"}, win : Windows,
               series : Seq(Bars(k)), worth : Answers(k), todo : Seq(GapSet),
               rows : Answers(k)]

\* A series with what its bars are worth, beside the table d.
Reached(k, win, b) == Day(b) < win.last + (IF k = "daily" THEN 0 ELSE 1)

Priced(k, e, d) ==
    /\ e.series \in SoundSeries(e.win, Bars(k))
    /\ e.worth \in [ToSet(e.series) -> Worths]
    /\ \A b \in ToSet(e.series) :
          /\ e.worth[b] # "incomplete" => b \in DOMAIN d
          /\ e.worth[b] = "forming" =>
                 Reached(k, e.win, b) \/ (b \in DOMAIN d /\ d[b] = "forming")

FetchOK(k, f, d) ==
    /\ f \in Fetches(k)
    /\ Priced(k, f, d)
    /\ f.at \in {"fetch", "store"} => Planned(k, f.series, f.win, f.todo)
    /\ f.at = "store" => \A b \in DOMAIN f.rows :
                            Head(f.todo).from <= Day(b) /\ Day(b) < Head(f.todo).to

Entries(k, d) == {e \in [win : Windows, series : Seq(Bars(k)), worth : Answers(k)] :
                     Priced(k, e, d)}

SyncOK(k, s, t) ==
    /\ s \in [at : {"idle", "fetch", "store"}, from : Int, to : Int, rows : Answers(k)]
    /\ s.at # "idle" => s.to <= UtcDay(t)
    /\ s.at = "store" => \A b \in DOMAIN s.rows : s.rows[b] # "forming"

PrefetchOK(k, p) ==
    /\ p \in [at : {"idle", "commit"}, win : Windows, named : BOOLEAN, force : BOOLEAN,
              rows : Answers(k), slice : SUBSET Bars(k)]
    /\ p.at = "commit" =>
          /\ \A b \in DOMAIN p.rows :
                Day(b) <= p.win.last /\ (p.rows[b] = "forming" => p.named)
          /\ \A b \in p.slice : Day(b) <= p.win.last

StoreInv == kind \in Kinds /\ now \in Times /\ db \in RowSet(kind)
TaskInv ==
    /\ task \in [Tasks -> Fetches(kind)]
    /\ \A t \in Tasks : FetchOK(kind, task[t], db)
MemInv == mem \in Seq(Entries(kind, db)) /\ Len(mem) <= MemMax
SyncInv == SyncOK(kind, sync, now)
PrefetchInv == PrefetchOK(kind, prefetch)
HaInv == ha \in [Months -> {"none", "partial", "final"}]

IInv == StoreInv /\ TaskInv /\ MemInv /\ SyncInv /\ PrefetchInv /\ HaInv

LEMMA RowBars ==
  ASSUME NEW k, NEW V, NEW f \in RowsOf(k, V)
  PROVE  /\ DOMAIN f \subseteq Bars(k) /\ DOMAIN f \in SUBSET Int
         /\ \A b \in DOMAIN f : f[b] \in V
         /\ IsFiniteSet(DOMAIN f)
  <1>1. DOMAIN f \subseteq Bars(k) /\ \A b \in DOMAIN f : f[b] \in V
    BY DEF RowsOf
  <1>. QED BY <1>1, BarFacts

LEMMA DayOrder ==
  ASSUME NEW k, NEW b \in Bars(k), NEW c \in Bars(k)
  PROVE  /\ Day(b) \in Nat /\ Day(c) \in Nat
         /\ Day(b) < Day(c) => b < c
         /\ b <= c => Day(b) <= Day(c)
  <1>1. b \in Times /\ c \in Times /\ b \in Int /\ c \in Int
    BY BarFacts
  <1>2. Day(b) \in Nat /\ Day(c) \in Nat
    BY <1>1, TimeFacts
  <1>3. \A s, t \in Times : s <= t => Day(s) <= Day(t)
    BY TimeFacts
  <1>. QED BY <1>1, <1>2, <1>3

\* A sound series stays sound when more is stored.
LEMMA SoundGrows ==
  ASSUME NEW win, NEW D, NEW E, D \subseteq E
  PROVE  SoundSeries(win, D) \subseteq SoundSeries(win, E)
  <1>1. Within(win, D) \subseteq Within(win, E)
    BY DEF Within
  <1>2. Seq(Within(win, D)) \subseteq Seq(Within(win, E))
    BY <1>1
  <1>. QED BY <1>2 DEF SoundSeries

LEMMA SeriesFacts ==
  ASSUME NEW k, NEW D \in SUBSET Bars(k), NEW win, NEW s \in SoundSeries(win, D)
  PROVE  /\ s \in Seq(Bars(k)) /\ Ordered(s)
         /\ \A i \in DOMAIN s : s[i] \in D /\ s[i] \in Bars(k) /\ InWindow(win, s[i])
         /\ ToSet(s) \subseteq D
         /\ s # <<>> => /\ 1 \in DOMAIN s /\ Len(s) \in DOMAIN s
                        /\ \A i \in DOMAIN s : Head(s) <= s[i] /\ s[i] <= Last(s)
  <1>1. s \in Seq(Within(win, D)) /\ Ordered(s)
    BY DEF SoundSeries
  <1>2. \A i \in DOMAIN s : s[i] \in Within(win, D)
    BY <1>1
  <1>3. \A i \in DOMAIN s : s[i] \in D /\ s[i] \in Bars(k) /\ InWindow(win, s[i])
    BY <1>2 DEF Within
  <1>4. Within(win, D) \subseteq Bars(k)
    BY DEF Within
  <1>5. s \in Seq(Bars(k))
    BY <1>1, <1>4
  <1>6. ToSet(s) \subseteq D
    BY <1>3 DEF ToSet
  <1>7. ASSUME s # <<>>
        PROVE  /\ 1 \in DOMAIN s /\ Len(s) \in DOMAIN s
               /\ \A i \in DOMAIN s : Head(s) <= s[i] /\ s[i] <= Last(s)
    <2>. DEFINE n == Len(s)
    <2>1. DOMAIN s = 1 .. n /\ n \in Nat \ {0} /\ Head(s) = s[1] /\ Last(s) = s[n]
      BY <1>5, <1>7 DEF Last
    <2>2. \A i \in DOMAIN s : s[i] \in Int
      BY <1>3, BarFacts
    <2>. HIDE DEF n
    <2>3. 1 \in DOMAIN s /\ n \in DOMAIN s
      BY <2>1
    <2>4. \A i \in 1 .. n : (i = 1 \/ 1 < i) /\ (i = n \/ i < n)
      BY <2>1
    <2>5. \A i \in DOMAIN s : s[1] <= s[i] /\ s[i] <= s[n]
      BY <1>1, <2>1, <2>2, <2>3, <2>4 DEF Ordered
    <2>. QED BY <2>1, <2>3, <2>5 DEF n
  <1>. QED BY <1>1, <1>3, <1>5, <1>6, <1>7

\* A plan follows from the stored bars of the window.
LEMMA GapsFacts ==
  ASSUME NEW k \in Widths, NEW D \in SUBSET Bars(k), NEW win \in Windows,
         NEW s \in SoundSeries(win, D), Gaps(k, s, win) # <<>>
  PROVE  Planned(k, s, win, Gaps(k, s, win))
  <1>1. win.from \in Int /\ win.last \in Int
    BY DEF Windows
  <1>2. FetchEnd(k, win) \in Int /\ win.last <= FetchEnd(k, win)
    BY <1>1 DEF FetchEnd
  <1>3. CASE s = <<>>
    <2>1. Gaps(k, s, win) = <<[part |-> "all", from |-> win.from, to |-> FetchEnd(k, win)]>>
      BY <1>3 DEF Gaps
    <2>. DEFINE g == [part |-> "all", from |-> win.from, to |-> FetchEnd(k, win)]
    <2>2. g \in GapSet
      BY <1>1, <1>2 DEF GapSet
    <2>3. GapOK(k, s, win, g)
      BY <1>1, <1>2, <1>3 DEF GapOK
    <2>. HIDE DEF g
    <2>4. Gaps(k, s, win) = <<g>>
      BY <2>1 DEF g
    <2>. QED BY <2>2, <2>3, <2>4 DEF Planned
  <1>4. CASE s # <<>>
    <2>. DEFINE head == [part |-> "head", from |-> win.from, to |-> Day(Head(s))]
                tail == [part |-> "tail", from |-> Day(Last(s)), to |-> FetchEnd(k, win)]
    <2>1. /\ Head(s) \in Bars(k) /\ Last(s) \in Bars(k)
          /\ InWindow(win, Head(s)) /\ InWindow(win, Last(s))
      <3>1. s \in Seq(Bars(k)) /\ 1 \in DOMAIN s /\ Len(s) \in DOMAIN s
        BY <1>4, SeriesFacts
      <3>2. Head(s) = s[1] /\ Last(s) = s[Len(s)]
        BY <1>4, <3>1 DEF Last
      <3>3. \A i \in DOMAIN s : s[i] \in Bars(k) /\ InWindow(win, s[i])
        BY SeriesFacts
      <3>. QED BY <3>1, <3>2, <3>3
    <2>2. /\ Day(Head(s)) \in Int /\ Day(Last(s)) \in Int
          /\ Day(Head(s)) <= win.last /\ win.from <= Day(Last(s))
      BY <2>1, DayOrder DEF InWindow
    <2>3. head \in GapSet /\ tail \in GapSet
      BY <1>1, <1>2, <2>2 DEF GapSet
    <2>4. GapOK(k, s, win, head) /\ GapOK(k, s, win, tail)
      BY <1>1, <1>2, <1>4, <2>2 DEF GapOK
    <2>. HIDE DEF head, tail
    <2>. DEFINE A == IF NeedsHead(k, s, win) THEN <<head>> ELSE <<>>
                B == IF NeedsTail(s, win) THEN <<tail>> ELSE <<>>
    <2>5. /\ A \in Seq(GapSet) /\ Len(A) \in {0, 1} /\ \A i \in 1 .. Len(A) : A[i] = head
          /\ B \in Seq(GapSet) /\ Len(B) \in {0, 1} /\ \A i \in 1 .. Len(B) : B[i] = tail
      <3>1. /\ <<head>> \in Seq(GapSet) /\ Len(<<head>>) = 1 /\ <<head>>[1] = head
            /\ <<tail>> \in Seq(GapSet) /\ Len(<<tail>>) = 1 /\ <<tail>>[1] = tail
            /\ <<>> \in Seq(GapSet) /\ Len(<<>>) = 0
        BY <2>3
      <3>2. A \in {<<head>>, <<>>} /\ B \in {<<tail>>, <<>>}
        OBVIOUS
      <3>. HIDE DEF A, B
      <3>3. /\ A \in Seq(GapSet) /\ B \in Seq(GapSet)
            /\ Len(A) \in {0, 1} /\ Len(B) \in {0, 1}
        BY <3>1, <3>2
      <3>4. \A i \in 1 .. Len(A) : A[i] = head
        BY <3>1, <3>2
      <3>5. \A i \in 1 .. Len(B) : B[i] = tail
        BY <3>1, <3>2
      <3>. QED BY <3>3, <3>4, <3>5
    <2>6. tail.part = "tail"
      BY DEF tail
    <2>7. Gaps(k, s, win) = A \o B
      BY <1>4 DEF Gaps, head, tail
    <2>. HIDE DEF A, B
    <2>8. /\ A \o B \in Seq(GapSet)
          /\ Len(A \o B) = Len(A) + Len(B)
          /\ \A i \in 1 .. Len(A) + Len(B) :
                (A \o B)[i] = IF i <= Len(A) THEN A[i] ELSE B[i - Len(A)]
      BY <2>5, ConcatProperties
    <2>9. \A i \in 1 .. Len(A) + Len(B) :
             /\ (A \o B)[i] \in {head, tail}
             /\ i # 1 => (A \o B)[i] = tail
      BY <2>5, <2>8
    <2>10. DOMAIN (A \o B) = 1 .. Len(A) + Len(B)
      BY <2>5, <2>8
    <2>. QED BY <2>4, <2>6, <2>7, <2>8, <2>9, <2>10 DEF Planned
  <1>. QED BY <1>3, <1>4

\* An answer joins the series in order: a head ends before the first bar, a
\* tail is cut to what follows the last one.
LEMMA JoinedFacts ==
  ASSUME NEW k \in Widths, NEW D \in SUBSET Bars(k), NEW win \in Windows,
         NEW s \in SoundSeries(win, D), NEW g \in GapSet, GapOK(k, s, win, g),
         NEW R \in SUBSET Bars(k), \A b \in R : g.from <= Day(b) /\ Day(b) < g.to
  PROVE  /\ Joined(s, g.part, R) \in SoundSeries(win, D \cup R)
         /\ s # <<>> => Joined(s, g.part, R) # <<>>
  <1>1. /\ win.from \in Int /\ win.last \in Int /\ g.from \in Int /\ g.to \in Int
        /\ g.part \in {"all", "head", "tail"}
    BY DEF Windows, GapSet
  <1>2. \A b \in R : InWindow(win, b)
    <2> SUFFICES ASSUME NEW b \in R PROVE InWindow(win, b)
      OBVIOUS
    <2>1. g.from <= Day(b) /\ Day(b) < g.to /\ Day(b) \in Nat
      BY DayOrder
    <2>2. FetchEnd(k, win) \in Int /\ FetchEnd(k, win) <= win.last + 1
      BY <1>1 DEF FetchEnd
    <2>. QED BY <1>1, <2>1, <2>2 DEF GapOK, InWindow
  <1>. DEFINE W == Within(win, D \cup R)
  <1>3. s \in Seq(W) /\ Ordered(s) /\ R \subseteq W
    <2>1. s \in SoundSeries(win, D \cup R)
      BY SoundGrows
    <2>. QED BY <1>2, <2>1 DEF SoundSeries, Within
  <1>4. W \in SUBSET Int
    BY BarFacts DEF Within
  <1>5. ASSUME NEW Q \in SUBSET R
        PROVE  /\ Ascending(Q) \in Seq(W) /\ Ordered(Ascending(Q))
               /\ \A i \in DOMAIN Ascending(Q) : Ascending(Q)[i] \in Q
    <2>1. Q \in SUBSET Int /\ IsFiniteSet(Q)
      BY BarFacts
    <2>2. Ascending(Q) \in Seq(Q) /\ Ordered(Ascending(Q))
      BY <2>1, AscendingFacts
    <2>3. Ascending(Q) \in Seq(W)
      BY <1>3, <2>2, SeqMonotonic
    <2>. QED BY <2>2, <2>3
  <1>6. \A i \in DOMAIN s : s[i] \in Bars(k)
    BY SeriesFacts
  <1>7. \A u \in Seq(W) : Ordered(u) => u \in SoundSeries(win, D \cup R)
    BY DEF SoundSeries
  <1>. HIDE DEF W
  <1>8. CASE g.part = "all"
    BY <1>5, <1>7, <1>8 DEF Joined, GapOK
  <1>9. CASE g.part = "head"
    <2>. DEFINE r == Ascending(R)
    <2>1. r \in Seq(W) /\ Ordered(r) /\ \A i \in DOMAIN r : r[i] \in R
      BY <1>5
    <2>2. s # <<>> /\ g.to <= Day(Head(s))
      BY <1>9 DEF GapOK
    <2>3. /\ 1 \in DOMAIN s /\ Head(s) \in Bars(k)
          /\ \A i \in DOMAIN s : Head(s) <= s[i]
      <3>1. 1 \in DOMAIN s /\ \A i \in DOMAIN s : Head(s) <= s[i]
        BY <2>2, SeriesFacts
      <3>2. Head(s) = s[1]
        BY <1>3, <2>2
      <3>. QED BY <1>6, <3>1, <3>2
    <2>4. \A b \in R : b < Head(s)
      <3> SUFFICES ASSUME NEW b \in R PROVE b < Head(s)
        OBVIOUS
      <3>1. Day(b) < g.to /\ Day(b) \in Nat /\ Day(Head(s)) \in Nat
        BY <2>3, DayOrder
      <3>2. Day(b) < Day(Head(s))
        BY <1>1, <2>2, <3>1
      <3>. QED BY <2>3, <3>2, DayOrder
    <2>. HIDE DEF r
    <2>5. \A i \in DOMAIN r, j \in DOMAIN s : r[i] < s[j]
      <3> SUFFICES ASSUME NEW i \in DOMAIN r, NEW j \in DOMAIN s PROVE r[i] < s[j]
        OBVIOUS
      <3>1. r[i] \in R /\ r[i] < Head(s) /\ Head(s) <= s[j]
        BY <2>1, <2>3, <2>4
      <3>2. r[i] \in Int /\ Head(s) \in Int /\ s[j] \in Int
        BY <1>6, <2>3, <3>1, BarFacts
      <3>. QED BY <3>1, <3>2
    <2>6. r \o s \in Seq(W) /\ Ordered(r \o s)
      BY <1>3, <1>4, <2>1, <2>5, JoinFacts
    <2>7. r \o s # <<>>
      BY <1>3, <2>1, <2>2, ConcatEqualIffEmpty
    <2>. QED BY <1>7, <1>9, <2>6, <2>7 DEF Joined, r
  <1>10. CASE g.part = "tail"
    <2>. DEFINE Q == {b \in R : b > Last(s)}
                r == Ascending(Q)
    <2>1. r \in Seq(W) /\ Ordered(r) /\ \A i \in DOMAIN r : r[i] \in R /\ r[i] > Last(s)
      BY <1>5
    <2>2. s # <<>>
      BY <1>10 DEF GapOK
    <2>3. Last(s) \in Bars(k) /\ \A i \in DOMAIN s : s[i] <= Last(s)
      BY <1>6, <2>2, SeriesFacts DEF Last
    <2>. HIDE DEF r
    <2>4. \A i \in DOMAIN s, j \in DOMAIN r : s[i] < r[j]
      <3> SUFFICES ASSUME NEW i \in DOMAIN s, NEW j \in DOMAIN r PROVE s[i] < r[j]
        OBVIOUS
      <3>1. r[j] \in R /\ r[j] > Last(s) /\ s[i] <= Last(s)
        BY <2>1, <2>3
      <3>2. s[i] \in Int /\ Last(s) \in Int /\ r[j] \in Int
        BY <1>6, <2>3, <3>1, BarFacts
      <3>. QED BY <3>1, <3>2
    <2>5. s \o r \in Seq(W) /\ Ordered(s \o r)
      BY <1>3, <1>4, <2>1, <2>4, JoinFacts
    <2>6. s \o r # <<>>
      BY <1>3, <2>1, <2>2, ConcatEqualIffEmpty
    <2>. QED BY <1>7, <1>10, <2>5, <2>6 DEF Joined, r
  <1>. QED BY <1>1, <1>8, <1>9, <1>10

----------------------------------------------------------------------------
(* What holds keeps holding as more is stored and time passes              *)

LEMMA PricedGrows ==
  ASSUME NEW k, NEW e, NEW d, NEW g, Grown(d, g), Priced(k, e, d)
  PROVE  Priced(k, e, g)
  BY DEF Priced, Grown

LEMMA FetchGrows ==
  ASSUME NEW k, NEW f, NEW d, NEW g, Grown(d, g), FetchOK(k, f, d)
  PROVE  FetchOK(k, f, g)
  BY PricedGrows DEF FetchOK

LEMMA EntriesGrow ==
  ASSUME NEW k, NEW d, NEW g, Grown(d, g)
  PROVE  Entries(k, d) \subseteq Entries(k, g) /\ Seq(Entries(k, d)) \subseteq Seq(Entries(k, g))
  <1>1. Entries(k, d) \subseteq Entries(k, g)
    BY PricedGrows DEF Entries
  <1>. QED BY <1>1, SeqMonotonic

LEMMA SyncLater ==
  ASSUME NEW k, NEW s, NEW t \in Times, NEW u \in Times, t <= u, SyncOK(k, s, t)
  PROVE  SyncOK(k, s, u)
  <1>1. UtcDay(t) \in Nat /\ UtcDay(u) \in Nat /\ UtcDay(t) <= UtcDay(u)
    BY TimeFacts
  <1>2. s.to \in Int
    BY DEF SyncOK
  <1>. QED BY <1>1, <1>2 DEF SyncOK

\* The rows that are saved are bars, whoever saves them.
LEMMA StoreStep ==
  ASSUME IInv, [Next]_vars
  PROVE  StoreInv' /\ kind' = kind /\ now <= now' /\ Grown(db, db')
  <1>1. kind \in Kinds /\ now \in Times /\ db \in RowSet(kind)
    BY DEF IInv, StoreInv
  <1>2. now \in Int
    BY <1>1, TimeFacts
  <1>3. kind' = kind /\ now' \in Times /\ now <= now'
    <2>1. Tick \/ UNCHANGED <<kind, now>>
      BY DEF Next, vars, StartFetch, Merge, Download, Store, Crash, SyncRead,
         SyncDownload, SyncStore, PrefetchStart, PrefetchRead, PrefetchCommit, PrefetchAbort
    <2>2. CASE Tick
      BY <1>2, <2>2 DEF Tick
    <2>3. CASE UNCHANGED <<kind, now>>
      BY <1>1, <1>2, <2>3
    <2>. QED BY <2>1, <2>2, <2>3
  <1>4. \/ \E t \in Tasks : db' = Save(task[t].rows)
        \/ db' = Save(sync.rows) \/ db' = Save(prefetch.rows) \/ db' = db
    BY DEF Next, vars, StartFetch, Merge, Download, Store, Crash, SyncRead,
       SyncDownload, SyncStore, PrefetchStart, PrefetchRead, PrefetchCommit, PrefetchAbort, Tick
  <1>5. /\ \A t \in Tasks : task[t].rows \in Answers(kind)
        /\ sync.rows \in Answers(kind) /\ prefetch.rows \in Answers(kind)
    BY DEF IInv, TaskInv, Fetches, SyncInv, SyncOK, PrefetchInv, PrefetchOK
  <1>6. db' \in RowSet(kind) /\ Grown(db, db')
    <2>1. ASSUME NEW rows \in Answers(kind), db' = Save(rows)
          PROVE  db' \in RowSet(kind) /\ Grown(db, db')
      BY <1>1, <2>1, SaveFacts
    <2>2. Grown(db, db)
      BY DEF Grown
    <2>. QED BY <1>1, <1>4, <1>5, <2>1, <2>2
  <1>. QED BY <1>1, <1>3, <1>6 DEF StoreInv

----------------------------------------------------------------------------
(* The collector, the script and the HA rows                               *)

LEMMA SyncStep ==
  ASSUME IInv, [Next]_vars
  PROVE  SyncInv'
  <1>1. /\ kind \in Kinds /\ kind \in Widths /\ now \in Times /\ now' \in Times /\ now <= now'
        /\ kind' = kind /\ db \in RowSet(kind)
    BY StoreStep, CalendarAssumption DEF IInv, StoreInv, Widths
  <1>2. SyncOK(kind, sync, now)
    BY DEF IInv, SyncInv
  <1>3. SyncRead \/ SyncDownload \/ SyncStore \/ UNCHANGED sync
    BY DEF Next, vars, others, StartFetch, Merge, Download, Store, Crash,
       PrefetchStart, PrefetchRead, PrefetchCommit, PrefetchAbort, Tick
  <1>4. SyncOK(kind, NoSync, now)
    BY NoRows DEF SyncOK, NoSync
  <1>5. UtcDay(now) \in Int /\ now' \in Times
    BY <1>1, TimeFacts
  <1>6. CASE SyncRead
    <2>. DEFINE from == IF db = <<>> THEN UtcDay(now) - BackfillDays ELSE Day(Max(DOMAIN db))
    <2>1. from \in Int
      <3>1. CASE db = <<>>
        BY <1>5, <3>1, StoreAssumption
      <3>2. CASE db # <<>>
        <4>1. DOMAIN db # {}
          BY <1>1, <3>2, SomeRow
        <4>2. Max(DOMAIN db) \in DOMAIN db
          BY <1>1, <4>1, RowBars, ExtremeFacts DEF RowSet
        <4>3. Day(Max(DOMAIN db)) \in Int
          BY <1>1, <4>2, RowBars, DayOrder DEF RowSet
        <4>. QED BY <3>2, <4>3
      <3>. QED BY <3>1, <3>2
    <2>2. sync' = [NoSync EXCEPT !.at = "fetch", !.from = from, !.to = UtcDay(now)] /\ now' = now
      BY <1>6 DEF SyncRead
    <2>. HIDE DEF from
    <2>3. sync' = [at |-> "fetch", from |-> from, to |-> UtcDay(now), rows |-> <<>>]
      BY <2>2 DEF NoSync
    <2>4. SyncOK(kind, sync', now)
      BY <1>5, <2>1, <2>3, NoRows DEF SyncOK
    <2>. QED BY <1>1, <2>2, <2>4 DEF SyncInv
  <1>7. CASE SyncDownload
    <2>1. sync.at = "fetch" /\ now' = now
      BY <1>7 DEF SyncDownload
    <2>2. PICK rows \in Yahoo(kind, sync.from, sync.to, UtcDay(now), now) \cup {<<>>} :
             sync' = IF rows = <<>> THEN NoSync ELSE [NoSync EXCEPT !.at = "store", !.rows = rows]
      BY <1>7 DEF SyncDownload
    <2>3. CASE rows = <<>>
      BY <1>1, <1>4, <2>1, <2>2, <2>3 DEF SyncInv
    <2>4. CASE rows # <<>>
      <3>1. sync.from \in Int /\ sync.to \in Int /\ sync.to <= UtcDay(now)
        BY <1>2, <2>1 DEF SyncOK
      <3>2. rows \in Yahoo(kind, sync.from, sync.to, UtcDay(now), now)
        BY <2>2, <2>4
      <3>3. /\ rows \in Answers(kind)
            /\ \A b \in DOMAIN rows : /\ b \in Bars(kind) /\ Day(b) < sync.to
                                      /\ rows[b] \in {Quality(kind, b, now), "incomplete"}
        BY <1>1, <1>5, <3>1, <3>2, YahooFacts
      <3>4. \A b \in DOMAIN rows : rows[b] # "forming"
        <4> SUFFICES ASSUME NEW b \in DOMAIN rows PROVE rows[b] # "forming"
          OBVIOUS
        <4>1. b \in Bars(kind) /\ Day(b) < sync.to /\ Day(b) \in Nat
          BY <3>3, DayOrder
        <4>2. Day(b) < UtcDay(now)
          BY <1>5, <3>1, <4>1
        <4>. QED BY <1>1, <3>3, <4>1, <4>2, OverIsFinal
      <3>5. sync' = [at |-> "store", from |-> 0, to |-> 0, rows |-> rows]
        BY <2>2, <2>4 DEF NoSync
      <3>6. UtcDay(now) \in Int /\ 0 <= UtcDay(now)
        BY <1>1, TimeFacts
      <3>7. SyncOK(kind, sync', now)
        BY <3>3, <3>4, <3>5, <3>6 DEF SyncOK
      <3>. QED BY <1>1, <2>1, <3>7 DEF SyncInv
    <2>. QED BY <2>3, <2>4
  <1>8. CASE SyncStore
    BY <1>1, <1>4, <1>8 DEF SyncInv, SyncStore
  <1>9. CASE UNCHANGED sync
    BY <1>1, <1>2, <1>9, SyncLater DEF SyncInv
  <1>. QED BY <1>3, <1>6, <1>7, <1>8, <1>9

\* A bar that is still forming is of the running day.
LEMMA FormingIsToday ==
  ASSUME NEW k \in Widths, NEW b \in Bars(k), NEW t \in Times, Quality(k, b, t) = "forming"
  PROVE  Day(t) <= Day(b)
  BY TimeFacts DEF Widths, Bars, Times, Day, Quality, Ends

LEMMA PrefetchStep ==
  ASSUME IInv, [Next]_vars
  PROVE  PrefetchInv'
  <1>1. kind \in Kinds /\ kind \in Widths /\ now \in Times /\ kind' = kind /\ db \in RowSet(kind)
    BY StoreStep, CalendarAssumption DEF IInv, StoreInv, Widths
  <1>2. PrefetchOK(kind, prefetch)
    BY DEF IInv, PrefetchInv
  <1>3. PrefetchStart \/ prefetch' = NoPrefetch \/ UNCHANGED prefetch
    BY DEF Next, vars, others, StartFetch, Merge, Download, Store, Crash, SyncRead,
       SyncDownload, SyncStore, PrefetchCommit, PrefetchAbort, Tick
  <1>4. PrefetchOK(kind, NoPrefetch)
    BY NoRows DEF PrefetchOK, NoPrefetch, Windows
  <1>50. Day(now) \in Nat
    BY <1>1, TimeFacts
  <1>5. ASSUME NEW start \in Int, NEW end \in Int, NEW named \in BOOLEAN, NEW force \in BOOLEAN,
               named \/ end < Day(now), PrefetchRead(start, end, named, force)
        PROVE  PrefetchInv'
    <2>. DEFINE win == [from |-> start, last |-> end]
    <2>2. win \in Windows /\ win.last = end
      BY DEF Windows
    <2>3. PICK rows \in Yahoo(kind, start, end + 1, Day(now), now) \cup {<<>>} :
             prefetch' = [at |-> "commit", win |-> win, named |-> named,
                          force |-> force /\ rows # <<>>, rows |-> rows,
                          slice |-> IF rows = <<>> THEN StoredIn(win) ELSE {}]
      BY <1>5 DEF PrefetchRead
    <2>. DEFINE slice == IF rows = <<>> THEN StoredIn(win) ELSE {}
                forced == force /\ rows # <<>>
    <2>4. slice \in SUBSET Bars(kind) /\ \A b \in slice : Day(b) <= win.last
      BY <1>1, RowBars DEF StoredIn, InWindow, RowSet
    <2>7. forced \in BOOLEAN
      OBVIOUS
    <2>8. prefetch' = [at |-> "commit", win |-> win, named |-> named, force |-> forced,
                       rows |-> rows, slice |-> slice]
      BY <2>3
    <2>. HIDE DEF win, slice, forced
    <2>5. /\ rows \in Answers(kind)
          /\ \A b \in DOMAIN rows : Day(b) <= end /\ (rows[b] = "forming" => named)
      <3>1. CASE rows = <<>>
        BY <3>1, NoRows
      <3>2. CASE rows # <<>>
        <4>1. rows \in Yahoo(kind, start, end + 1, Day(now), now) /\ end + 1 \in Int
          BY <2>3, <3>2
        <4>. DEFINE to == end + 1
        <4>. HIDE DEF to
        <4>2. rows \in Yahoo(kind, start, to, Day(now), now) /\ to \in Int
          BY <4>1 DEF to
        <4>3. /\ rows \in Answers(kind)
              /\ \A b \in DOMAIN rows : /\ b \in Bars(kind) /\ Day(b) < to
                                        /\ rows[b] \in {Quality(kind, b, now), "incomplete"}
          BY <1>1, <1>50, <4>2, YahooFacts
        <4>4. ASSUME NEW b \in DOMAIN rows
              PROVE  Day(b) <= end /\ (rows[b] = "forming" => named)
          <5>1. Day(b) \in Nat /\ Day(b) <= end
            BY <4>3, DayOrder DEF to
          <5>2. rows[b] = "forming" => Day(now) <= Day(b)
            BY <1>1, <4>3, FormingIsToday
          <5>. QED BY <1>5, <1>50, <5>1, <5>2
        <4>. QED BY <4>3, <4>4
      <3>. QED BY <3>1, <3>2
    <2>6. PrefetchOK(kind, prefetch')
      BY <2>2, <2>8, <2>4, <2>5, <2>7 DEF PrefetchOK
    <2>. QED BY <1>1, <2>6 DEF PrefetchInv
  <1>6. CASE PrefetchStart
    <2>1. PICK start \in PrefetchStarts, force \in BOOLEAN :
             \/ PrefetchRead(start, Day(now) - 1, FALSE, force)
             \/ \E end \in PrefetchEnds : PrefetchRead(start, end, TRUE, force)
      BY <1>6 DEF PrefetchStart
    <2>2. start \in Int /\ PrefetchEnds \subseteq Int
      BY StoreAssumption
    <2>3. CASE PrefetchRead(start, Day(now) - 1, FALSE, force)
      <3>. DEFINE end == Day(now) - 1
      <3>1. end \in Int /\ end < Day(now)
        BY <1>50
      <3>2. PrefetchRead(start, end, FALSE, force)
        BY <2>3
      <3>. HIDE DEF end
      <3>. QED BY <1>5, <2>2, <3>1, <3>2
    <2>4. CASE \E end \in PrefetchEnds : PrefetchRead(start, end, TRUE, force)
      BY <1>5, <2>2, <2>4
    <2>. QED BY <2>1, <2>3, <2>4
  <1>7. CASE prefetch' = NoPrefetch
    BY <1>1, <1>4, <1>7 DEF PrefetchInv
  <1>8. CASE UNCHANGED prefetch
    BY <1>1, <1>2, <1>8 DEF PrefetchInv
  <1>. QED BY <1>3, <1>6, <1>7, <1>8

\* The bars the HA rows are computed from lie before the end of the window.
LEMMA SliceFacts ==
  ASSUME IInv, prefetch.at = "commit"
  PROVE  /\ prefetch.win.last \in Int
         /\ \A b \in Slice : Day(b) \in Nat /\ Day(b) <= prefetch.win.last
  <1>1. PrefetchOK(kind, prefetch) /\ db \in RowSet(kind)
    BY DEF IInv, PrefetchInv, StoreInv
  <1>2. /\ prefetch.win.last \in Int /\ prefetch.rows \in Answers(kind)
        /\ prefetch.slice \in SUBSET Bars(kind)
        /\ \A b \in DOMAIN prefetch.rows : Day(b) <= prefetch.win.last
        /\ \A b \in prefetch.slice : Day(b) <= prefetch.win.last
    BY <1>1 DEF PrefetchOK, Windows
  <1>. DEFINE saved == Save(prefetch.rows)
  <1>3. saved \in RowSet(kind)
    BY <1>1, <1>2, SaveFacts
  <1>. HIDE DEF saved
  <1>4. DOMAIN saved \subseteq Bars(kind) /\ DOMAIN prefetch.rows \subseteq Bars(kind)
    BY <1>2, <1>3, RowBars DEF RowSet, Answers
  <1>5. Slice \subseteq Bars(kind) /\ \A b \in Slice : Day(b) <= prefetch.win.last
    BY <1>2, <1>4 DEF Slice, Complete, InWindow, saved
  <1>. QED BY <1>2, <1>5, DayOrder

LEMMA HaStep ==
  ASSUME IInv, [Next]_vars
  PROVE  HaInv'
  <1>1. PrefetchCommit \/ UNCHANGED ha
    BY DEF Next, vars, others, StartFetch, Merge, Download, Store, Crash, SyncRead,
       SyncDownload, SyncStore, PrefetchStart, PrefetchRead, PrefetchAbort, Tick
  <1>. QED BY <1>1 DEF IInv, HaInv, PrefetchCommit, HaRow

----------------------------------------------------------------------------
(* Backtests                                                               *)

LEMMA NoSeries ==
  ASSUME NEW k, NEW d, NEW win
  PROVE  Priced(k, [win |-> win, series |-> <<>>, worth |-> <<>>], d)
  <1>1. <<>> \in SoundSeries(win, Bars(k)) /\ ToSet(<<>>) = {}
    BY DEF SoundSeries, Ordered, ToSet
  <1>2. <<>> \in [{} -> Worths]
    OBVIOUS
  <1>. QED BY <1>1, <1>2 DEF Priced

LEMMA NoFetchOK ==
  ASSUME NEW k, NEW d
  PROVE  FetchOK(k, NoFetch, d)
  <1>1. NoFetch \in Fetches(k)
    BY NoRows DEF NoFetch, Fetches, Windows
  <1>2. Priced(k, [win |-> NoFetch.win, series |-> <<>>, worth |-> <<>>], d)
    BY NoSeries
  <1>. QED BY <1>1, <1>2 DEF FetchOK, NoFetch, Priced

\* What is priced depends on window, series and worth only.
LEMMA SamePriced ==
  ASSUME NEW k, NEW d, NEW e, NEW f, Priced(k, e, d),
         f.win = e.win, f.series = e.series, f.worth = e.worth
  PROVE  Priced(k, f, d)
  BY DEF Priced

LEMMA TaskReplaced ==
  ASSUME IInv, NEW t \in Tasks, NEW f, task' = [task EXCEPT ![t] = f], kind' = kind,
         Grown(db, db'), FetchOK(kind, f, db')
  PROVE  TaskInv'
  <1>1. task \in [Tasks -> Fetches(kind)] /\ \A u \in Tasks : FetchOK(kind, task[u], db)
    BY DEF IInv, TaskInv
  <1>2. f \in Fetches(kind)
    BY DEF FetchOK
  <1>3. task' \in [Tasks -> Fetches(kind)]
    BY <1>1, <1>2
  <1>4. \A u \in Tasks : FetchOK(kind, task[u], db')
    BY <1>1, FetchGrows
  <1>5. \A u \in Tasks : FetchOK(kind, task'[u], db')
    BY <1>1, <1>4
  <1>. QED BY <1>3, <1>5 DEF TaskInv

LEMMA MemReplaced ==
  ASSUME IInv, NEW e \in Entries(kind, db'), kind' = kind, Grown(db, db'), mem' = Put(mem, e)
  PROVE  MemInv'
  <1>1. mem \in Seq(Entries(kind, db')) /\ Len(mem) <= MemMax
    BY EntriesGrow DEF IInv, MemInv
  <1>. QED BY <1>1, PutFacts DEF MemInv

LEMMA MemKept ==
  ASSUME IInv, kind' = kind, Grown(db, db'), mem' = mem
  PROVE  MemInv'
  BY EntriesGrow DEF IInv, MemInv

\* What a backtest ends with may be kept in memory.
LEMMA EntryFacts ==
  ASSUME NEW k, NEW d, NEW f, FetchOK(k, f, d)
  PROVE  Entry(f) \in Entries(k, d)
  <1>1. /\ f.win \in Windows /\ f.series \in Seq(Bars(k)) /\ f.worth \in Answers(k)
        /\ Priced(k, f, d)
    BY DEF FetchOK, Fetches
  <1>. QED BY <1>1, SamePriced DEF Entry, Entries

\* The stored bars of a window, with their worth, are a series.
LEMMA ReadFacts ==
  ASSUME NEW k, kind = k, db \in RowSet(k), NEW win \in Windows
  PROVE  /\ Ascending(StoredIn(win)) \in Seq(Bars(k))
         /\ Restrict(db, StoredIn(win)) \in Answers(k)
         /\ Priced(k, [win |-> win, series |-> Ascending(StoredIn(win)),
                       worth |-> Restrict(db, StoredIn(win))], db)
  <1>. DEFINE S == StoredIn(win)
              s == Ascending(S)
              worth == Restrict(db, S)
  <1>1. /\ S \subseteq DOMAIN db /\ S \in SUBSET Bars(k)
        /\ \A b \in S : InWindow(win, b) /\ db[b] \in Quals
    BY RowBars DEF StoredIn, RowSet
  <1>2. S \in SUBSET Int /\ IsFiniteSet(S)
    BY <1>1, BarFacts
  <1>3. s \in Seq(S) /\ Ordered(s) /\ ToSet(s) = S
    BY <1>2, AscendingFacts
  <1>4. worth = [b \in S |-> db[b]]
    BY DEF Restrict
  <1>. HIDE DEF S, s, worth
  <1>5. s \in Seq(Within(win, Bars(k))) /\ s \in Seq(Bars(k))
    <2>1. S \subseteq Within(win, Bars(k)) /\ S \subseteq Bars(k)
      BY <1>1 DEF Within
    <2>. QED BY <1>3, <2>1
  <1>6. worth \in [S -> Worths] /\ \A b \in S : worth[b] = db[b]
    BY <1>1, <1>4 DEF Quals, Worths
  <1>7. worth \in Answers(k)
    BY <1>1, <1>6 DEF Answers, RowsOf
  <1>8. Priced(k, [win |-> win, series |-> s, worth |-> worth], db)
    BY <1>1, <1>3, <1>5, <1>6 DEF Priced, SoundSeries, Quals
  <1>. QED BY <1>5, <1>7, <1>8 DEF S, s, worth

\* A series is made of its own bars.
LEMMA OwnBars ==
  ASSUME NEW k, NEW win, NEW s \in SoundSeries(win, Bars(k))
  PROVE  /\ ToSet(s) \in SUBSET Bars(k) /\ s \in SoundSeries(win, ToSet(s))
  <1>1. s \in Seq(Bars(k)) /\ Ordered(s) /\ \A i \in DOMAIN s : s[i] \in Bars(k) /\ InWindow(win, s[i])
    BY SeriesFacts
  <1>2. ToSet(s) \in SUBSET Bars(k)
    BY <1>1 DEF ToSet
  <1>3. \A i \in DOMAIN s : s[i] \in Within(win, ToSet(s))
    BY <1>1 DEF Within, ToSet
  <1>4. s \in Seq(Within(win, ToSet(s)))
    <2>. DEFINE W == Within(win, ToSet(s))
    <2>1. \A i \in 1 .. Len(s) : s[i] \in W
      BY <1>1, <1>3
    <2>. HIDE DEF W
    <2>2. s \in Seq(W)
      BY <1>1, <2>1
    <2>. QED BY <2>2 DEF W
  <1>. QED BY <1>1, <1>2, <1>4 DEF SoundSeries

\* An answer that has been saved joins a series.
LEMMA StoreFacts ==
  ASSUME NEW k \in Widths, kind = k, db \in RowSet(k), NEW f, FetchOK(k, f, db),
         f.at = "store", NEW series, NEW worth,
         series = Joined(f.series, Head(f.todo).part, DOMAIN f.rows),
         worth = Worth(series, f.worth, f.rows)
  PROVE  /\ series \in Seq(Bars(k)) /\ worth \in Answers(k)
         /\ Priced(k, [win |-> f.win, series |-> series, worth |-> worth], Save(f.rows))
         /\ f.series # <<>> => series # <<>>
         /\ Head(f.todo) = f.todo[1]
         /\ Tail(f.todo) \in Seq(GapSet)
         /\ Tail(f.todo) # <<>> => Planned(k, series, f.win, Tail(f.todo))
  <1>. DEFINE win == f.win
              s == f.series
              rows == f.rows
              R == DOMAIN rows
              g == Head(f.todo)
              rest == Tail(f.todo)
              d == Save(rows)
  <1>1. /\ win \in Windows /\ s \in SoundSeries(win, Bars(k)) /\ rows \in Answers(k)
        /\ f.worth \in [ToSet(s) -> Worths]
        /\ Planned(k, s, win, f.todo)
        /\ \A b \in R : g.from <= Day(b) /\ Day(b) < g.to
    BY DEF FetchOK, Fetches, Priced
  <1>2. /\ g = f.todo[1] /\ g \in GapSet /\ GapOK(k, s, win, g)
        /\ rest \in Seq(GapSet)
        /\ \A i \in DOMAIN rest : rest[i] = f.todo[i + 1] /\ i + 1 \in DOMAIN f.todo
    BY <1>1 DEF Planned
  <1>3. /\ d \in RowSet(k) /\ Grown(db, d)
        /\ \A b \in R : rows[b] # "incomplete" => b \in DOMAIN d
    BY <1>1, SaveFacts
  <1>4. R \in SUBSET Bars(k) /\ \A b \in R : rows[b] \in Worths
    BY <1>1, RowBars DEF Answers
  <1>5. Priced(k, f, d)
    BY <1>3, PricedGrows DEF FetchOK
  <1>. HIDE DEF g, R, s, win, rest, rows, d
  <1>6. /\ series \in SoundSeries(win, ToSet(s) \cup R)
        /\ s # <<>> => series # <<>>
    <2>1. ToSet(s) \in SUBSET Bars(k) /\ s \in SoundSeries(win, ToSet(s))
      BY <1>1, OwnBars
    <2>2. /\ Joined(s, g.part, R) \in SoundSeries(win, ToSet(s) \cup R)
          /\ s # <<>> => Joined(s, g.part, R) # <<>>
      BY <1>1, <1>2, <1>4, <2>1, JoinedFacts
    <2>. QED BY <2>2 DEF s, g, R, rows
  <1>7. ToSet(s) \cup R \in SUBSET Bars(k)
    BY <1>1, <1>4, OwnBars
  <1>8. /\ series \in SoundSeries(win, Bars(k)) /\ series \in Seq(Bars(k))
        /\ ToSet(series) \subseteq ToSet(s) \cup R
    BY <1>6, <1>7, SoundGrows, SeriesFacts
  <1>9. /\ DOMAIN worth = ToSet(series) /\ worth = [b \in ToSet(series) |-> worth[b]]
        /\ \A b \in ToSet(series) :
              worth[b] = IF b \in ToSet(s) THEN f.worth[b] ELSE rows[b]
    BY <1>1 DEF Worth, rows
  <1>10. /\ worth \in [ToSet(series) -> Worths]
         /\ \A b \in ToSet(series) : b \notin ToSet(s) => b \in R /\ worth[b] = rows[b]
    <2>1. \A b \in ToSet(series) : worth[b] \in Worths
      BY <1>1, <1>4, <1>8, <1>9
    <2>. QED BY <1>8, <1>9, <2>1
  <1>11. worth \in Answers(k)
    <2>1. ToSet(series) \in SUBSET Bars(k)
      BY <1>7, <1>8
    <2>. QED BY <1>10, <2>1 DEF Answers, RowsOf
  <1>12. ASSUME NEW b \in ToSet(series)
         PROVE  /\ worth[b] # "incomplete" => b \in DOMAIN d
                /\ worth[b] = "forming" =>
                       Reached(k, win, b) \/ (b \in DOMAIN d /\ d[b] = "forming")
    <2>1. CASE b \in ToSet(s)
      BY <1>5, <1>9, <2>1 DEF Priced, s, win
    <2>2. CASE b \notin ToSet(s)
      <3>1. b \in R /\ worth[b] = rows[b]
        BY <1>10, <2>2
      <3>2. Day(b) \in Nat /\ Day(b) < g.to
        BY <1>1, <1>4, <3>1, DayOrder DEF g, R, rows
      <3>3. g.to \in Int /\ win.last \in Int /\ g.to <= FetchEnd(k, win)
        BY <1>1, <1>2 DEF GapOK, GapSet, Windows
      <3>4. Reached(k, win, b)
        BY <3>2, <3>3 DEF Reached, FetchEnd
      <3>. QED BY <1>3, <3>1, <3>4
    <2>. QED BY <2>1, <2>2
  <1>13. Priced(k, [win |-> win, series |-> series, worth |-> worth], d)
    BY <1>8, <1>10, <1>12 DEF Priced
  <1>14. rest # <<>> => Planned(k, series, win, rest)
    <2>1. \A i \in DOMAIN rest : /\ rest[i].part = "tail" /\ GapOK(k, s, win, rest[i])
                                 /\ i \in Nat \ {0}
      BY <1>1, <1>2 DEF Planned
    <2>2. \A i \in DOMAIN rest : GapOK(k, series, win, rest[i])
      BY <1>6, <2>1 DEF GapOK
    <2>. QED BY <1>2, <2>1, <2>2 DEF Planned
  <1>. QED
    BY <1>2, <1>6, <1>8, <1>11, <1>13, <1>14 DEF win, s, rows, g, rest, d

LEMMA BacktestStep ==
  ASSUME IInv, [Next]_vars
  PROVE  TaskInv' /\ MemInv'
  <1>1. /\ kind \in Kinds /\ kind \in Widths /\ now \in Times /\ kind' = kind
        /\ db \in RowSet(kind) /\ Grown(db, db')
    BY StoreStep, CalendarAssumption DEF IInv, StoreInv, Widths
  <1>2. /\ task \in [Tasks -> Fetches(kind)]
        /\ \A t \in Tasks : FetchOK(kind, task[t], db)
        /\ \A t \in Tasks : FetchOK(kind, task[t], db')
    BY <1>1, FetchGrows DEF IInv, TaskInv
  <1>3. mem \in Seq(Entries(kind, db'))
    BY <1>1, EntriesGrow DEF IInv, MemInv
  <1>4. \/ \E t \in Tasks, req \in Requests : StartFetch(t, req)
        \/ \E t \in Tasks : Merge(t) \/ Download(t) \/ Store(t)
        \/ Crash \/ UNCHANGED backtests
    BY DEF Next, vars, backtests, SyncRead, SyncDownload, SyncStore, PrefetchStart, PrefetchRead,
       PrefetchCommit, PrefetchAbort, Tick
  <1>5. ASSUME NEW t \in Tasks, NEW req \in Requests, StartFetch(t, req)
        PROVE  TaskInv' /\ MemInv'
    <2>. DEFINE win == Window(kind, req, Day(now))
                series == Ascending(StoredIn(win))
                worth == Restrict(db, StoredIn(win))
                f == [NoFetch EXCEPT !.at = "read", !.win = win, !.series = series,
                                     !.worth = worth]
    <2>1. task' = [task EXCEPT ![t] = f] /\ mem' = mem
      BY <1>5 DEF StartFetch
    <2>2. Day(now) \in Int
      BY <1>1, TimeFacts
    <2>3. win \in Windows
      BY <2>2, WindowType
    <2>. HIDE DEF win
    <2>4. /\ series \in Seq(Bars(kind)) /\ worth \in Answers(kind)
          /\ Priced(kind, [win |-> win, series |-> series, worth |-> worth], db)
      BY <1>1, <2>3, ReadFacts
    <2>. HIDE DEF series, worth
    <2>6. NoFetch \in Fetches(kind)
      BY NoFetchOK DEF FetchOK
    <2>7. /\ f \in Fetches(kind) /\ f.at = "read" /\ f.win = win /\ f.series = series
          /\ f.worth = worth
      BY <2>3, <2>4, <2>6 DEF Fetches
    <2>. HIDE DEF f
    <2>8. FetchOK(kind, f, db)
      BY <2>4, <2>7, SamePriced DEF FetchOK
    <2>9. FetchOK(kind, f, db')
      BY <1>1, <2>8, FetchGrows
    <2>. QED BY <1>1, <2>1, <2>9, TaskReplaced, MemKept
  <1>6. ASSUME NEW t \in Tasks, Merge(t)
        PROVE  TaskInv' /\ MemInv'
    <2>. DEFINE win == task[t].win
                gaps == Gaps(kind, task[t].series, win)
    <2>1. task[t] \in Fetches(kind) /\ FetchOK(kind, task[t], db')
      BY <1>2
    <2>2. /\ win \in Windows /\ Priced(kind, task[t], db')
          /\ task[t].series \in SoundSeries(win, Bars(kind))
      BY <2>1 DEF FetchOK, Fetches, Priced
    <2>3. ASSUME NEW e \in Hits(win), mem' = Put(mem, e),
                 task' = [task EXCEPT ![t].at = "done", ![t].series = e.series,
                                      ![t].worth = e.worth]
          PROVE  TaskInv' /\ MemInv'
      <3>1. e \in Entries(kind, db') /\ e.win = win
        BY <1>3, <2>3 DEF Hits, ToSet
      <3>2. Priced(kind, e, db') /\ e.series \in Seq(Bars(kind)) /\ e.worth \in Answers(kind)
        BY <3>1 DEF Entries
      <3>. DEFINE f == [task[t] EXCEPT !.at = "done", !.series = e.series, !.worth = e.worth]
      <3>3. task' = [task EXCEPT ![t] = f]
        BY <2>3
      <3>4. /\ f \in Fetches(kind) /\ f.at = "done" /\ f.win = win /\ f.series = e.series
            /\ f.worth = e.worth
        BY <2>1, <3>2 DEF Fetches
      <3>. HIDE DEF f, win
      <3>5. Priced(kind, f, db')
        BY <3>1, <3>2, <3>4, SamePriced
      <3>6. FetchOK(kind, f, db')
        BY <3>4, <3>5 DEF FetchOK
      <3>. QED BY <1>1, <2>3, <3>1, <3>3, <3>6, TaskReplaced, MemReplaced
    <2>4. ASSUME task' = [task EXCEPT ![t].at = "done"], mem' = Put(mem, Entry(task[t]))
          PROVE  TaskInv' /\ MemInv'
      <3>. DEFINE f == [task[t] EXCEPT !.at = "done"]
      <3>1. task' = [task EXCEPT ![t] = f]
        BY <2>4
      <3>2. /\ f \in Fetches(kind) /\ f.at = "done" /\ f.win = win
            /\ f.series = task[t].series /\ f.worth = task[t].worth
        BY <2>1 DEF Fetches
      <3>. HIDE DEF f
      <3>3. Priced(kind, f, db')
        BY <2>2, <3>2, SamePriced
      <3>4. FetchOK(kind, f, db')
        BY <3>2, <3>3 DEF FetchOK
      <3>5. Entry(task[t]) \in Entries(kind, db')
        BY <2>1, EntryFacts
      <3>. QED BY <1>1, <2>4, <3>1, <3>4, <3>5, TaskReplaced, MemReplaced
    <2>5. ASSUME gaps # <<>>, task' = [task EXCEPT ![t].at = "fetch", ![t].todo = gaps],
                 mem' = mem
          PROVE  TaskInv' /\ MemInv'
      <3>1. Planned(kind, task[t].series, win, gaps)
        BY <1>1, <2>2, <2>5, GapsFacts
      <3>. HIDE DEF gaps
      <3>. DEFINE f == [task[t] EXCEPT !.at = "fetch", !.todo = gaps]
      <3>2. task' = [task EXCEPT ![t] = f]
        BY <2>5
      <3>3. gaps \in Seq(GapSet)
        BY <3>1 DEF Planned
      <3>4. /\ f \in Fetches(kind) /\ f.at = "fetch" /\ f.win = win /\ f.todo = gaps
            /\ f.series = task[t].series /\ f.worth = task[t].worth
        BY <2>1, <3>3 DEF Fetches
      <3>. HIDE DEF f
      <3>5. Priced(kind, f, db')
        BY <2>2, <3>4, SamePriced
      <3>6. FetchOK(kind, f, db')
        BY <3>1, <3>4, <3>5 DEF FetchOK
      <3>. QED BY <1>1, <2>5, <3>2, <3>6, TaskReplaced, MemKept
    <2>. QED BY <1>6, <2>3, <2>4, <2>5 DEF Merge
  <1>7. ASSUME NEW t \in Tasks, Download(t)
        PROVE  TaskInv' /\ MemInv'
    <2>. DEFINE g == Head(task[t].todo)
    <2>1. task[t].at = "fetch" /\ mem' = mem
      BY <1>7 DEF Download
    <2>2. task[t] \in Fetches(kind) /\ FetchOK(kind, task[t], db') /\ Priced(kind, task[t], db')
      BY <1>2 DEF FetchOK
    <2>3. Planned(kind, task[t].series, task[t].win, task[t].todo)
      BY <2>1, <2>2 DEF FetchOK
    <2>4. g \in GapSet
      BY <2>3 DEF Planned
    <2>5. ASSUME NEW rows \in Yahoo(kind, g.from, g.to, Today(g), now) \cup {<<>>},
                 task' = [task EXCEPT ![t].at = "store", ![t].rows = rows]
          PROVE  TaskInv'
      <3>1. g.from \in Int /\ g.to \in Int /\ Today(g) \in Int
        BY <1>1, <2>4, TimeFacts DEF GapSet, Today
      <3>. HIDE DEF g
      <3>2. /\ rows \in Answers(kind)
            /\ \A b \in DOMAIN rows : g.from <= Day(b) /\ Day(b) < g.to
        <4>1. CASE rows = <<>>
          BY <4>1, NoRows
        <4>2. CASE rows \in Yahoo(kind, g.from, g.to, Today(g), now)
          <5>. DEFINE today == Today(g)
          <5>. HIDE DEF today
          <5>1. rows \in Yahoo(kind, g.from, g.to, today, now) /\ today \in Int
            BY <3>1, <4>2 DEF today
          <5>. QED BY <1>1, <3>1, <5>1, YahooFacts
        <4>. QED BY <2>5, <4>1, <4>2
      <3>. DEFINE f == [task[t] EXCEPT !.at = "store", !.rows = rows]
      <3>3. task' = [task EXCEPT ![t] = f]
        BY <2>5
      <3>4. /\ f \in Fetches(kind) /\ f.at = "store" /\ f.win = task[t].win /\ f.rows = rows
            /\ f.series = task[t].series /\ f.worth = task[t].worth /\ f.todo = task[t].todo
        BY <2>2, <3>2 DEF Fetches
      <3>. HIDE DEF f
      <3>5. Priced(kind, f, db')
        BY <2>2, <3>4, SamePriced
      <3>6. FetchOK(kind, f, db')
        BY <2>3, <3>2, <3>4, <3>5 DEF FetchOK, g
      <3>. QED BY <1>1, <3>3, <3>6, TaskReplaced
    <2>6. ASSUME task' = [task EXCEPT ![t] = NoFetch] PROVE TaskInv'
      BY <1>1, <2>6, NoFetchOK, TaskReplaced
    <2>. QED BY <1>1, <1>7, <2>1, <2>5, <2>6, MemKept DEF Download
  <1>8. ASSUME NEW t \in Tasks, Store(t)
        PROVE  TaskInv' /\ MemInv'
    <2>. DEFINE f == task[t]
                series == Joined(f.series, Head(f.todo).part, DOMAIN f.rows)
                worth == Worth(series, f.worth, f.rows)
                rest == Tail(f.todo)
                at == IF rest = <<>> THEN "done" ELSE "fetch"
                g == [f EXCEPT !.series = series, !.worth = worth, !.todo = rest,
                               !.rows = <<>>, !.at = at]
    <2>1. /\ f.at = "store" /\ db' = Save(f.rows)
          /\ task' = [task EXCEPT ![t] = g]
          /\ mem' = IF rest = <<>> THEN Put(mem, Entry(g)) ELSE mem
      BY <1>8 DEF Store
    <2>2. f \in Fetches(kind) /\ FetchOK(kind, f, db)
      BY <1>2
    <2>. HIDE DEF f, series, worth
    <2>3. /\ series \in Seq(Bars(kind)) /\ worth \in Answers(kind)
          /\ Priced(kind, [win |-> f.win, series |-> series, worth |-> worth], db')
          /\ rest \in Seq(GapSet)
          /\ rest # <<>> => Planned(kind, series, f.win, rest)
      BY <1>1, <2>1, <2>2, StoreFacts DEF series, worth
    <2>. HIDE DEF rest
    <2>4. at \in {"done", "fetch"} /\ (at = "fetch" => rest # <<>>)
      OBVIOUS
    <2>. HIDE DEF at
    <2>5. /\ g \in Fetches(kind) /\ g.at = at /\ g.win = f.win /\ g.series = series
          /\ g.worth = worth /\ g.todo = rest
      BY <2>2, <2>3, <2>4, NoRows DEF Fetches
    <2>. HIDE DEF g
    <2>6. Priced(kind, g, db')
      BY <2>3, <2>5, SamePriced
    <2>7. FetchOK(kind, g, db')
      BY <2>3, <2>4, <2>5, <2>6 DEF FetchOK
    <2>8. Entry(g) \in Entries(kind, db')
      BY <2>7, EntryFacts
    <2>. QED BY <1>1, <2>1, <2>7, <2>8, TaskReplaced, MemReplaced, MemKept
  <1>9. CASE Crash
    <2>1. mem' = <<>> /\ task' = [t \in Tasks |-> NoFetch]
      BY <1>9 DEF Crash
    <2>2. NoFetch \in Fetches(kind)
      BY NoFetchOK DEF FetchOK
    <2>3. TaskInv'
      BY <1>1, <2>1, <2>2, NoFetchOK DEF TaskInv
    <2>4. mem' \in Seq(Entries(kind, db')) /\ Len(mem') <= MemMax
      BY <2>1, StoreAssumption
    <2>. QED BY <1>1, <2>3, <2>4 DEF MemInv
  <1>10. CASE UNCHANGED backtests
    BY <1>1, <1>2, <1>10, MemKept DEF backtests, TaskInv
  <1>. QED BY <1>4, <1>5, <1>6, <1>7, <1>8, <1>9, <1>10

----------------------------------------------------------------------------
(* The theorems                                                            *)

LEMMA InitInv ==
  ASSUME Init
  PROVE  IInv
  <1>1. StoreInv
    BY NoRows, TimeFacts DEF Init, StoreInv
  <1>2. TaskInv
    <2>1. NoFetch \in Fetches(kind)
      BY NoFetchOK DEF FetchOK
    <2>. QED BY <2>1, NoFetchOK DEF Init, TaskInv
  <1>3. MemInv
    BY StoreAssumption DEF Init, MemInv
  <1>4. SyncInv
    BY NoRows DEF Init, SyncInv, SyncOK, NoSync
  <1>5. PrefetchInv
    BY NoRows DEF Init, PrefetchInv, PrefetchOK, NoPrefetch, Windows
  <1>6. HaInv
    BY DEF Init, HaInv
  <1>. QED BY <1>1, <1>2, <1>3, <1>4, <1>5, <1>6 DEF IInv

LEMMA Invariance == Spec => []IInv
  <1>1. Init => IInv
    BY InitInv
  <1>2. IInv /\ [Next]_vars => IInv'
    BY StoreStep, BacktestStep, SyncStep, PrefetchStep, HaStep DEF IInv
  <1>. QED BY <1>1, <1>2, PTL DEF Spec

\* The type of the store, the cache and what each program has in flight
\* (ohlcv_bars, BacktestOhlcMemoryCache), for any calendar and any requests.
THEOREM StoreTypeCorrect == Spec => []TypeOK
  <1>1. IInv => TypeOK
    <2> SUFFICES ASSUME IInv PROVE TypeOK
      OBVIOUS
    <2>1. kind \in Kinds /\ now \in Times /\ Stored(db)
      BY RowBars DEF IInv, StoreInv, RowSet, Stored, Rows, Quals
    <2>2. \A f \in Answers(kind) : Answer(f)
      BY RowBars DEF Answers, Answer, Rows, Worths
    <2>3. ASSUME NEW e, e.win \in Windows, e.series \in Seq(Bars(kind)), e.worth \in Answers(kind),
                 Priced(kind, e, db)
          PROVE  Series(e)
      BY <2>2, <2>3 DEF Series, Priced
    <2>4. /\ Len(mem) <= MemMax
          /\ \A i \in DOMAIN mem : Series(mem[i])
      <3>1. \A i \in DOMAIN mem : mem[i] \in Entries(kind, db)
        BY DEF IInv, MemInv
      <3>. QED BY <2>3, <3>1 DEF IInv, MemInv, Entries
    <2>5. \A t \in Tasks : /\ task[t].at \in {"idle", "read", "fetch", "store", "done"}
                           /\ Series(task[t])
                           /\ Answer(task[t].rows)
      BY <2>2, <2>3 DEF IInv, TaskInv, FetchOK, Fetches
    <2>6. sync.at \in {"idle", "fetch", "store"} /\ Answer(sync.rows)
      BY <2>2 DEF IInv, SyncInv, SyncOK
    <2>7. prefetch.at \in {"idle", "commit"} /\ Answer(prefetch.rows)
      BY <2>2 DEF IInv, PrefetchInv, PrefetchOK
    <2>. QED BY <2>1, <2>4, <2>5, <2>6, <2>7 DEF TypeOK, IInv, HaInv
  <1>. QED BY <1>1, Invariance, PTL

\* The series of a backtest, and those in memory, are ordered and inside their
\* window, whatever the other programs store between its read, its downloads
\* and its hits; its complete bars are stored; and a forming bar it was not to
\* download is one the table holds (_merge_cached_with_yfinance, save_bars).
THEOREM SeriesAreSound == Spec => []SeriesIsSound
  <1>1. IInv => SeriesIsSound
    <2> SUFFICES ASSUME IInv, NEW e \in {task[t] : t \in Tasks} \cup ToSet(mem)
                 PROVE  IsOrdered(e) /\ IsKept(e) /\ FormingIsStored(e)
      BY DEF SeriesIsSound
    <2>1. Priced(kind, e, db)
      <3>1. CASE e \in {task[t] : t \in Tasks}
        BY <3>1 DEF IInv, TaskInv, FetchOK
      <3>2. CASE e \in ToSet(mem)
        <4>1. e \in Entries(kind, db)
          BY <3>2 DEF IInv, MemInv, ToSet
        <4>. QED BY <4>1 DEF Entries
      <3>. QED BY <3>1, <3>2
    <2>2. IsOrdered(e)
      <3>1. e.series \in SoundSeries(e.win, Bars(kind))
        BY <2>1 DEF Priced
      <3>. QED BY <3>1, SeriesFacts DEF IsOrdered, Ordered
    <2>3. IsKept(e) /\ FormingIsStored(e)
      BY <2>1 DEF Priced, IsKept, FormingIsStored, Reaches, Reached
    <2>. QED BY <2>2, <2>3
  <1>. QED BY <1>1, Invariance, PTL

\* A run of the script that ends today or earlier marks no running month final
\* (compute_monthly_ha_rows_from_daily).
THEOREM RunningMonthsArePartial == Spec => RunningMonthsStayPartial
  <1>1. ASSUME IInv, [Next]_vars, NEW m \in Months, ha'[m] = "final", ha[m] # "final"
        PROVE  Month(Day(now)) > m \/ prefetch.win.last > Day(now)
    <2>1. PrefetchCommit
      BY <1>1 DEF Next, vars, others, StartFetch, Merge, Download, Store, Crash, SyncRead,
         SyncDownload, SyncStore, PrefetchStart, PrefetchRead, PrefetchAbort, Tick
    <2>2. prefetch.at = "commit"
      BY <2>1 DEF PrefetchCommit
    <2>3. PICK b \in Slice : Month(Day(b)) = m /\ m # Month(prefetch.win.last)
      BY <1>1, <2>1 DEF PrefetchCommit, HaRow
    <2>. DEFINE last == prefetch.win.last
    <2>4. last \in Int /\ Day(b) \in Int /\ Day(b) <= last
      BY <1>1, <2>2, SliceFacts
    <2>5. Day(now) \in Int
      BY <1>1, TimeFacts DEF IInv, StoreInv
    <2>6. m # Month(last)
      BY <2>3
    <2>. HIDE DEF last
    <2>7. m \in Int /\ Month(last) \in Int /\ m < Month(last)
      BY <2>3, <2>4, <2>6, MonthMonotone
    <2>8. last <= Day(now) => Month(last) <= Month(Day(now)) /\ Month(Day(now)) \in Int
      BY <2>4, <2>5, MonthMonotone
    <2>9. last > Day(now) \/ Month(Day(now)) > m
      BY <2>4, <2>5, <2>7, <2>8
    <2>. QED BY <2>9 DEF last
  <1>2. IInv /\ [Next]_vars =>
           [\A m \in Months :
               ha'[m] = "final" /\ ha[m] # "final" =>
                  \/ Month(Day(now)) > m
                  \/ prefetch.win.last > Day(now)]_vars
    BY <1>1
  <1>. QED BY <1>2, Invariance, PTL DEF Spec, RunningMonthsStayPartial

\* A bar that is still forming is stored only by a backtest whose download
\* reaches it or by the script with an --end; never by the collector.
THEOREM FormingBarsNeedARequest == Spec => FormingBarsAreAskedFor
  <1>. DEFINE A(b) == \/ \E t \in Tasks : /\ task[t].at = "store" /\ b \in DOMAIN task[t].rows
                                          /\ Reaches(task[t].win, b)
                      \/ prefetch.at = "commit" /\ prefetch.named
  <1>1. ASSUME IInv, [Next]_vars, NEW b \in DOMAIN db' \ DOMAIN db, db'[b] = "forming"
        PROVE  A(b)
    <2>1. kind \in Widths /\ db \in RowSet(kind)
      BY <1>1, CalendarAssumption DEF IInv, StoreInv, Widths
    <2>2. \/ \E t \in Tasks : Store(t)
          \/ SyncStore \/ PrefetchCommit \/ db' = db
      BY <1>1 DEF Next, vars, StartFetch, Merge, Download, Crash, SyncRead,
         SyncDownload, PrefetchStart, PrefetchRead, PrefetchAbort, Tick
    <2>0. ASSUME NEW rows \in Answers(kind), db' = Save(rows)
          PROVE  b \in DOMAIN rows /\ rows[b] = "forming"
      <3>1. \A c \in DOMAIN Save(rows) \ DOMAIN db : c \in DOMAIN rows /\ Save(rows)[c] = rows[c]
        BY <2>1, SaveFacts
      <3>2. b \in DOMAIN Save(rows) \ DOMAIN db /\ Save(rows)[b] = "forming"
        BY <1>1, <2>0
      <3>. QED BY <3>1, <3>2
    <2>3. ASSUME NEW t \in Tasks, Store(t) PROVE A(b)
      <3>1. task[t].at = "store" /\ db' = Save(task[t].rows)
        BY <2>3 DEF Store
      <3>2. task[t] \in Fetches(kind) /\ FetchOK(kind, task[t], db)
        BY <1>1 DEF IInv, TaskInv
      <3>3. /\ task[t].rows \in Answers(kind) /\ task[t].win \in Windows
            /\ Planned(kind, task[t].series, task[t].win, task[t].todo)
            /\ \A c \in DOMAIN task[t].rows : Day(c) < Head(task[t].todo).to
        BY <3>1, <3>2 DEF FetchOK, Fetches
      <3>4. b \in DOMAIN task[t].rows
        BY <2>0, <3>1, <3>3
      <3>5. /\ Head(task[t].todo) \in GapSet
            /\ GapOK(kind, task[t].series, task[t].win, Head(task[t].todo))
        BY <3>3 DEF Planned
      <3>6. /\ Day(b) \in Nat /\ Head(task[t].todo).to \in Int /\ task[t].win.last \in Int
            /\ Head(task[t].todo).to <= FetchEnd(kind, task[t].win)
        <4>1. b \in Bars(kind)
          BY <3>3, <3>4, RowBars DEF Answers
        <4>. QED BY <3>3, <3>5, <4>1, DayOrder DEF GapOK, GapSet, Windows
      <3>7. Reaches(task[t].win, b)
        BY <3>3, <3>4, <3>6 DEF FetchEnd, Reaches
      <3>. QED BY <3>1, <3>4, <3>7
    <2>4. CASE SyncStore
      <3>1. sync.at = "store" /\ (db' = Save(sync.rows) \/ db' = db)
        BY <2>4 DEF SyncStore
      <3>2. sync.rows \in Answers(kind) /\ \A c \in DOMAIN sync.rows : sync.rows[c] # "forming"
        BY <1>1, <3>1 DEF IInv, SyncInv, SyncOK
      <3>. QED BY <1>1, <2>0, <3>1, <3>2
    <2>5. CASE PrefetchCommit
      <3>1. prefetch.at = "commit" /\ db' = Save(prefetch.rows)
        BY <2>5 DEF PrefetchCommit
      <3>2. /\ prefetch.rows \in Answers(kind)
            /\ \A c \in DOMAIN prefetch.rows : prefetch.rows[c] = "forming" => prefetch.named
        BY <1>1, <3>1 DEF IInv, PrefetchInv, PrefetchOK
      <3>3. b \in DOMAIN prefetch.rows /\ prefetch.rows[b] = "forming"
        <4>. DEFINE rows == prefetch.rows
        <4>1. rows \in Answers(kind) /\ db' = Save(rows)
          BY <3>1, <3>2
        <4>. HIDE DEF rows
        <4>2. b \in DOMAIN rows /\ rows[b] = "forming"
          BY <2>0, <4>1
        <4>. QED BY <4>2 DEF rows
      <3>. QED BY <3>1, <3>2, <3>3
    <2>6. CASE db' = db
      BY <1>1, <2>6
    <2>. QED BY <2>2, <2>3, <2>4, <2>5, <2>6
  <1>2. IInv /\ [Next]_vars =>
           [\A b \in DOMAIN db' \ DOMAIN db :
               db'[b] = "forming" =>
                  \/ \E t \in Tasks : /\ task[t].at = "store" /\ b \in DOMAIN task[t].rows
                                      /\ Reaches(task[t].win, b)
                  \/ prefetch.at = "commit" /\ prefetch.named]_vars
    BY <1>1
  <1>. QED BY <1>2, Invariance, PTL DEF Spec, FormingBarsAreAskedFor
=============================================================================
