---------------------------- MODULE ChanStructure ----------------------------
(* The bar structure of the Chan strategy (strategies/chan_structure.py):    *)
(* bars in inclusion are merged, a merged bar above or below both neighbours *)
(* is a fractal, fractals far enough apart end strokes, and the last strokes *)
(* may overlap in a price range.  A bar is a record of h, l and c.  The      *)
(* moving-average filter (off by default) is left out.                       *)
EXTENDS Integers, Sequences, FiniteSets, FiniteSetsExt, SequencesExt, Listing

CONSTANTS
    BarLimit,     \* bar_limit: the bars that are looked at
    MinSep,       \* min_fractal_sep
    StrokeCount,  \* zhongshu_stroke_count
    UseBi, UseZhongshu, BuyAboveZg, SellBelowZd   \* the filters that are on

ASSUME ChanAssumption == BarLimit \in Nat \ {0, 1}

\* _ranges_overlap_inclusion
Includes(a, b) == (a.h >= b.h /\ a.l <= b.l) \/ (b.h >= a.h /\ b.l <= a.l)

UpwardOfPair(merged, a, b) ==       \* a variant: the bar before is not looked at
    b.h > a.h \/ (b.h = a.h /\ b.l >= a.l)

\* _merge_direction: up if the first bar is higher than the one before it; when
\* there is none, if the second is higher than the first.
Upward(merged, a, b) ==
    LET p == IF merged = <<>> THEN a ELSE Last(merged)
        q == IF merged = <<>> THEN b ELSE a
    IN  \/ q.h > p.h
        \/ q.h = p.h /\ q.l > p.l
        \/ q.h = p.h /\ q.l = p.l /\ q.c >= p.c

\* _merge_pair
MergePair(merged, a, b) ==
    IF Upward(merged, a, b)
    THEN [h |-> Max({a.h, b.h}), l |-> Max({a.l, b.l}), c |-> b.c]
    ELSE [h |-> Min({a.h, b.h}), l |-> Min({a.l, b.l}), c |-> b.c]

\* The new bar is merged with the last one for as long as one includes the other.
Settle(merged, b) ==
    LET n == Len(merged)
        grown[k \in 0 .. n] ==            \* merged with the last k
            IF k = 0 THEN b
            ELSE MergePair(SubSeq(merged, 1, n - k), merged[n - k + 1], grown[k - 1])
        includes(k) == k < n /\ Includes(merged[n - k], grown[k])
        times == CHOOSE k \in 0 .. n : ~includes(k) /\ \A j \in 0 .. k - 1 : includes(j)
    IN  Append(SubSeq(merged, 1, n - times), grown[times])

MergeInclusions(bs) ==
    FoldLeft(Settle, <<>>, [i \in DOMAIN bs |-> [h |-> bs[i].h, l |-> bs[i].l, c |-> bs[i].c]])

\* raw_fractals: index and kind of each.
IsTop(m, i) == m[i].h > m[i - 1].h /\ m[i].h > m[i + 1].h
IsBottom(m, i) == m[i].l < m[i - 1].l /\ m[i].l < m[i + 1].l
RawFractals(m) ==
    LET at == Ascending({i \in 2 .. Len(m) - 1 : IsTop(m, i) \/ IsBottom(m, i)})
    IN  [k \in DOMAIN at |-> [at |-> at[k],
                              kind |-> IF IsTop(m, at[k]) THEN "top" ELSE "bottom"]]

\* collapse_adjacent_same_fractals: of two in a row the more extreme one stays.
KeepExtreme(m, out, f) ==
    IF out = <<>> \/ Last(out).kind # f.kind THEN Append(out, f)
    ELSE IF IF f.kind = "top" THEN m[f.at].h >= m[Last(out).at].h
                              ELSE m[f.at].l <= m[Last(out).at].l
         THEN Append(Front(out), f) ELSE out

Collapse(m, fractals) == FoldLeft(LAMBDA out, f : KeepExtreme(m, out, f), <<>>, fractals)

Fractals(m) == Collapse(m, RawFractals(m))

\* build_strokes: from the last fractal of one kind to one of the other kind
\* that is at least MinSep merged bars away.
AddFractal(s, f) ==
    IF s.prev = <<>> \/ s.prev[1].kind = f.kind THEN [s EXCEPT !.prev = <<f>>]
    ELSE IF f.at - s.prev[1].at < MinSep THEN s
    ELSE [prev |-> <<f>>,
          out |-> Append(s.out, [from |-> s.prev[1].at, to |-> f.at,
                                 dir |-> IF f.kind = "top" THEN "up" ELSE "down"])]

Strokes(fractals) == FoldLeft(AddFractal, [prev |-> <<>>, out |-> <<>>], fractals).out

\* zhongshu_from_last_strokes: the range the last strokes share, or <<>>.
Zhongshu(m, strokes) ==
    LET last == SubSeq(strokes, Len(strokes) - StrokeCount + 1, Len(strokes))
        seg(s) == s.from .. s.to
        zd == Max({Min({m[i].l : i \in seg(s)}) : s \in ToSet(last)})
        zg == Min({Max({m[i].h : i \in seg(s)}) : s \in ToSet(last)})
    IN  IF Len(strokes) < StrokeCount \/ zd >= zg THEN <<>> ELSE <<zd, zg>>

\* mvp_chan_signal_at_last_bar: the fractal that the last bar confirms is the
\* one before the last merged bar; a sell is decided first.
ChanSignal(bs) ==
    LET m == MergeInclusions(bs)
        fractals == Fractals(m)
        strokes == Strokes(fractals)
        zs == IF UseZhongshu THEN Zhongshu(m, strokes) ELSE <<>>
        close == Last(bs).c
        confirmed(kind) == \E f \in ToSet(fractals) : f.at = Len(m) - 1 /\ f.kind = kind
        ended(dir) == ~UseBi \/ \E s \in ToSet(strokes) : s.to = Len(m) - 1 /\ s.dir = dir
    IN  IF Len(bs) < 3 \/ Len(m) < 3 THEN "hold"
        ELSE IF confirmed("top") /\ ended("up")
        THEN IF zs # <<>> /\ SellBelowZd /\ close >= zs[1] THEN "hold" ELSE "sell"
        ELSE IF confirmed("bottom") /\ ended("down")
                /\ ~(zs # <<>> /\ BuyAboveZg /\ close <= zs[2])
        THEN "buy"
        ELSE "hold"

\* What a chart of the bars shows: its fractals and its strokes.
ChanChart(bs) ==
    LET f == Fractals(MergeInclusions(bs)) IN <<f, Strokes(f)>>

\* The merged bar that the last of some bars may confirm as a fractal.
Confirmable(bs) == Len(MergeInclusions(bs)) - 1
=============================================================================
