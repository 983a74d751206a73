------------------------------- MODULE KSort --------------------------------
(***************************************************************************)
(* klib's sorting algorithms, on sequences of elements that have a key and *)
(* an identity: merge, heap, comb, intro and radix sort, selection and     *)
(* shuffling.                                                              *)
(***************************************************************************)
EXTENDS Integers, Sequences, SequencesExt, FiniteSets, FiniteSetsExt

CONSTANTS
    MaxLen, Digit,  \* bounds: elements; values of a digit of a key (two digits)
    Levels,         \* introsort goes that deep (2) for each doubling of the elements
    SmallPart,      \* introsort leaves parts of that size (16) to insertion sort
    RS_MIN_SIZE     \* and radix sort buckets of that size (64)

SortAssumption ==
    /\ MaxLen \in Nat /\ Digit \in Nat \ {0, 1} /\ Levels \in Nat \ {0}
    /\ SmallPart \in Nat /\ RS_MIN_SIZE \in Nat

lt(x, y) == x.key < y.key

Swap(a, i, j) == [a EXCEPT ![i] = a[j], ![j] = a[i]]

\* op(... op(op(a, from), from + 1) ..., to), or downwards.
UpTo(a, from, to, op(_, _)) == FoldLeft(op, a, [i \in 1..to - from + 1 |-> from + i - 1])
DownTo(a, from, to, op(_, _)) == FoldLeft(op, a, [i \in 1..from - to + 1 |-> from + 1 - i])

-----------------------------------------------------------------------------
(* Merge sort: runs of step elements are merged into runs of twice as many.*)

\* The second run's element comes first.
Second(x, y) == lt(Head(y), Head(x))

RECURSIVE Merged(_, _)
Merged(x, y) ==
    IF x = <<>> THEN y ELSE IF y = <<>> THEN x
    ELSE IF Second(x, y) THEN <<Head(y)>> \o Merged(x, Tail(y))
    ELSE <<Head(x)>> \o Merged(Tail(x), y)

Run(a, from, step) == SubSeq(a, from, IF from + step - 1 < Len(a) THEN from + step - 1 ELSE Len(a))

RECURSIVE MergedFrom(_, _)
MergedFrom(a, step) ==
    IF step >= Len(a) THEN a
    ELSE LET pairs == (Len(a) + 2 * step - 1) \div (2 * step)
             pair(r) == Merged(Run(a, 2 * step * (r - 1) + 1, step), Run(a, 2 * step * r + 1 - step, step))
         IN MergedFrom(FlattenSeq([r \in 1..pairs |-> pair(r)]), 2 * step)

ks_mergesort(a) == MergedFrom(a, 1)

-----------------------------------------------------------------------------
(* Heap sort.                                                              *)

\* The element tmp sinks from i among the first n elements.
RECURSIVE Sink(_, _, _, _)
Sink(l, i, n, tmp) ==
    LET k == IF 2 * i < n /\ lt(l[2 * i], l[2 * i + 1]) THEN 2 * i + 1 ELSE 2 * i
    IN IF 2 * i > n \/ lt(l[k], tmp) THEN [l EXCEPT ![i] = tmp]
       ELSE Sink([l EXCEPT ![i] = l[k]], k, n, tmp)

ks_heapadjust(i, n, l) == Sink(l, i, n, l[i])

ks_heapmake(l) == DownTo(l, Len(l) \div 2, 1, LAMBDA m, i : ks_heapadjust(i, Len(l), m))

ks_heapsort(l) == DownTo(l, Len(l), 2, LAMBDA m, i : ks_heapadjust(1, i - 1, Swap(m, 1, i)))

-----------------------------------------------------------------------------
(* Insertion sort and comb sort of the elements s..t.                      *)

RECURSIVE Back(_, _, _)
Back(a, j, s) == IF j > s /\ lt(a[j], a[j - 1]) THEN Back(Swap(a, j, j - 1), j - 1, s) ELSE a

insertsort(a, s, t) == UpTo(a, s + 1, t, LAMBDA b, i : Back(b, i, s))

\* gap / 1.2473309501039786540366528676643 (so to four digits up to 115), and never 9 or 10.
Shrunk(gap) ==
    LET g == (gap * 10000) \div 12473
    IN IF gap <= 2 THEN gap ELSE IF g \in {9, 10} THEN 11 ELSE g

RECURSIVE Combed(_, _, _, _)
Combed(a, s, t, gap) ==
    LET g == Shrunk(gap)
        b == UpTo(a, s, t - g, LAMBDA c, i : IF lt(c[i + g], c[i]) THEN Swap(c, i, i + g) ELSE c)
    IN IF b # a \/ g > 2 THEN Combed(b, s, t, g)
       ELSE IF g # 1 THEN insertsort(b, s, t) ELSE b

ks_combsort(a, s, t) == Combed(a, s, t, t - s + 1)

-----------------------------------------------------------------------------
(* Introsort: quicksort with a stack, comb sort where it goes too deep.    *)

\* The place of the median of the first, a middle and the last element.
Pivot(a, i, j) ==
    LET k == i + (j - i) \div 2 + 1
    IN IF lt(a[k], a[i]) THEN IF lt(a[k], a[j]) THEN j ELSE k
       ELSE IF lt(a[j], a[i]) THEN i ELSE j

\* From both sides, elements on the wrong side of a[t] are swapped.
RECURSIVE Parted(_, _, _, _)
Parted(a, i0, j0, t) ==
    LET i == Min({x \in i0 + 1..t : ~lt(a[x], a[t])})
        j == IF j0 - 1 < i THEN j0 - 1 ELSE Max({x \in i..j0 - 1 : ~lt(a[t], a[x])} \cup {i - 1})
    IN IF j <= i THEN [a |-> Swap(a, i, t), at |-> i] ELSE Parted(Swap(a, i, j), i, j, t)

Part(s, t, d) == IF t - s + 1 > SmallPart THEN <<[left |-> s, right |-> t, depth |-> d]>> ELSE <<>>

\* When the stack is empty all is nearly sorted.
Finish(a) == insertsort(a, 1, Len(a))

RECURSIVE Intro(_, _, _, _, _)
Intro(a, s, t, d, stack) ==
    IF s >= t
      THEN IF stack = <<>> THEN Finish(a)
           ELSE Intro(a, Last(stack).left, Last(stack).right, Last(stack).depth, Front(stack))
    ELSE IF d = 1 THEN Intro(ks_combsort(a, s, t), s, s, 0, stack)
    ELSE LET p == Parted(Swap(a, Pivot(a, s, t), t), s, t, t)
             low == Part(s, p.at - 1, d - 1)
             high == Part(p.at + 1, t, d - 1)
         IN IF p.at - s > t - p.at
              THEN Intro(p.a, IF high # <<>> THEN p.at + 1 ELSE t, t, d - 1, stack \o low)
            ELSE Intro(p.a, s, IF low # <<>> THEN p.at - 1 ELSE s, d - 1, stack \o high)

Depth(n) == Levels * Min({d \in 2..n + 2 : 2^d >= n})

ks_introsort(a) ==
    IF Len(a) < 1 THEN a
    ELSE IF Len(a) = 2 THEN IF lt(a[2], a[1]) THEN Swap(a, 1, 2) ELSE a
    ELSE Intro(a, 1, Len(a), Depth(Len(a)), <<>>)

-----------------------------------------------------------------------------
(* Selection.                                                              *)

\* From both sides, elements on the wrong side of a[low] are swapped.
RECURSIVE Halved(_, _, _, _)
Halved(a, low, l0, h0) ==
    LET ll == Min({x \in l0 + 1..Len(a) : ~lt(a[x], a[low])})
        hh == Max({x \in 1..h0 - 1 : ~lt(a[low], a[x])})
    IN IF hh < ll THEN [a |-> Swap(a, low, hh), ll |-> ll, hh |-> hh]
       ELSE Halved(Swap(a, ll, hh), low, ll, hh)

\* Mutant: the first element of the part above is skipped.
Low_past(h, low, k) == IF h.hh <= k THEN h.ll + 1 ELSE low

\* Where the search for the k-th goes on.
Low(h, low, k) == IF h.hh <= k THEN h.ll ELSE low

RECURSIVE Small(_, _, _, _)
Small(a, low, high, k) ==
    LET order(b, i, j) == IF lt(b[i], b[j]) THEN Swap(b, i, j) ELSE b
        mid == low + (high - low) \div 2
        a1 == order(order(order(a, high, mid), high, low), low, mid)
        h == Halved(Swap(a1, mid, low + 1), low, low + 1, high)
    IN IF high <= low THEN a[k]
       ELSE IF high = low + 1 THEN order(a, high, low)[k]
       ELSE Small(h.a, Low(h, low, k), IF h.hh >= k THEN h.hh - 1 ELSE high, k)

ks_ksmall(a, k) == Small(a, 1, Len(a), k)

-----------------------------------------------------------------------------
(* Shuffling, with the choices c of drand48.                               *)

\* One of the first i elements, for each i.
Draws(n) == {c \in [1..n -> 1..n] : \A i \in 1..n : c[i] <= i}

ks_shuffle(a, c) == DownTo(a, Len(a), 2, LAMBDA b, i : Swap(b, c[i], i))

-----------------------------------------------------------------------------
(* Radix sort by the higher digit (s = 1) and then by the lower one.       *)

digit(x, s) == IF s = 1 THEN x.key \div Digit ELSE x.key % Digit

rs_insertsort(a, lo, hi) == insertsort(a, lo, hi)

\* tmp goes to the front of its bucket l, what was there to the front of its own,
\* until one belongs to bucket k.  p has the fronts of the buckets.
RECURSIVE Chased(_, _, _, _, _)
Chased(a, p, tmp, k, s) ==
    LET l == digit(tmp, s)
        r == [a |-> [a EXCEPT ![p[l]] = tmp], p |-> [p EXCEPT ![l] = @ + 1]]
    IN IF l = k THEN r ELSE Chased(r.a, r.p, a[p[l]], k, s)

\* The buckets from k on are filled; e has their ends.
RECURSIVE Filled(_, _, _, _, _)
Filled(a, k, p, e, s) ==
    IF k = Digit THEN a
    ELSE IF p[k] = e[k] THEN Filled(a, k + 1, p, e, s)
    ELSE LET r == Chased(a, p, a[p[k]], k, s) IN Filled(r.a, k, r.p, e, s)

\* Small buckets are sorted by insertion.
Bucket(a, lo, hi) == rs_insertsort(a, lo, hi)

RECURSIVE rs_sort(_, _, _, _)
rs_sort(a, lo, hi, s) ==
    LET first(d) == lo + Cardinality({i \in lo..hi : digit(a[i], s) < d})
        p == [d \in 0..Digit - 1 |-> first(d)]
        e == [d \in 0..Digit - 1 |-> first(d + 1)]
        b == Filled(a, 0, p, e, s)
    IN IF s = 0 THEN b
       ELSE UpTo(b, 0, Digit - 1, LAMBDA c, d :
              IF e[d] - p[d] > RS_MIN_SIZE THEN rs_sort(c, p[d], e[d] - 1, 0)
              ELSE IF e[d] - p[d] > 1 THEN Bucket(c, p[d], e[d] - 1) ELSE c)

radix_sort(a) == IF Len(a) <= RS_MIN_SIZE THEN rs_insertsort(a, 1, Len(a)) ELSE rs_sort(a, 1, Len(a), 1)

-----------------------------------------------------------------------------
VARIABLES a, sorted

Init ==
    /\ sorted = FALSE
    /\ \E keys \in SeqOf(0..Digit * Digit - 1, MaxLen) :
          a = [i \in DOMAIN keys |-> [key |-> keys[i], id |-> i]]

Next == ~sorted /\ sorted' = TRUE /\ UNCHANGED a

Spec == Init /\ [][Next]_<<a, sorted>>

-----------------------------------------------------------------------------
(* Properties.                                                             *)

Ordered(b) == \A i \in 1..Len(b) - 1 : ~lt(b[i + 1], b[i])
Same(b) == DOMAIN b = DOMAIN a /\ {b[i] : i \in DOMAIN b} = {a[i] : i \in DOMAIN a}

\* Comb sort, heap sort and introsort give the same elements in order, wherever
\* equal keys are and however the pivots fall.
Sorts ==
    \A b \in {ks_introsort(a), ks_combsort(a, 1, Len(a)), ks_heapsort(ks_heapmake(a))} :
        Ordered(b) /\ Same(b)

\* Merge sort also keeps the order of equal elements: "The previous version is not
\* stable" is of the past.
MergesStably ==
    LET b == ks_mergesort(a) IN
    Same(b) /\ \A i, j \in DOMAIN b : i < j => ~lt(b[j], b[i]) /\ (~lt(b[i], b[j]) => b[i].id < b[j].id)

\* The selection of any rank is the element sorting would put there.
SelectsRank ==
    \A k \in DOMAIN a :
        LET x == ks_ksmall(a, k) IN
        /\ Cardinality({i \in DOMAIN a : lt(a[i], x)}) < k
        /\ Cardinality({i \in DOMAIN a : ~lt(x, a[i])}) >= k

\* Radix sort moves every element along its cycle once and sorts by both digits.
RadixSorts == Ordered(radix_sort(a)) /\ Same(radix_sort(a))

\* Shuffling brings every order by the same number of choices.
ShufflesEvenly ==
    LET n == Len(a)
        orders == {ks_shuffle(a, c) : c \in Draws(n)}
    IN n <= 4 =>
        /\ \A b \in orders : Same(b)
        /\ Cardinality(orders) = Cardinality(Draws(n))
        /\ Cardinality(orders) = Cardinality({b \in [1..n -> {a[i] : i \in DOMAIN a}] : Same(b)})
=============================================================================
