------------------------------- MODULE KHash --------------------------------
(***************************************************************************)
(* klib's hash table with open addressing: probing by growing steps, a     *)
(* deleted mark that keeps probes going, and a rehash in place.            *)
(***************************************************************************)
EXTENDS Naturals, FiniteSets, FiniteSetsExt

CONSTANTS
    Keys, Vals,
    HashOf,         \* __hash_func: a function from Keys to numbers
    MaxBuckets      \* bound: buckets of the table

HashAssumption == \A k \in Keys : HashOf[k] \in Nat

NoEntry == [flag |-> "empty"]
Live(k, v) == [flag |-> "live", key |-> k, val |-> v]
Deleted == [flag |-> "del"]

VARIABLE h      \* the table: buckets 0..n_buckets - 1 and two counters

Empty(n) == [i \in 0..n - 1 |-> NoEntry]

\* kh_init.
Init == h = [n_buckets |-> 0, b |-> Empty(0), size |-> 0, n_occupied |-> 0]

upper_bound(n) == (n * 77 + 50) \div 100

\* kroundup32.
Roundup(n) == CHOOSE p \in {2^e : e \in 0..16} : p >= n /\ \A q \in {2^e : e \in 0..16} : q >= n => p <= q

-----------------------------------------------------------------------------
(* Probing.                                                                *)

\* The bucket of step s; after n steps all buckets were visited.
Probe(k, n, s) == (HashOf[k] + (s * (s + 1)) \div 2) % n

\* Mutant: a deleted bucket ends the search.
Ends_del(t, k, i) == t.b[i].flag \in {"empty", "del"} \/ t.b[i].key = k

\* The search for k ends at an empty bucket or at k.
Ends(t, k, i) == t.b[i].flag = "empty" \/ (t.b[i].flag = "live" /\ t.b[i].key = k)

Last(t, k) ==
    LET stops == {s \in 0..t.n_buckets - 1 : Ends(t, k, Probe(k, t.n_buckets, s))}
    IN IF stops = {} THEN t.n_buckets ELSE Min(stops)

kh_get(t, k) ==
    IF t.n_buckets = 0 \/ Last(t, k) = t.n_buckets THEN t.n_buckets
    ELSE LET i == Probe(k, t.n_buckets, Last(t, k))
         IN IF t.b[i].flag = "live" THEN i ELSE t.n_buckets

\* The bucket kh_put takes: where k is, or else the last deleted one on the way.
Slot(t, k) ==
    LET n == t.n_buckets
        dels == {s \in 0..Last(t, k) - 1 : t.b[Probe(k, n, s)].flag = "del"}
        i == Probe(k, n, Last(t, k) % n)
    IN IF dels # {} /\ (Last(t, k) = n \/ t.b[i].flag = "empty")
         THEN Probe(k, n, Max(dels)) ELSE i

-----------------------------------------------------------------------------
(* kh_resize.                                                              *)

\* The bucket i of the old table holds an element that has not moved yet.
Kicks(r, i) == i < r.n_buckets /\ r.old[i] = "live"

\* Mutant: the keys are swapped and the values are not.
Kicked_key(there, e) == Live(there.key, e.val)

\* What moves on when e takes the place of an element of the old table.
Kicked(there, e) == there

\* The element e of the old table is put into the first empty bucket of the new
\* one.  Both tables share the arrays: what is there is kicked out and moves on.
RECURSIVE Place(_, _, _)
Place(r, e, n) ==
    LET s == Min({x \in 0..n - 1 : ~r.new[Probe(e.key, n, x)]})
        i == Probe(e.key, n, s)
        r1 == [r EXCEPT !.new[i] = TRUE, !.b[i] = e]
    IN IF Kicks(r, i) THEN Place([r1 EXCEPT !.old[i] = "del"], Kicked(r.b[i], e), n) ELSE r1

Rehashed(t, n) ==
    LET size == IF n > t.n_buckets THEN n ELSE t.n_buckets
        f[j \in 0..t.n_buckets] ==
            IF j = 0
              THEN [n_buckets |-> t.n_buckets,
                    b |-> [i \in 0..size - 1 |-> IF i < t.n_buckets THEN t.b[i] ELSE NoEntry],
                    old |-> [i \in 0..t.n_buckets - 1 |-> t.b[i].flag],
                    new |-> [i \in 0..n - 1 |-> FALSE]]
            ELSE LET r == f[j - 1] IN
                 IF r.old[j - 1] = "live" THEN Place([r EXCEPT !.old[j - 1] = "del"], r.b[j - 1], n)
                 ELSE r
        done == f[t.n_buckets]
    IN [n_buckets |-> n, size |-> t.size, n_occupied |-> t.size,
        b |-> [i \in 0..n - 1 |-> IF done.new[i] THEN done.b[i] ELSE NoEntry]]

Rounded(n) == IF Roundup(n) < 4 THEN 4 ELSE Roundup(n)

\* The requested size is too small.
TooSmall(t, n) == t.size >= upper_bound(n)

Resized(t, n) == IF TooSmall(t, Rounded(n)) THEN t ELSE Rehashed(t, Rounded(n))

-----------------------------------------------------------------------------
(* Operations.                                                             *)

\* kh_put asks for as many buckets (which clears the deleted ones) or for more.
Wanted(t) == IF t.n_buckets > 2 * t.size THEN t.n_buckets - 1 ELSE t.n_buckets + 1

Full(t) == t.n_occupied >= upper_bound(t.n_buckets)

Occupied(t, x) == IF t.b[x].flag = "empty" THEN t.n_occupied + 1 ELSE t.n_occupied

\* kh_put and the assignment of the value by its caller.  When kmalloc or krealloc
\* fails it returns -1 and changes nothing.
kh_put(k, v) ==
    LET t == IF Full(h) THEN Resized(h, Wanted(h)) ELSE h
        x == Slot(t, k)
    IN /\ Full(h) => Rounded(Wanted(h)) <= MaxBuckets
       /\ h' = IF t.b[x].flag = "live" THEN [t EXCEPT !.b[x] = Live(k, v)]
               ELSE [t EXCEPT !.b[x] = Live(k, v), !.size = @ + 1, !.n_occupied = Occupied(t, x)]

kh_del(k) ==
    LET x == kh_get(h, k) IN
    /\ x # h.n_buckets
    /\ h' = [h EXCEPT !.b[x] = Deleted, !.size = @ - 1]

kh_resize(n) == Rounded(n) <= MaxBuckets /\ h' = Resized(h, n)

kh_clear ==
    /\ h.n_buckets > 0
    /\ h' = [h EXCEPT !.b = Empty(h.n_buckets), !.size = 0, !.n_occupied = 0]

Next ==
    \/ \E k \in Keys, v \in Vals : kh_put(k, v)
    \/ \E k \in Keys : kh_del(k)
    \/ \E n \in {1, 5} : kh_resize(n)
    \/ kh_clear

Spec == Init /\ [][Next]_h

-----------------------------------------------------------------------------
(* Properties.                                                             *)

LiveBuckets == {i \in 0..h.n_buckets - 1 : h.b[i].flag = "live"}

\* Lookups find what was put and not deleted: kh_get says n_buckets or the bucket
\* of the key, whatever was deleted, kicked out and rehashed before.
Found ==
    \A k \in Keys :
        LET there == {i \in LiveBuckets : h.b[i].key = k} IN
        IF there = {} THEN kh_get(h, k) = h.n_buckets ELSE there = {kh_get(h, k)}

\* The counters tell the truth, and probing ends: a bucket is always empty.
Counts ==
    /\ h.size = Cardinality(LiveBuckets)
    /\ h.n_occupied = Cardinality({i \in 0..h.n_buckets - 1 : h.b[i].flag # "empty"})
    /\ h.n_buckets > 0 => h.n_occupied < h.n_buckets

content ==
    [k \in {h.b[i].key : i \in LiveBuckets} |->
        h.b[CHOOSE i \in LiveBuckets : h.b[i].key = k].val]

Map == INSTANCE KMap

\* The table is a map: rehashing changes no element, a put and a delete one.
MapStep == Map!Next \/ content' = content
=============================================================================
