------------------------------- MODULE KAlloc -------------------------------
(***************************************************************************)
(* klib's kalloc: blocks cut from the ends of free blocks of large cores,  *)
(* the free blocks in a circular list in the order of their addresses, and *)
(* neighbours merged when a block is freed.  Addresses and sizes are in    *)
(* units of a header.  The cores come from malloc, anywhere.               *)
(***************************************************************************)
EXTENDS Integers, FiniteSets, FiniteSetsExt, Functions

CONSTANTS
    Top,            \* addresses 1..Top
    MaxUnits,       \* bound: units of a block
    MaxCores,       \* bound: cores
    min_core_size

AllocAssumption ==
    Top \in Nat /\ MaxUnits \in Nat \ {0} /\ MaxCores \in Nat /\ min_core_size \in Nat \ {0}

NULL == -1

VARIABLES
    base,   \* where kmem_t is: below the cores or above them
    km,     \* the loop with its head, the cores, the blocks in use
    result  \* of the last call: the block it returned, or NULL

vars == <<base, km, result>>

Empty == [loop |-> <<>>, head |-> NULL, cores |-> <<>>, used |-> <<>>, panic |-> FALSE]

\* km_init: loop, cores and used map addresses to the blocks that begin there.
Init == base \in {0, Top + 2} /\ km = Empty /\ result = NULL

Without(f, x) == [y \in DOMAIN f \ {x} |-> f[y]]
With(f, x, v) == [y \in DOMAIN f \cup {x} |-> IF y = x THEN v ELSE f[y]]

\* The blocks in the order of the loop, from p on.
Walk(loop, p) ==
    LET f[k \in 1..Cardinality(DOMAIN loop)] ==
            IF k = 1 THEN p ELSE loop[f[k - 1]].ptr IN f

FirstIn(s, Test(_)) == s[Min({k \in DOMAIN s : Test(s[k])})]

-----------------------------------------------------------------------------
(* kfree.                                                                  *)

\* p comes after q: between two blocks, or at the ends of the loop.
Place(loop, q, p) ==
    LET n == loop[q].ptr IN
    \/ p > q /\ p < n
    \/ q >= n /\ (p > q \/ p < n)

\* Mutant: the last unit of the block is taken for the one behind it.
Adjacent_last(p, size, n) == p + size - 1 = n

\* The block of that size at p ends where n begins.
Adjacent(p, size, n) == p + size = n

\* The state s with the block p, of that size, in the loop; the new blocks are
\* merged with the next and then with the one before.
Freed(s, p, size) ==
    LET q == FirstIn(Walk(s.loop, s.head), LAMBDA x : Place(s.loop, x, p))
        n == s.loop[q].ptr
        joins == Adjacent(p, size, n)
        new == IF joins THEN [size |-> size + s.loop[n].size, ptr |-> s.loop[n].ptr]
               ELSE [size |-> size, ptr |-> n]
        rest == IF joins THEN Without(s.loop, n) ELSE s.loop
        bad == \/ ~joins /\ p + size > n /\ n >= p
               \/ ~Adjacent(q, s.loop[q].size, p) /\ q + s.loop[q].size > p /\ p >= q
    IN IF bad THEN [s EXCEPT !.panic = TRUE]
       ELSE IF Adjacent(q, s.loop[q].size, p)
         THEN [s EXCEPT !.head = q,
                 !.loop = With(rest, q, [size |-> s.loop[q].size + new.size, ptr |-> new.ptr])]
       ELSE [s EXCEPT !.head = p,
                 !.loop = With(With(rest, q, [s.loop[q] EXCEPT !.ptr = p]), p, new)]

-----------------------------------------------------------------------------
(* kmalloc.                                                                *)

\* The first call puts the base, of size zero, into the loop.
Started(s) ==
    IF s.head # NULL THEN s
    ELSE [s EXCEPT !.head = base, !.loop = [x \in {base} |-> [size |-> 0, ptr |-> base]]]

\* morecore: the core's first unit is its header.
CoreSize(n) == ((n + 1 + (min_core_size - 1)) \div min_core_size) * min_core_size

morecore(s, n, at) ==
    Freed([s EXCEPT !.cores = With(s.cores, at, [size |-> CoreSize(n)])], at + 1, CoreSize(n) - 1)

\* The blocks in the order of the search.
Searched(s) == Walk(s.loop, s.loop[s.head].ptr)

Fits(s, n) == \E x \in DOMAIN s.loop : s.loop[x].size >= n

\* Memory is allocated at the end of the block.
Cut(p, size, n) == p + (size - n)

\* The block of n units and the state with it, out of a state where one fits.
Taken(s, n) ==
    LET p == FirstIn(Searched(s), LAMBDA x : s.loop[x].size >= n)
        q == CHOOSE x \in DOMAIN s.loop : s.loop[x].ptr = p
        size == s.loop[p].size
        at == IF size = n THEN p ELSE Cut(p, size, n)
    IN [block |-> at,
        s |-> [s EXCEPT !.head = q, !.used = With(s.used, at, n),
                 !.loop = IF size = n
                            THEN With(Without(s.loop, p), q, [s.loop[q] EXCEPT !.ptr = s.loop[p].ptr])
                            ELSE [s.loop EXCEPT ![p].size = size - n]]]

\* malloc gives no two cores that touch, and none that touches km_t.
Free(s, at, size) ==
    /\ at + size - 1 <= Top
    /\ \A c \in DOMAIN s.cores : at + size < c \/ c + s.cores[c].size < at

\* What kmalloc may return in state s.
Allocated(s, n) ==
    IF Fits(Started(s), n) THEN {Taken(Started(s), n)}
    ELSE {Taken(morecore(Started(s), n, at), n) :
            at \in {a \in 1..Top : Free(s, a, CoreSize(n))}}

Room == Cardinality(DOMAIN km.cores) < MaxCores

kmalloc(n) ==
    /\ Room \/ Fits(Started(km), n)
    /\ \E r \in Allocated(km, n) : km' = r.s /\ result' = r.block
    /\ UNCHANGED base

kfree(p) ==
    /\ km' = Freed([km EXCEPT !.used = Without(km.used, p)], p, km.used[p])
    /\ result' = NULL /\ UNCHANGED base

\* krealloc: a block that is large enough stays.  krelocate always moves.
Moved(p, n) ==
    /\ Room \/ Fits(km, n)
    /\ \E r \in Allocated(km, n) :
          /\ km' = Freed([r.s EXCEPT !.used = Without(r.s.used, p)], p, r.s.used[p])
          /\ result' = r.block
    /\ UNCHANGED base

krealloc(p, n) ==
    IF km.used[p] >= n THEN result' = p /\ UNCHANGED <<base, km>> ELSE Moved(p, n)

krelocate(p, n) == n <= km.used[p] /\ Moved(p, n)

\* The cores are given back, with all that is in them.
km_destroy == km.head # NULL /\ km' = Empty /\ result' = NULL /\ UNCHANGED base

Next ==
    \/ \E n \in 1..MaxUnits :
          \/ kmalloc(n)
          \/ \E p \in DOMAIN km.used : krealloc(p, n) \/ krelocate(p, n)
    \/ \E p \in DOMAIN km.used : kfree(p)
    \/ km_destroy

Spec == Init /\ [][Next]_vars

-----------------------------------------------------------------------------
(* km_stat.                                                                *)

Sizes(f) == MapThenSumSet(LAMBDA x : f[x].size, DOMAIN f)

km_stat ==
    [available |-> Sizes(km.loop), capacity |-> Sizes(km.cores),
     n_blocks |-> Cardinality({p \in DOMAIN km.loop : km.loop[p].size # 0}),
     n_cores |-> Cardinality(DOMAIN km.cores),
     largest |-> Max({km.cores[c].size : c \in DOMAIN km.cores} \cup {0})]

-----------------------------------------------------------------------------
(* Properties.                                                             *)

\* Every unit of a core is its header, or of one free block, or of one block in
\* use: blocks do not overlap and no unit is lost.
Tiled ==
    \A c \in DOMAIN km.cores : \A u \in c..c + km.cores[c].size - 1 :
        Cardinality({p \in DOMAIN km.loop : u \in p..p + km.loop[p].size - 1})
          + Cardinality({p \in DOMAIN km.used : u \in p..p + km.used[p] - 1})
          + (IF u = c THEN 1 ELSE 0) = 1

\* The loop goes through all free blocks and the base once, upwards but for one
\* step, so that kfree finds the place of a block; and "the end of the allocated
\* block enters a free block" never, with callers that free a block once.
Loops ==
    /\ ~km.panic
    /\ km.head # NULL =>
        LET w == Walk(km.loop, km.head) IN
        /\ {w[k] : k \in DOMAIN w} = DOMAIN km.loop /\ base \in DOMAIN km.loop
        /\ km.loop[w[Cardinality(DOMAIN km.loop)]].ptr = km.head
        /\ Cardinality({p \in DOMAIN km.loop : km.loop[p].ptr <= p}) = 1

\* Two free blocks never touch, so a core without blocks in use is one free
\* block again.
Merged ==
    \A p, q \in DOMAIN km.loop : p + km.loop[p].size = q => p = q

\* What km_stat says is free, what is in use and the headers of the cores are all
\* that malloc gave; without a block in use there is a free block for each core.
StatsAdd ==
    /\ km_stat.capacity =
         km_stat.available + km_stat.n_cores + FoldFunction(+, 0, km.used)
    /\ DOMAIN km.used = {} => km_stat.n_blocks = km_stat.n_cores
=============================================================================
