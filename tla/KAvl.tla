-------------------------------- MODULE KAvl --------------------------------
(***************************************************************************)
(* klib's AVL tree with subtree sizes: insertion with one rebalancing at   *)
(* the lowest unbalanced ancestor, deletion with rebalancing up the path,  *)
(* rank queries, iterators and the destructor without a stack.             *)
(***************************************************************************)
EXTENDS Integers, Sequences, FiniteSets, FiniteSetsExt

CONSTANT MaxKey     \* bound: the nodes are 1..MaxKey, each its own key

AvlAssumption == MaxKey \in Nat

NULL == 0
fake == -1      \* the node whose child 0 is the root
Keys == 1..MaxKey

VARIABLE T      \* from nodes to their children p[0] and p[1], balance and size

Leaf == [p |-> [i \in 0..1 |-> NULL], balance |-> 0, size |-> 1]

Init == T = [n \in {fake} |-> [Leaf EXCEPT !.size = 0]]

Size(t, n) == IF n = NULL THEN 0 ELSE t[n].size

Sign(dir) == IF dir = 0 THEN 1 ELSE -1

\* The way from n towards x: nodes, each with the direction taken there.
RECURSIVE Down(_, _, _)
Down(t, n, x) ==
    IF n \in {NULL, x} THEN <<>>
    ELSE LET dir == IF n # fake /\ x > n THEN 1 ELSE 0
         IN <<[at |-> n, dir |-> dir]>> \o Down(t, t[n].p[dir], x)

Link(t, step, n) == [t EXCEPT ![step.at].p[step.dir] = n]

\* The sizes of the nodes of a path change by k.
Resize(t, path, k) ==
    [n \in DOMAIN t |-> IF \E i \in DOMAIN path : path[i].at = n
                          THEN [t[n] EXCEPT !.size = @ + k] ELSE t[n]]

-----------------------------------------------------------------------------
(* Rotations.  Each returns the tree and the new root of the subtree.      *)

\* (a,(b,c)q)p => ((a,b)p,c)q
kavl_rotate1(t, p, dir) ==
    LET q == t[p].p[1 - dir] IN
    [root |-> q,
     t |-> [t EXCEPT ![p].size = @ - (t[q].size - Size(t, t[q].p[dir])), ![q].size = t[p].size,
              ![p].p[1 - dir] = t[q].p[dir], ![q].p[dir] = p]]

\* Mutant: the balance of the two halves does not depend on the middle.
Halves_zero(b, b1) == [p |-> 0, q |-> 0]

\* The balance of p and q when the node between them had balance b.
Halves(b, b1) ==
    CASE b = b1 -> [q |-> 0, p |-> -b1] [] b = 0 -> [q |-> 0, p |-> 0] [] OTHER -> [q |-> b1, p |-> 0]

\* (a,((b,c)r,d)q)p => ((a,b)p,(c,d)q)r
kavl_rotate2(t, p, dir) ==
    LET q == t[p].p[1 - dir]
        r == t[q].p[dir]
        x == Size(t, t[r].p[dir])
        b == Halves(t[r].balance, Sign(dir))
    IN [root |-> r,
        t |-> [t EXCEPT
                 ![r] = [p |-> [i \in 0..1 |-> IF i = dir THEN p ELSE q],
                         balance |-> 0, size |-> t[p].size],
                 ![p] = [p |-> [@.p EXCEPT ![1 - dir] = t[r].p[dir]],
                         balance |-> b.p, size |-> @.size - (t[q].size - x)],
                 ![q] = [p |-> [@.p EXCEPT ![dir] = t[r].p[1 - dir]],
                         balance |-> b.q, size |-> @.size - (x + 1)]]]

-----------------------------------------------------------------------------
(* kavl_insert.                                                            *)

\* bp: the lowest node on the path that is not balanced, or else the root.
Lowest(t, path) == Max({i \in 2..Len(path) : t[path[i].at].balance # 0} \cup {2})

Hung(t, x) ==
    LET path == Down(t, fake, x)
        t1 == [n \in DOMAIN t \cup {x} |->
                 IF n = x THEN Leaf ELSE Link(t, path[Len(path)], x)[n]]
    IN Resize(t1, Tail(path), 1)

\* The balance factors change from bp down to the new node.
Weighed(t, path, x) ==
    [n \in DOMAIN t |->
       IF \E i \in Lowest(t, path)..Len(path) : path[i].at = n
         THEN [t[n] EXCEPT !.balance = @ - Sign(IF x > n THEN 1 ELSE 0)] ELSE t[n]]

kavl_insert(x) ==
    LET path == Down(T, fake, x)
        t == Weighed(Hung(T, x), path, x)
        above == path[Lowest(T, path) - 1]
        bp == path[Lowest(T, path)].at
        which == IF t[bp].balance < 0 THEN 1 ELSE 0
        q == t[bp].p[1 - which]
        r == IF t[q].balance = Sign(which)
               THEN LET one == kavl_rotate1(t, bp, which)
                    IN [one EXCEPT !.t[q].balance = 0, !.t[bp].balance = 0]
               ELSE kavl_rotate2(t, bp, which)
    IN /\ x \notin DOMAIN T
       /\ T' = IF Len(path) = 1 \/ t[bp].balance \in -1..1 THEN t ELSE Link(r.t, above, r.root)

-----------------------------------------------------------------------------
(* kavl_erase.                                                             *)

\* The nodes of the path lose one node below them.
Lighter(t, path) == Resize(t, path, -1)

\* The way from q to the leftmost node below it.
RECURSIVE Leftmost(_, _)
Leftmost(t, q) ==
    IF t[q].p[0] = NULL THEN <<>> ELSE <<[at |-> q, dir |-> 0]>> \o Leftmost(t, t[q].p[0])

\* p is replaced by its only child, by its right child, or by the leftmost node
\* of its right subtree; and the path down to where the tree became lower.
Unhung(t, path, p) ==
    LET q == t[p].p[1]
        way == IF q = NULL THEN <<>> ELSE Leftmost(t, q)
        up == path[Len(path)]
    IN IF q = NULL THEN [t |-> Link(t, up, t[p].p[0]), path |-> path]
       ELSE IF way = <<>>
         THEN [t |-> [Link(t, up, q) EXCEPT ![q] = [t[p] EXCEPT !.p[1] = t[q].p[1], !.size = @ - 1]],
               path |-> Append(path, [at |-> q, dir |-> 1])]
       ELSE LET low == way[Len(way)]
                r == t[low.at].p[0]
                t1 == Lighter(Link(Link(t, up, r), low, t[r].p[1]), way)
            IN [t |-> [t1 EXCEPT ![r] = [t[p] EXCEPT !.size = @ - 1]],
                path |-> Append(path, [at |-> r, dir |-> 1]) \o way]

\* The nodes of the path from k up: one side became lower by one.
RECURSIVE Lowered(_, _, _)
Lowered(t, path, k) ==
    LET q == path[k].at
        which == path[k].dir
        b1 == Sign(which)
        t1 == [t EXCEPT ![q].balance = @ + b1]
        r == t[q].p[1 - which]
        two == kavl_rotate2(t1, q, which)
        one == kavl_rotate1(t1, q, which)
    IN IF k = 1 THEN t
       ELSE IF t1[q].balance = b1 THEN t1
       ELSE IF t1[q].balance # 2 * b1 THEN Lowered(t1, path, k - 1)
       ELSE IF t[r].balance = -b1 THEN Lowered(Link(two.t, path[k - 1], two.root), path, k - 1)
       ELSE LET turned == Link(one.t, path[k - 1], one.root) IN
            IF t[r].balance = 0
              THEN [turned EXCEPT ![r].balance = -b1, ![q].balance = b1]
            ELSE Lowered([turned EXCEPT ![r].balance = 0, ![q].balance = 0], path, k - 1)

Erased(p) ==
    LET path == Down(T, fake, p)
        u == Unhung(Lighter(T, Tail(path)), path, p)
        t == Lowered(u.t, u.path, Len(u.path))
    IN [n \in DOMAIN T \ {p} |-> t[n]]

kavl_erase(x) == x \in DOMAIN T /\ T' = Erased(x)

\* Without an argument, the first node.
kavl_erase_first ==
    LET way == Leftmost(T, fake) IN
    Len(way) > 0 /\ T' = Erased(T[way[Len(way)].at].p[0])

Next == (\E x \in Keys : kavl_insert(x) \/ kavl_erase(x)) \/ kavl_erase_first

Spec == Init /\ [][Next]_T

-----------------------------------------------------------------------------
(* Queries.                                                                *)

root == T[fake].p[0]

\* The number of nodes smaller than or equal to x.
RECURSIVE Count(_, _)
Count(n, x) ==
    IF n = NULL THEN 0
    ELSE IF x < n THEN Count(T[n].p[0], x)
    ELSE Size(T, T[n].p[0]) + 1 + (IF x = n THEN 0 ELSE Count(T[n].p[1], x))

\* kavl_interval: l and u, the neighbours of x.
RECURSIVE Interval(_, _, _, _)
Interval(n, x, l, u) ==
    IF n = NULL THEN [lower |-> l, upper |-> u]
    ELSE IF x < n THEN Interval(T[n].p[0], x, l, n)
    ELSE IF x > n THEN Interval(T[n].p[1], x, n, u)
    ELSE [lower |-> n, upper |-> n]

\* The iterator is a stack of nodes, the last one being where it is.
RECURSIVE Chain(_, _)
Chain(n, dir) == IF n = NULL THEN <<>> ELSE <<n>> \o Chain(T[n].p[dir], dir)

kavl_itr_first == Chain(root, 0)

kavl_itr_find(x) ==
    LET w == Down(T, root, x)
    IN [k \in DOMAIN w |-> w[k].at] \o (IF x \in DOMAIN T THEN <<x>> ELSE <<>>)

RECURSIVE Up(_, _)
Up(stack, dir) ==
    LET p == stack[Len(stack)]
        rest == SubSeq(stack, 1, Len(stack) - 1)
    IN IF rest # <<>> /\ p = T[rest[Len(rest)]].p[dir] THEN Up(rest, dir) ELSE rest

kavl_itr_next_bidir(stack, dir) ==
    LET p == T[stack[Len(stack)]].p[dir]
    IN IF p # NULL THEN stack \o Chain(p, 1 - dir) ELSE Up(stack, dir)

\* What an iterator shows on its way, from a stack on.
RECURSIVE Seen(_, _)
Seen(stack, dir) ==
    IF stack = <<>> THEN <<>>
    ELSE <<stack[Len(stack)]>> \o Seen(kavl_itr_next_bidir(stack, dir), dir)

\* kavl_free: the nodes in the order they are freed.  A left child is turned to
\* the top until there is none.
RECURSIVE kavl_free(_, _)
kavl_free(t, p) ==
    IF p = NULL THEN <<>>
    ELSE LET q == t[p].p[0] IN
         IF q = NULL THEN <<p>> \o kavl_free(t, t[p].p[1])
         ELSE kavl_free([t EXCEPT ![p].p[0] = t[q].p[1], ![q].p[1] = p], q)

-----------------------------------------------------------------------------
(* Properties.                                                             *)

Nodes == DOMAIN T \ {fake}

RECURSIVE Height(_)
Height(n) == IF n = NULL THEN 0 ELSE 1 + Max({Height(T[n].p[0]), Height(T[n].p[1])})

RECURSIVE Below(_)
Below(n) == IF n = NULL THEN {} ELSE {n} \cup Below(T[n].p[0]) \cup Below(T[n].p[1])

\* After every insertion and deletion the balance factors are the differences of
\* the heights, and at most one.
Balanced ==
    \A n \in Nodes :
        T[n].balance = Height(T[n].p[1]) - Height(T[n].p[0]) /\ T[n].balance \in -1..1

\* The subtree sizes survive every rotation and replacement, so that the counts of
\* kavl_find are ranks; and the neighbours of kavl_interval are the nearest ones.
RanksAndIntervals ==
    /\ \A n \in Nodes : T[n].size = Cardinality(Below(n))
    /\ \A x \in Keys :
          LET i == Interval(root, x, NULL, NULL) IN
          /\ Count(root, x) = Cardinality({n \in Nodes : n <= x})
          /\ i.lower = Max({n \in Nodes : n <= x} \cup {NULL})
          /\ i.upper = IF \E n \in Nodes : n >= x THEN Min({n \in Nodes : n >= x}) ELSE NULL

\* Both iterators show every node once and in order, and the destructor frees
\* every node once.
Traversals ==
    LET up == Seen(kavl_itr_first, 1)
        down == Seen(kavl_itr_find(Max(Nodes \cup {NULL})), 0)
        freed == kavl_free(T, root)
    IN /\ Len(up) = Cardinality(Nodes) /\ {up[k] : k \in DOMAIN up} = Nodes
       /\ \A k \in 1..Len(up) - 1 : up[k] < up[k + 1]
       /\ Nodes # {} => Len(down) = Len(up) /\ \A k \in DOMAIN up : down[Len(up) + 1 - k] = up[k]
       /\ Len(freed) = Cardinality(Nodes) /\ {freed[k] : k \in DOMAIN freed} = Nodes
=============================================================================
