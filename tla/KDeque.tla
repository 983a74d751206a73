------------------------------- MODULE KDeque -------------------------------
(***************************************************************************)
(* klib's double-ended queue: a ring of a power of two of elements that is *)
(* unrolled when it is resized.                                            *)
(***************************************************************************)
EXTENDS Integers, Sequences

CONSTANTS
    Values,
    InitBits,   \* 2 in the code
    MaxBits     \* bound: the ring has up to 2^MaxBits elements

DequeAssumption ==
    0 \notin Values /\ InitBits \in Nat /\ MaxBits \in Nat /\ InitBits <= MaxBits

Junk == 0

VARIABLE q      \* kdq_t: the memory a, front, count and bits

Size(x) == 2^x.bits

Init == q = [a |-> [i \in 0..2^InitBits - 1 |-> Junk], front |-> 0, count |-> 0, bits |-> InitBits]

\* kdq_at.
kdq_at(x, i) == x.a[(x.front + i) % Size(x)]

\* memmove of n elements from src to dst.
memmove(a, dst, src, n) == [i \in DOMAIN a |-> IF i \in dst..dst + n - 1 THEN a[src + i - dst] ELSE a[i]]

\* Mutant: the tail of a ring that wraps stays where it is.
Unrolled_stays(x, a, new) == [a |-> a, front |-> x.front]

\* The elements of a ring of Size(x) in a ring of new elements.
Unrolled(x, a, new) ==
    LET old == Size(x)
        top == x.front + x.count
        front == new - (old - x.front)
    IN IF top > old THEN [a |-> memmove(a, front, x.front, old - x.front), front |-> front]
       ELSE IF top > new THEN [a |-> memmove(a, 0, new, top - new), front |-> x.front]
       ELSE [a |-> a, front |-> x.front]

\* The requested size, or one that is large enough.
Bits(x, new_bits) ==
    IF 2^new_bits >= x.count THEN new_bits
    ELSE CHOOSE b \in 0..MaxBits + 1 : 2^b > x.count /\ \A c \in 0..b - 1 : 2^c <= x.count

\* kdq_resize.  The memory is never given back: bits is set before it is compared.
Resized(x, new_bits) ==
    LET bits == Bits(x, new_bits)
        a == [i \in 0..2^bits - 1 |-> IF i \in DOMAIN x.a THEN x.a[i] ELSE Junk]
        r == Unrolled(x, IF bits > x.bits THEN a ELSE x.a, 2^bits)
    IN IF bits = x.bits THEN x ELSE [x EXCEPT !.a = r.a, !.front = r.front, !.bits = bits]

\* A full ring gets twice as large.
Roomy(x) == IF x.count = Size(x) THEN Resized(x, x.bits + 1) ELSE x

Room == q.count < Size(q) \/ q.bits < MaxBits

kdq_push(v) ==
    LET x == Roomy(q) IN
    Room /\ q' = [x EXCEPT !.a[(x.count + x.front) % Size(x)] = v, !.count = @ + 1]

kdq_unshift(v) ==
    LET x == Roomy(q)
        front == IF x.front = 0 THEN Size(x) - 1 ELSE x.front - 1
    IN Room /\ q' = [x EXCEPT !.a[front] = v, !.front = front, !.count = @ + 1]

kdq_pop == q.count > 0 /\ q' = [q EXCEPT !.count = @ - 1]

kdq_shift == q.count > 0 /\ q' = [q EXCEPT !.count = @ - 1, !.front = (@ + 1) % Size(q)]

\* A caller asks for half the ring, when the first element is in its lower half.
\* A ring that is full then gets twice as large instead.
kdq_resize ==
    /\ q.bits > 0 /\ q.front < Size(q) \div 2 /\ Bits(q, q.bits - 1) <= MaxBits
    /\ q' = Resized(q, q.bits - 1)

Next ==
    \/ \E v \in Values : kdq_push(v) \/ kdq_unshift(v)
    \/ kdq_pop \/ kdq_shift \/ kdq_resize

Spec == Init /\ [][Next]_q

-----------------------------------------------------------------------------
(* Properties.                                                             *)

content == [i \in 1..q.count |-> kdq_at(q, i - 1)]

Sequence == INSTANCE KQueue

\* The ring is a sequence: growing and shrinking it, wrapped or not, changes no
\* element and no order.
QueueStep == Sequence!Next \/ content' = content

\* What kdq_first reads without the mask is the first element.
FirstIsFirst == q.count > 0 => q.front < Size(q) /\ q.a[q.front] = kdq_at(q, 0)
=============================================================================
