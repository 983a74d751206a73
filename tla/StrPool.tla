------------------------------ MODULE StrPool ------------------------------
(***************************************************************************)
(* The pool that keeps the strings of a list (str_pool.c): strings are put *)
(* one behind the other into a block, and into a new, larger block when    *)
(* they do not fit.  Strings are kept by their place and their size; what  *)
(* they say is left out.                                                   *)
(***************************************************************************)
EXTENDS Integers, Sequences

CONSTANTS
    InitialSize,    \* of the first block
    Lengths,        \* lengths of the strings
    MaxStrings      \* bound: strings put into the pool

PoolAssumption ==
    InitialSize \in Nat /\ Lengths \subseteq Nat /\ MaxStrings \in Nat

VARIABLES
    blocks,     \* the sizes of pool[i]->strings; the array of them may move
    idx,        \* pool[0]->idx, counted from 1 here
    pos, sz,    \* pool[0]->pos and pool[0]->sz
    strings,    \* what has been returned, with the bytes that were written
    freed       \* the blocks that deinit_str_pool has freed

vars == <<blocks, idx, pos, sz, strings, freed>>

init_str_pool ==
    /\ blocks = <<InitialSize>> /\ idx = 1 /\ pos = 0 /\ sz = InitialSize
    /\ strings = <<>> /\ freed = <<>>

\* s_len counts the string's zero; another one is written behind it.
Fits(s_len) == s_len < sz - pos

\* The string of length len and its zero, then one zero more.
Written(b, at, s_len) == [block |-> b, at |-> at, size |-> s_len + 1]

NextPos(at, s_len) == at + s_len + 1

PutBehind(s_len) ==
    /\ Fits(s_len)
    /\ pos' = NextPos(pos, s_len)
    /\ strings' = Append(strings, Written(idx, pos, s_len))
    /\ UNCHANGED <<blocks, idx, sz, freed>>

\* Mutant: the size of the old block is kept.
PutInNewBlock_keeps(s_len) ==
    /\ ~Fits(s_len)
    /\ blocks' = Append(blocks, sz + s_len + 1)
    /\ idx' = idx + 1 /\ pos' = NextPos(0, s_len)
    /\ strings' = Append(strings, Written(idx + 1, 0, s_len))
    /\ UNCHANGED <<sz, freed>>

PutInNewBlock(s_len) ==
    /\ ~Fits(s_len)
    /\ blocks' = Append(blocks, sz + s_len + 1)
    /\ idx' = idx + 1 /\ sz' = sz + s_len + 1 /\ pos' = NextPos(0, s_len)
    /\ strings' = Append(strings, Written(idx + 1, 0, s_len))
    /\ UNCHANGED freed

pool_str ==
    /\ freed = <<>> /\ Len(strings) < MaxStrings
    /\ \E len \in Lengths : PutBehind(len + 1) \/ PutInNewBlock(len + 1)

deinit_str_pool ==
    /\ freed = <<>> /\ freed' = [i \in 1..idx |-> i]
    /\ UNCHANGED <<blocks, idx, pos, sz, strings>>

Next == pool_str \/ deinit_str_pool

Spec == init_str_pool /\ [][Next]_vars

-----------------------------------------------------------------------------
(* Properties.                                                             *)

Strings == [block : Nat, at : Nat, size : Nat]

\* The types; the last block is the one in use, and its size is known.
TypeOK ==
    /\ blocks \in Seq(Nat) /\ strings \in Seq(Strings) /\ freed \in Seq(Nat)
    /\ idx = Len(blocks) /\ idx >= 1 /\ sz = blocks[idx]
    /\ pos \in 0..sz

\* Every byte that was written lies in its block; sz - pos never wraps.
InBounds ==
    \A i \in 1..Len(strings) :
        /\ strings[i].block \in 1..idx
        /\ strings[i].at + strings[i].size <= blocks[strings[i].block]

\* Two strings never share a byte, so that one put later spoils none.
Disjoint ==
    \A i, j \in 1..Len(strings) :
        i < j /\ strings[i].block = strings[j].block
            => strings[i].at + strings[i].size <= strings[j].at

\* Deinitialising frees each block once.
AllFreed == freed # <<>> => freed = [i \in 1..Len(blocks) |-> i]
=============================================================================
