------------------------------- MODULE KQueue -------------------------------
(***************************************************************************)
(* What klib's double-ended queue and its list promise: a sequence.        *)
(***************************************************************************)
EXTENDS Sequences, SequencesExt

CONSTANT Values

VARIABLE content

Init == content = <<>>

Push(v) == content' = Append(content, v)
Unshift(v) == content' = <<v>> \o content
Pop == content # <<>> /\ content' = Front(content)
Shift == content # <<>> /\ content' = Tail(content)

Next == (\E v \in Values : Push(v) \/ Unshift(v)) \/ Pop \/ Shift

Spec == Init /\ [][Next]_content
=============================================================================
