--------------------------- MODULE MCStatusServer ---------------------------
(* Small instances of StatusServer.                                        *)
EXTENDS StatusServer, TLC

Frame(k, i, c) == [kind |-> k, id |-> i, cmd |-> c]

MCFrames == {Frame("map", 1, 1), Frame("map", 2, 5), Frame("invalid", 0, 0),
             Frame("badlen", 0, 0)}
FewFrames == {Frame("map", 1, 1), Frame("badlen", 0, 0)}
=============================================================================
