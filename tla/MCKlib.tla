------------------------------- MODULE MCKlib -------------------------------
(***************************************************************************)
(* The parts of klib, checked side by side in one run: a behaviour is a    *)
(* behaviour of one part.  The cells v1 to v12 hold that part's variables, *)
(* in the order of its INSTANCE.                                           *)
(***************************************************************************)
EXTENDS Integers, Sequences, SequencesExt

VARIABLES part, v1, v2, v3, v4, v5, v6, v7, v8, v9, v10, v11, v12

all == <<part, v1, v2, v3, v4, v5, v6, v7, v8, v9, v10, v11, v12>>

-----------------------------------------------------------------------------
(* Threads.                                                                *)

\* No batch is dropped; and later steps may return NULL, which ends a worker.
Pipeline == INSTANCE KtPipeline WITH
    n_threads <- 3, n_steps <- 3, MaxBatches <- 5, MaxWakes <- 2, Drops <- FALSE,
    step <- v1, index <- v2, data <- v3, next <- v4, mutex <- v5, pc <- v6, batches <- v7,
    begun <- v8, passed <- v9, wakes <- v10

Drops == INSTANCE KtPipeline WITH
    n_threads <- 3, n_steps <- 3, MaxBatches <- 3, MaxWakes <- 1, Drops <- TRUE,
    step <- v1, index <- v2, data <- v3, next <- v4, mutex <- v5, pc <- v6, batches <- v7,
    begun <- v8, passed <- v9, wakes <- v10

For == INSTANCE KtFor WITH
    ThreadCounts <- {1, 2, 3}, JobCounts <- {0, 1, 4, 7},
    n_threads <- v1, n <- v2, i <- v3, seen <- v4, pc <- v5, main <- v6, runs <- v7

\* Two calls of a pool, without and with a spurious wakeup.
Pool == INSTANCE KtForpool WITH
    ThreadCounts <- {1, 2, 3}, JobCounts <- {0, 3, 4}, MaxCalls <- 2, MaxWakes <- 0,
    n_threads <- v1, n <- v2, i <- v3, seen <- v4, pc <- v5, main <- v6, runs <- v7,
    n_pending <- v8, action <- v9, mutex <- v10, calls <- v11, wakes <- v12

Wakes == INSTANCE KtForpool WITH
    ThreadCounts <- {1, 2, 3}, JobCounts <- {0, 3, 4}, MaxCalls <- 2, MaxWakes <- 1,
    n_threads <- v1, n <- v2, i <- v3, seen <- v4, pc <- v5, main <- v6, runs <- v7,
    n_pending <- v8, action <- v9, mutex <- v10, calls <- v11, wakes <- v12

-----------------------------------------------------------------------------
(* Data.                                                                   *)

Texts == {<<>>, <<"a">>, <<"b", "a">>, <<"a", "b", "b">>}
Numbers == {-128, -10, -9, 0, 9, 10, 127, 255}

\* The end of a line in every form, and lines longer than the room for them.
StringLines ==
    {<<"a">>, <<"\n">>, <<"\r", "\n">>, <<"a", "\r", "\n", "b">>, <<"\r", "a", "\n">>,
     <<"a", "b", "a", "b", "a", "\n">>, <<"a", "b", "a", "\r", "\n">>, <<"b", "b", "\r">>}

String == INSTANCE KString WITH
    Lines <- StringLines, MaxLen <- 7, Room <- 3, Width <- 8, Fails <- FALSE,
    l <- v1, m <- v2, mem <- v3, text <- v4, closed <- v5, beyond <- v6, failed <- v7

\* realloc may fail, unseen too, and the caller stops at the first EOF.
StringFails == INSTANCE KString WITH
    Lines <- {<<"a">>, <<"a", "b", "a", "\r", "\n">>}, MaxLen <- 5, Room <- 3, Width <- 8, Fails <- TRUE,
    l <- v1, m <- v2, mem <- v3, text <- v4, closed <- v5, beyond <- v6, failed <- v7

Search == INSTANCE KSearch WITH
    Chars <- {"a", "b", " "}, Spaces <- {" "}, MaxStr <- 5, MaxPat <- 4,
    SepSets <- {{}, {"a"}, {"a", " "}}, case <- v1, done <- v2

\* Two cores of at least four units, blocks of up to four.
Alloc == INSTANCE KAlloc WITH
    Top <- 11, MaxUnits <- 4, MaxCores <- 2, min_core_size <- 4,
    base <- v1, km <- v2, result <- v3

\* Three of five keys begin at one bucket of four, two at one of eight.
Hash == INSTANCE KHash WITH
    Keys <- 1..5, Vals <- {1, 2}, HashOf <- <<2, 6, 10, 3, 7>>, MaxBuckets <- 16, h <- v1

\* Nine keys: both rotations, in insertions and in deletions.
Avl == INSTANCE KAvl WITH MaxKey <- 9, T <- v1

Word(name) == [kind |-> "word", name |-> name, opts |-> <<>>]
Short(opts) == [kind |-> "short", opts |-> opts]
Long(name, has_arg, value, partial) ==
    [kind |-> "long", name |-> name, has_arg |-> has_arg, value |-> value, opts |-> <<>>,
     exact |-> IF name = "" \/ partial > 0 THEN 0 ELSE 1, partial |-> partial]

\* The options of klib's own test: -x, -y with an argument, --foo, --bar with an
\* argument, --opt with or without.  The last word is no name and no prefix of one.
Words ==
    {Word("a"), Word("b"), [kind |-> "dashes", opts |-> <<>>],
     Short(<<"x">>), Short(<<"x", "y">>), Short(<<"y", "x">>), Short(<<"u", "x">>),
     Long("bar", 1, <<>>, 0), Long("opt", 2, <<"v">>, 1), Long("", 0, <<>>, 0)}

Opt == INSTANCE KetOpt WITH
    MaxWords <- 3, Known <- {"x", "y"}, TakesArg <- {"y"},
    argv <- v1, permute <- v2, s <- v3, said <- v4, given <- v5

\* Parts of one element instead of sixteen are left, and buckets of two instead of
\* 64; introsort gives up at half its depth.
Sort == INSTANCE KSort WITH
    MaxLen <- 6, Digit <- 2, Levels <- 1, SmallPart <- 1, RS_MIN_SIZE <- 2,
    a <- v1, sorted <- v2

\* A line, or lines of that width.
RECURSIVE Wrapped(_, _, _)
Wrapped(s, width, eol) ==
    IF Len(s) <= width THEN s \o eol
    ELSE SubSeq(s, 1, width) \o eol \o Wrapped(SubSeq(s, width + 1, Len(s)), width, eol)

\* A record as FASTQ if it has a quality, or else as FASTA.
Text(r, width, eol) ==
    LET comment == IF r.comment = <<>> THEN <<>> ELSE <<" ">> \o r.comment IN
    (IF r.qual # <<>> THEN <<"@">> ELSE <<">">>)
        \o r.name \o comment \o eol \o Wrapped(r.seq, width, eol)
        \o (IF r.qual # <<>> THEN <<"+">> \o eol \o Wrapped(r.qual, width, eol) ELSE <<>>)

Record(name, comment, seq, qual) ==
    [name |-> name, comment |-> comment, seq |-> seq, qual |-> qual]

\* Qualities are any characters, those that begin headers too.
FileRecords ==
    {Record(<<"n">>, <<>>, <<"A", "C">>, <<>>),
     Record(<<"n">>, <<"c">>, <<"A", "C">>, <<"@", ">">>),
     Record(<<"n", "2">>, <<>>, <<"A">>, <<"+">>),
     Record(<<"n">>, <<>>, <<"A", "C", "G">>, <<"+", "@", "I">>)}

\* Two records in four formats, and all texts of up to five characters.
Files ==
    {[records |-> r, text |-> FlattenSeq([k \in DOMAIN r |-> Text(r[k], width, eol)])] :
        r \in FileRecords \X FileRecords, width \in {1, 3}, eol \in {<<"\n">>, <<"\r", "\n">>}}
      \cup {[records |-> <<>>, text |-> t] : t \in SeqOf({">", "+", "\n", "A"}, 5) \ {<<>>}}

Seqs == INSTANCE KSeq WITH file <- v1, ks <- v2, last_char <- v3, got <- v4

\* Rings of two to eight elements; lists of up to three.
Deque == INSTANCE KDeque WITH Values <- {1, 2}, InitBits <- 1, MaxBits <- 3, q <- v1

List == INSTANCE KList WITH
    Values <- {1, 2}, MaxNodes <- 4, mp <- v1, kl <- v2, node <- v3, freed <- v4

ASSUME PartsAssumption ==
    /\ Pipeline!PipelineAssumption /\ Drops!PipelineAssumption /\ For!ForAssumption
    /\ Pool!ForAssumption /\ Pool!ForpoolAssumption /\ Wakes!ForpoolAssumption
    /\ String!KStringAssumption /\ StringFails!KStringAssumption
    /\ Search!SearchAssumption /\ Alloc!AllocAssumption /\ Hash!HashAssumption
    /\ Avl!AvlAssumption /\ Sort!SortAssumption /\ Deque!DequeAssumption
    /\ List!ListAssumption

-----------------------------------------------------------------------------
\* The cells a part does not use, and their values.
from11 == <<v11, v12>>
from8 == <<v8, v9, v10, from11>>
from6 == <<v6, v7, from8>>
from5 == <<v5, from6>>
from4 == <<v4, from5>>
from3 == <<v3, from4>>
from2 == <<v2, from3>>

Zero11 == v11 = 0 /\ v12 = 0
Zero8 == v8 = 0 /\ v9 = 0 /\ v10 = 0 /\ Zero11
Zero6 == v6 = 0 /\ v7 = 0 /\ Zero8
Zero5 == v5 = 0 /\ Zero6
Zero4 == v4 = 0 /\ Zero5
Zero3 == v3 = 0 /\ Zero4
Zero2 == v2 = 0 /\ Zero3

Init ==
    \/ part = "pipeline" /\ Pipeline!Init /\ Zero11
    \/ part = "drops" /\ Drops!Init /\ Zero11
    \/ part = "for" /\ For!Init /\ Zero8
    \/ part = "pool" /\ Pool!PoolInit
    \/ part = "wakes" /\ Wakes!PoolInit
    \/ part = "string" /\ String!Init /\ Zero8
    \/ part = "stringFails" /\ StringFails!Init /\ Zero8
    \/ part = "search" /\ Search!Init /\ Zero3
    \/ part = "alloc" /\ Alloc!Init /\ Zero4
    \/ part = "hash" /\ Hash!Init /\ Zero2
    \/ part = "avl" /\ Avl!Init /\ Zero2
    \/ part = "opt" /\ Opt!Init /\ Zero6
    \/ part = "sort" /\ Sort!Init /\ Zero3
    \/ part = "seq" /\ Seqs!Init /\ Zero5
    \/ part = "deque" /\ Deque!Init /\ Zero2
    \/ part = "list" /\ List!Init /\ Zero5

PipelineStep == part = "pipeline" /\ Pipeline!Next /\ UNCHANGED <<part, from11>>
DropsStep == part = "drops" /\ Drops!Next /\ UNCHANGED <<part, from11>>
ForStep == part = "for" /\ For!Next /\ UNCHANGED <<part, from8>>
PoolStep == part = "pool" /\ Pool!PoolNext /\ UNCHANGED part
WakesStep == part = "wakes" /\ Wakes!PoolNext /\ UNCHANGED part
StringStep == part = "string" /\ String!Next /\ UNCHANGED <<part, from8>>
StringFailsStep ==
    part = "stringFails" /\ StringFails!Goes /\ StringFails!Next /\ UNCHANGED <<part, from8>>
SearchStep == part = "search" /\ Search!Next /\ UNCHANGED <<part, from3>>
AllocStep == part = "alloc" /\ Alloc!Next /\ UNCHANGED <<part, from4>>
HashStep == part = "hash" /\ Hash!Next /\ UNCHANGED <<part, from2>>
AvlStep == part = "avl" /\ Avl!Next /\ UNCHANGED <<part, from2>>
OptStep == part = "opt" /\ Opt!Next /\ UNCHANGED <<part, from6>>
SortStep == part = "sort" /\ Sort!Next /\ UNCHANGED <<part, from3>>
SeqStep == part = "seq" /\ Seqs!Next /\ UNCHANGED <<part, from5>>
DequeStep == part = "deque" /\ Deque!Next /\ UNCHANGED <<part, from2>>
ListStep == part = "list" /\ List!Next /\ UNCHANGED <<part, from5>>

Next ==
    \/ PipelineStep \/ DropsStep \/ ForStep \/ PoolStep \/ WakesStep
    \/ StringStep \/ StringFailsStep \/ SearchStep \/ AllocStep \/ HashStep \/ AvlStep
    \/ OptStep \/ SortStep \/ SeqStep \/ DequeStep \/ ListStep

\* Thread t of the part there is.
Thread(t) ==
    \/ part = "pipeline" /\ Pipeline!Step(t) /\ UNCHANGED <<part, from11>>
    \/ part = "drops" /\ Drops!Step(t) /\ UNCHANGED <<part, from11>>
    \/ part = "for" /\ t < v1 /\ For!Worker(t) /\ UNCHANGED <<part, from8>>
    \/ part = "pool" /\ t < v1 /\ Pool!PoolWorker(t) /\ UNCHANGED part

\* Its caller; and the caller of ketopt, who goes on until -1.
Caller ==
    \/ part = "for" /\ For!Main /\ UNCHANGED <<part, from8>>
    \/ part = "pool" /\ Pool!PoolMain /\ UNCHANGED part
    \/ OptStep

\* The fairness of KtPipeline, KtFor, KtForpool and KetOpt.
Spec == Init /\ [][Next]_all /\ WF_all(Caller) /\ \A t \in 0..2 : WF_all(Thread(t))

-----------------------------------------------------------------------------
(* Properties.                                                             *)

\* kt_pipeline has one worker at a step and takes every batch through all steps;
\* kt_for and kt_forpool do each job, and once, and leave no thread at work.  With
\* a spurious wakeup kt_forpool may do a job twice: Once is not asked of it then.
ThreadsSound ==
    /\ part = "pipeline" => Pipeline!TypeOK /\ Pipeline!OneAtAStep /\ Pipeline!AllPassed
    /\ part = "drops" => Drops!OneAtAStep
    /\ part = "for" => For!TypeOK /\ For!Once /\ For!AllRun
    /\ part = "pool" => Pool!PoolTypeOK /\ Pool!Once /\ Pool!NoneLate /\ Pool!Finished
    /\ part = "wakes" => Wakes!NoneLate /\ Wakes!Finished

\* The strings, the allocator, the tables and trees, the parsers and the sorts of
\* klib say what they hold, however they came to it, and in bounds: kvsprintf and
\* kgetline leave them after a realloc that fails, and only then.
DataSound ==
    /\ part = "string" =>
          String!TypeOK /\ String!NeverBeyond /\ String!Content /\ String!Terminated
    /\ part = "stringFails" =>
          /\ StringFails!TypeOK /\ StringFails!InBounds /\ StringFails!Content
          /\ StringFails!Terminated
    /\ part = "search" => Search!FindsFirst /\ Search!TokensCover /\ Search!FieldsAreRuns
    /\ part = "alloc" => Alloc!Loops /\ Alloc!Tiled /\ Alloc!Merged /\ Alloc!StatsAdd
    /\ part = "hash" => Hash!Found /\ Hash!Counts
    /\ part = "avl" => Avl!Balanced /\ Avl!RanksAndIntervals /\ Avl!Traversals
    /\ part = "opt" => Opt!OnlyMoves /\ Opt!ParsesAll
    /\ part = "sort" =>
          /\ Sort!Sorts /\ Sort!MergesStably /\ Sort!SelectsRank
          /\ Sort!RadixSorts /\ Sort!ShufflesEvenly
    /\ part = "seq" => Seqs!CutsDoNotMatter /\ Seqs!ReadsWritten
    /\ part = "deque" => Deque!FirstIsFirst
    /\ part = "list" => List!NodesOnce /\ List!FreesAll

\* The table is a map, and the ring and the list are sequences, whatever is kicked
\* out, unrolled or reused; the steps of the pipeline keep the order of the batches.
KlibSteps ==
    /\ part = "hash" => Hash!Map!Init
    /\ part = "deque" => Deque!Sequence!Init
    /\ part = "list" => List!Sequence!Init
    /\ [][/\ part = "pipeline" => Pipeline!NoneSkipped
          /\ part = "drops" => Drops!InOrder
          /\ part = "hash" => Hash!MapStep
          /\ part = "deque" => Deque!QueueStep
          /\ part = "list" => List!QueueStep]_all

\* The workers are done, the calls have returned, or all words are parsed.
Ended ==
    CASE part \in {"pipeline", "drops"} -> \A w \in 0..2 : v6[w] = "done"
      [] part = "for" -> v6.joined = v1
      [] part = "pool" -> v6.at = "end"
      [] part = "opt" -> v3.done
      [] OTHER -> TRUE

\* Without spurious wakeups nobody waits for a batch, a broadcast or a thread that
\* is not coming, and ketopt returns -1 in the end.  With them, part "wakes",
\* kt_forpool_destroy's broadcast may be missed: nothing is asked of that part.
KlibEnds == <>Ended
=============================================================================
