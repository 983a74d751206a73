--------------------------- MODULE MCFuzzyServer ---------------------------
(***************************************************************************)
(* The parts of the fuzzy search server, checked side by side in one run:  *)
(* a behaviour is a behaviour of one part.  The cells v1 to v20 hold that  *)
(* part's variables, in the order of its INSTANCE.                         *)
(***************************************************************************)
EXTENDS Integers, SequencesExt

CONSTANTS MaxMsgs, MaxFiles, MaxOutput, Failures        \* of FuzzyJobs
CONSTANTS BlockSize, StringLengths, MaxStrings          \* of StrPool
CONSTANTS Values, MaxLoads, MaxLen                      \* of FuzzyCommands

VARIABLES part, v1, v2, v3, v4, v5, v6, v7, v8, v9, v10,
          v11, v12, v13, v14, v15, v16, v17, v18, v19, v20

all == <<part, v1, v2, v3, v4, v5, v6, v7, v8, v9, v10,
         v11, v12, v13, v14, v15, v16, v17, v18, v19, v20>>

Jobs == INSTANCE FuzzyJobs WITH
    inbox <- v1, sent <- v2, cancel <- v3, job <- v4, current_seq <- v5, timers <- v6,
    work <- v7, place <- v8, at <- v9, list <- v10, cache <- v11, freed <- v12, proc <- v13,
    grep <- v14, output <- v15, answers <- v16, fate <- v17, spoiled <- v18, lossy <- v19,
    misused <- v20

\* A body shorter than a header and one about as long.
Input == INSTANCE FuzzyInput WITH
    MaxMsgs <- 4, MaxParts <- 2, Lengths <- {1, 7}, Joined <- FALSE,
    bodies <- v1, pipe <- v2, line <- v3, json_line <- v4, content_len <- v5, start <- v6,
    handled <- v7, parts <- v8, unwhole <- v9

JoinedInput == INSTANCE FuzzyInput WITH
    MaxMsgs <- 3, MaxParts <- 2, Lengths <- {1, 9}, Joined <- TRUE,
    bodies <- v1, pipe <- v2, line <- v3, json_line <- v4, content_len <- v5, start <- v6,
    handled <- v7, parts <- v8, unwhole <- v9

Strings(chars, n) == UNION {[1..k -> chars] : k \in 0..n}

\* All short words, and two long enough to use up the recursive calls.
SearchWords == Strings({"a", "B", " "}, 2) \cup {<<"a", "b", "a">>, <<"a", "a", "a", "a">>}

\* One name at a time, and two names of which one is answered.
Match == INSTANCE FuzzyMatch WITH
    Words <- SearchWords, Names <- Strings({"a", "b", "/"}, 5), MaxFiles <- 1,
    MAX_RESPONSE_LINES <- 1,
    word <- v1, files <- v2, at <- v3, file_res <- v4, sent <- v5, answer <- v6

\* Names with up to 116 letters more than a word has: their scores are just above
\* zero, zero, and below it.
LongNames ==
    LET Longer(s, n) == s \o [i \in 1..n |-> "x"] IN
    {Longer(<<"a">>, n) : n \in {28, 114, 115, 116}}
        \cup {Longer(<<"a", "b">>, n) : n \in {93, 94, 95}}

Ranking == INSTANCE FuzzyMatch WITH
    Words <- SearchWords, Names <- Strings({"a", "b", "/"}, 3) \cup LongNames, MaxFiles <- 2,
    MAX_RESPONSE_LINES <- 1,
    word <- v1, files <- v2, at <- v3, file_res <- v4, sent <- v5, answer <- v6

\* The configuration's strings fit the first block, fill it, and are too long for it.
Pool == INSTANCE StrPool WITH
    InitialSize <- BlockSize, Lengths <- StringLengths, MaxStrings <- MaxStrings,
    blocks <- v1, idx <- v2, pos <- v3, sz <- v4, strings <- v5, freed <- v6

\* Lines that fit fgets's buffer and a grep's longest line, and lines that do not.
Outputs ==
    Strings({"x", "/", "\n", "\""}, 4)
        \cup {<<"x", "\n", "x", "x", "x", "x", "\n", "x", "x", "x", "x", "x">>,
              <<"\\", "\t", "x", "\r", "\n">>,
              <<"lead", "continuation", "x", "\\", "\n">>}

Yank(n, t, l) == [name |-> <<n>>, mtime |-> t, line |-> l]

Yanks ==
    UNION {[1..n -> {Yank("a", 1, <<"x", "\n">>), Yank("b", 2, <<"x", "\"", "\\", "x">>),
                     Yank("c", 3, <<>>)}] : n \in 0..3}

Loader == INSTANCE FuzzyLists WITH
    Outputs <- Outputs, Yanks <- Yanks, PATH_MAX <- 5, MAX_LINE <- 4, MAX_YANK <- 3,
    MAX_RESPONSE_LINES <- 2,
    cmd <- v1, input <- v2, rest <- v3, cuts <- v4, list <- v5, phase <- v6, overrun <- v7,
    answer <- v8

MruLine(p, n) == p \o <<":", n, "\n">>
Old == MruLine(<<"a">>, "2") \o MruLine(<<"b", "b">>, "1")
Older == MruLine(<<"c">>, "2") \o MruLine(<<"b", "b">>, "2")

\* The file is empty, as one server left it, or that with a NUL behind.
Mru == INSTANCE MruFile WITH
    Editors <- {"e", "f"}, Paths <- {<<"a">>, <<"b", "b">>, <<"a", ":", "b">>},
    Files <- {<<>>, <<"NUL">>, Old, Append(Old, "NUL"), Append(Older, "NUL")},
    MaxCount <- 5,
    file <- v1, pc <- v2, path <- v3, loaded <- v4, from <- v5, alone <- v6, answer <- v7,
    spoiled <- v8

\* Keys in different orders; the configuration has a word that is a key.
Command == INSTANCE FuzzyCommands WITH
    Orders <- {<<"cmd", "value", "source", "seq">>, <<"seq", "value", "cmd", "source">>},
    msg <- v1, pc <- v2, job <- v3, cache <- v4, pool <- v5, loads <- v6, live <- v7,
    misused <- v8, said <- v9

ASSUME PartsAssumption ==
    /\ Jobs!JobsAssumption /\ Input!InputAssumption /\ JoinedInput!InputAssumption
    /\ Match!SearchAssumption /\ Ranking!SearchAssumption /\ Pool!PoolAssumption
    /\ Loader!ListsAssumption /\ Mru!MruAssumption /\ Command!CommandsAssumption

-----------------------------------------------------------------------------
\* The cells a part does not use, and their values.
from10 == <<v10, v11, v12, v13, v14, v15, v16, v17, v18, v19, v20>>
from9 == <<v9, from10>>
from7 == <<v7, v8, from9>>

Zero10 == /\ v10 = 0 /\ v11 = 0 /\ v12 = 0 /\ v13 = 0 /\ v14 = 0 /\ v15 = 0
          /\ v16 = 0 /\ v17 = 0 /\ v18 = 0 /\ v19 = 0 /\ v20 = 0
Zero9 == v9 = 0 /\ Zero10
Zero7 == v7 = 0 /\ v8 = 0 /\ Zero9

Init ==
    \/ part = "jobs" /\ Jobs!Init
    \/ part = "input" /\ Input!Init /\ Zero10
    \/ part = "joined" /\ JoinedInput!Init /\ Zero10
    \/ part = "match" /\ Match!Init /\ Zero7
    \/ part = "ranking" /\ Ranking!Init /\ Zero7
    \/ part = "pool" /\ Pool!init_str_pool /\ Zero7
    \/ part = "lists" /\ Loader!Init /\ Zero9
    \/ part = "mru" /\ Mru!Init /\ Zero9
    \/ part = "commands" /\ Command!Init /\ Zero10

JobsStep == part = "jobs" /\ Jobs!Next /\ UNCHANGED part
InputStep == part = "input" /\ Input!Next /\ UNCHANGED <<part, from10>>
JoinedStep == part = "joined" /\ JoinedInput!Next /\ UNCHANGED <<part, from10>>
MatchStep == part = "match" /\ Match!Next /\ UNCHANGED <<part, from7>>
RankingStep == part = "ranking" /\ Ranking!Next /\ UNCHANGED <<part, from7>>
PoolStep == part = "pool" /\ Pool!Next /\ UNCHANGED <<part, from7>>
ListsStep == part = "lists" /\ Loader!Next /\ UNCHANGED <<part, from9>>
MruStep == part = "mru" /\ Mru!Next /\ UNCHANGED <<part, from9>>
CommandsStep == part = "commands" /\ Command!Next /\ UNCHANGED <<part, from10>>

Next == \/ JobsStep \/ InputStep \/ JoinedStep \/ MatchStep \/ RankingStep
        \/ PoolStep \/ ListsStep \/ MruStep \/ CommandsStep

JobsGo(A) == part = "jobs" /\ A /\ UNCHANGED part

Safety == Init /\ [][Next]_all

\* The fairness of FuzzyJobs.
Fairness ==
    /\ WF_all(JobsGo(Jobs!Pool)) /\ WF_all(JobsGo(Jobs!GrepEnds))
    /\ WF_all(JobsGo(Jobs!ReadMessage)) /\ WF_all(JobsGo(Jobs!After))
    /\ WF_all(JobsGo(Jobs!OnProcExit)) /\ WF_all(JobsGo(Jobs!Timer))

Spec == Safety /\ Fairness

-----------------------------------------------------------------------------
(* Properties.                                                             *)

\* The flags of json_msg_handler.c keep one job at a time, its list allocated,
\* the answers in the order of the queries, and drop or cancel for a newer
\* message only; uv_queue_work and uv_read_start do not fail in the model.
JobsSound ==
    part = "jobs" =>
        /\ Jobs!TypeOK /\ Jobs!OneJob /\ Jobs!ListsLive /\ Jobs!AnswersInOrder
        /\ Jobs!DroppedForNewer /\ Jobs!CancelledForNewer

\* read_stdin hands over each message that comes whole, and after one that was
\* cut it finds its place again.
InputSound ==
    /\ part = "input" =>
        Input!TypeOK /\ Input!NeverPast /\ Input!WholeArrive /\ Input!Recovers
    /\ part = "joined" => JoinedInput!TypeOK

\* Strings of the pool lie in their blocks, apart, and each block is freed once.
PoolSound ==
    part = "pool" => Pool!TypeOK /\ Pool!InBounds /\ Pool!Disjoint /\ Pool!AllFreed

\* What is searched, listed, counted, parsed and kept is what it was made from:
\* fuzzy.c against the subsequences of a name, the loaders against the text, mru.c
\* against the file, the handlers against the memory, str_pool.c against its
\* blocks.
ListsSound ==
    /\ part = "match" => Match!TypeOK /\ Match!FoundIffSubsequence /\ Match!MarksSpell
    /\ part = "ranking" =>
        /\ Ranking!FoundIffSubsequence /\ Ranking!BestAnswered
        /\ Ranking!UnmatchedCosts /\ Ranking!ShortScoresAreSums
    /\ PoolSound
    /\ part = "lists" =>
        /\ Loader!TypeOK /\ Loader!FilesListed /\ Loader!GrepArrives
        /\ Loader!OverrunOnlyByEscapes /\ Loader!NewestFirst /\ Loader!EmptyAnswerFramed
    /\ part = "mru" => Mru!TypeOK /\ Mru!NothingLost
    /\ part = "commands" =>
        /\ Command!TypeOK /\ Command!Parsed /\ Command!RightList /\ Command!OnlyEmptyLeak

\* A read takes one message (read_stdin), a use of a path counts it and no other
\* (write_mru), an answer has lines of the file (init_mru), and a list that is
\* replaced is freed (init_file, init_mru, init_yank).
FuzzySteps ==
    [][/\ part = "joined" => JoinedInput!FreshTakesOne
       /\ part = "mru" => Mru!CountsUp /\ Mru!AnswerFromFile
       /\ part = "commands" => Command!FullAreFreed]_all

\* Some message has not been dealt with.
Waits ==
    part = "jobs" /\ \E n \in DOMAIN v17 : v17[n] \in {"sent", "postponed", "started"}

NotSpawned == part = "jobs" /\ \E n \in DOMAIN v17 : v17[n] = "failed"

\* Every message is dealt with, whatever is postponed meanwhile, unless a grep
\* could not be spawned and handle_json_msg waits for it for ever.  The messages
\* are so many only: if each ends, none is left.
EveryMessageEnds == Waits ~> (~Waits \/ NotSpawned)
=============================================================================
