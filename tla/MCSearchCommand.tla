--------------------------- MODULE MCSearchCommand ---------------------------
(***************************************************************************)
(* For TLC, the two commands that search with several providers: one search *)
(* (SearchCommand) of three providers with two sub-queries, and five       *)
(* spellings of four URLs whose titles form a chain; or successive science *)
(* commands (ScienceCommand) over three suppliers; or more of them over    *)
(* two, enough for a clear of the history to leave a warm cache behind it, *)
(* one command to be journaled anew, and another to repeat that one.  half *)
(* says which one a behaviour is about; the others rest.                   *)
(***************************************************************************)
EXTENDS SearchCommand, ScienceCommand

CONSTANTS
    p1, p2, p3, x, y,
    MaxPairArms   \* MaxArms of the commands over two suppliers

Urls == 1..5

\* 5 is another spelling of 1.
CanonicalUrl == [u \in Urls |-> IF u = 5 THEN 1 ELSE u]

\* 1 ~ 2 ~ 3 is a chain, and 5 came with a title like that of 4.
NearTitles == {{1, 2}, {2, 3}, {4, 5}}

AnswerOf(x1, y1, x2, y2, x3, y3) ==
    [p \in {p1, p2, p3} |-> [q \in {x, y} |->
        CASE p = p1 -> IF q = x THEN x1 ELSE y1
          [] p = p2 -> IF q = x THEN x2 ELSE y2
          [] p = p3 -> IF q = x THEN x3 ELSE y3]]

AnswerSet == {
    AnswerOf(<<3, 1>>, <<4, 5>>, <<2, 4, 5>>, <<1>>, <<3>>, <<1, 2>>),
    AnswerOf(<<5, 3, 4>>, <<2, 1>>, <<>>, <<4, 3, 2>>, <<1, 2, 3>>, <<>>)}

\* One sub-query is too long for one provider.
RejectedSet == {<<p1, y>>}

\* D5_ARM_ORDER.
Suppliers == <<p1, p2, p3>>

Pair == INSTANCE ScienceCommand WITH
            Supplier <- {p1, p2}, ArmOrder <- <<p1, p2>>, MaxArms <- MaxPairArms

VARIABLE half

NoSearch ==
    /\ mode = "single" /\ plan = <<p1>> /\ asked = <<x>>
    /\ answer = CHOOSE a \in Answers : TRUE

SearchesInit ==
    /\ Init
    /\ \/ half = "search" /\ ScienceInit /\ ask.verb = "get"
       \/ half = "science" /\ ScienceInit /\ NoSearch
       \/ half = "pair" /\ Pair!ScienceInit /\ NoSearch

SearchesNext ==
    /\ UNCHANGED half
    /\ \/ half = "search" /\ Next /\ UNCHANGED scienceVars
       \/ half = "science" /\ ScienceNext /\ UNCHANGED vars
       \/ half = "pair" /\ Pair!ScienceNext /\ UNCHANGED vars

SearchesSpec == SearchesInit /\ [][SearchesNext]_<<half, vars, scienceVars>>
=============================================================================
