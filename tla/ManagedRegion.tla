---------------------------- MODULE ManagedRegion ----------------------------
(***************************************************************************)
(* The text engines of agent registration (lib/agent-registration/         *)
(* engines.ts): what lineInsert and markerBlockInsert write into a file    *)
(* that belongs to the user, and what stripManagedRegion takes out again,  *)
(* while the user edits the file and releases change the rule text.        *)
(*                                                                         *)
(* A file is a sequence of tokens: markers, version comments, line breaks  *)
(* of the file's one kind, and pieces of text.  user is what the file      *)
(* would be had scoutline never touched it.                                *)
(***************************************************************************)
EXTENDS Integers, Sequences, FiniteSets, SequencesExt

CONSTANTS
    MaxLength,  \* bound on the user's file before registration
    MaxRelease, \* bound on the releases; each has its own rule text
    MaxEdits    \* bound on the user's edits

\* A token is what it is, and of which release.
Break == <<"break", 0>>
Word == <<"word", 0>>      \* a piece of the user's text
Rule == <<"@rules/", 0>>   \* one that makes its line match the tool's list convention
Start == <<"start", 0>>    \* <!-- scoutline:start -->
Finish == <<"end", 0>>     \* <!-- scoutline:end -->
Pointer == <<"@rules/scoutline", 0>>
UserToken == {Break, Word, Rule, Pointer, Start, Finish}

Version(r) == <<"version", r>>
Content(k, r) == IF k = "line" THEN Pointer ELSE <<"text", r>>

VARIABLES
    kind,  \* the engine of the tool: "line" or "block"
    file,  \* the shared file
    user,  \* ghost: the same, without us
    ver,   \* the installed release
    wrote, \* the release that wrote our region, 0 without one
    edits

vars == <<kind, file, user, ver, wrote, edits>>

-----------------------------------------------------------------------------
\* Sequences of tokens.

At(s, n, part) == n + Len(part) - 1 <= Len(s) /\ SubSeq(s, n, n + Len(part) - 1) = part
Includes(s, part) == \E n \in 1..Len(s) : At(s, n, part)
From(s, n) == SubSeq(s, n, Len(s))
Until(s, n) == SubSeq(s, 1, n)
Ends(s) == s # <<>> /\ Last(s) = Break

\* indexOf, 0 for none.
IndexOf(s, token, n) ==
    LET there == {m \in n..Len(s) : s[m] = token}
    IN IF there = {} THEN 0 ELSE CHOOSE m \in there : \A l \in there : m <= l

\* Without comments, and trimmed.
Trimmed(s) ==
    LET text == SelectSeq(s, LAMBDA t : t \notin {Start, Finish} /\ t[1] # "version")
        solid == {n \in DOMAIN text : text[n] # Break}
    IN IF solid = {} THEN <<>>
       ELSE SubSeq(text, CHOOSE n \in solid : \A m \in solid : n <= m,
                         CHOOSE n \in solid : \A m \in solid : m <= n)

\* The last position of the line that starts at m, and where lines start.
LineEnd(s, m) == LET b == IndexOf(s, Break, m) IN IF b = 0 THEN Len(s) ELSE b - 1
Starts(s) == {m \in 1..(Len(s) + 1) : m = 1 \/ s[m - 1] = Break}

-----------------------------------------------------------------------------
\* lineInsert.

Wrapped == <<Start, Break, Pointer, Break, Finish>>

\* Spans of markers crossed by a backward scan from the end to the line at m.
Depth(s, m) ==
    LET lines == SetToSortSeq({l \in Starts(s) : l > m}, LAMBDA a, b : a > b)
        Cross(l, d) ==
            LET line == ToSet(SubSeq(s, l, LineEnd(s, l)))
            IN IF Finish \in line THEN d + 1
               ELSE IF Start \in line THEN (IF d = 0 THEN 0 ELSE d - 1) ELSE d
    IN FoldLeft(LAMBDA d, l : Cross(l, d), 0, lines)

\* Mutant: a match inside a marker span counts.
MatchesAnywhere(s, m) ==
    LET line == SubSeq(s, m, LineEnd(s, m)) IN line # <<>> /\ line[1] \in {Rule, Pointer}

\* The lines that the pointer may be put under.
Matches(s, m) ==
    LET line == SubSeq(s, m, LineEnd(s, m))
    IN /\ line # <<>> /\ line[1] \in {Rule, Pointer}
       /\ {Start, Finish} \cap ToSet(line) = {}
       /\ Depth(s, m) = 0

Appended(s) ==
    IF Ends(s) \/ s = <<>> THEN s \o Wrapped \o <<Break>> ELSE s \o <<Break>> \o Wrapped

LineInsert(s) ==
    IF \/ Includes(s, Wrapped)
       \/ \E m \in Starts(s) : SubSeq(s, m, LineEnd(s, m)) = <<Pointer>>
    THEN s
    ELSE LET under == {m \in Starts(s) : Matches(s, m)}
         IN IF under = {} THEN Appended(s)
            ELSE LET e == LineEnd(s, CHOOSE m \in under : \A l \in under : l <= m)
                 IN Until(s, e) \o <<Break>> \o Wrapped \o From(s, e + 1)

-----------------------------------------------------------------------------
\* markerBlockInsert.

BlockOf(r) == <<Start, Version(r), Break, Content("block", r), Break, Finish, Break>>

Ours(inner, r) ==
    \/ Trimmed(inner) = <<Content("block", r)>>
    \/ LET lead == {n \in DOMAIN inner : inner[n] # Break}
       IN lead # {} /\ inner[CHOOSE n \in lead : \A m \in lead : n <= m][1] = "version"

\* The first pair of markers from n on that is ours, as its two positions.
RECURSIVE OurPair(_, _, _)
OurPair(s, n, r) ==
    LET b == IndexOf(s, Start, n)
        e == IF b = 0 THEN 0 ELSE IndexOf(s, Finish, b)
    IN IF e = 0 THEN <<0, 0>>
       ELSE IF Ours(SubSeq(s, b + 1, e - 1), r) THEN <<b, e>>
       ELSE OurPair(s, e + 1, r)

BlockInsert(s, r) ==
    LET pair == OurPair(s, 1, r)
        block == BlockOf(r)
        open == Until(block, Len(block) - 1)
    IN IF Includes(s, block) THEN s
       ELSE IF pair # <<0, 0>>
       THEN LET before == Until(s, pair[1] - 1)
                rest == From(s, pair[2] + 1)
                after == IF rest # <<>> /\ Head(rest) = Break THEN Tail(rest) ELSE rest
            IN before \o (IF before = <<>> \/ Ends(before) THEN <<>> ELSE <<Break>>)
                 \o (IF after = <<>> /\ ~Ends(s) THEN open ELSE block) \o after
       ELSE IF s = <<>> \/ Ends(s) THEN s \o block
       ELSE s \o <<Break>> \o open

Insert(k, s, r) == IF k = "line" THEN LineInsert(s) ELSE BlockInsert(s, r)

-----------------------------------------------------------------------------
\* stripManagedRegion; an empty file is removed, which reads as one.

\* With the break it was joined by: the one after, else the one before.
Cut(s, b, e) ==
    IF e < Len(s) /\ s[e + 1] = Break THEN Until(s, b - 1) \o From(s, e + 2)
    ELSE IF b > 1 /\ s[b - 1] = Break THEN Until(s, b - 2) \o From(s, e + 1)
    ELSE Until(s, b - 1) \o From(s, e + 1)

RECURSIVE StripFrom(_, _, _)
StripFrom(s, n, content) ==
    LET b == IndexOf(s, Start, n)
        e == IF b = 0 THEN 0 ELSE IndexOf(s, Finish, b)
    IN IF e = 0 THEN s
       ELSE IF Trimmed(SubSeq(s, b + 1, e - 1)) # <<content>> THEN StripFrom(s, e + 1, content)
       ELSE StripFrom(Cut(s, b, e), IF b > 2 THEN b - 2 ELSE 1, content)  \* a step back

Strip(k, s, r) == StripFrom(s, 1, Content(k, r))

-----------------------------------------------------------------------------
\* A marker of ours that is not one of a pair stops every scan, or pairs with
\* ours; the user's file has none, and no pair that reads as ours.
RECURSIVE Paired(_, _)
Paired(s, open) ==
    IF s = <<>> THEN ~open
    ELSE IF Head(s) = Start THEN ~open /\ Paired(Tail(s), TRUE)
    ELSE IF Head(s) = Finish THEN open /\ Paired(Tail(s), FALSE)
    ELSE Paired(Tail(s), open)

Init ==
    /\ kind \in {"line", "block"}
    /\ user \in {s \in BoundedSeq(UserToken, MaxLength) :
                    Paired(s, FALSE) /\ \A r \in 1..MaxRelease : Strip(kind, s, r) = s}
    /\ file = user
    /\ ver = 1
    /\ wrote = 0
    /\ edits = 0

\* writePointer, of a registration or a refresh.
Register ==
    /\ file' = Insert(kind, file, ver)
    /\ wrote' = ver
    /\ UNCHANGED <<kind, user, ver, edits>>

\* unregisterAgentTools.
Unregister ==
    /\ file' = Strip(kind, file, ver)
    /\ wrote' = IF kind = "line" \/ wrote = ver THEN 0 ELSE wrote
    /\ UNCHANGED <<kind, user, ver, edits>>

Upgrade ==
    /\ ver < MaxRelease
    /\ ver' = ver + 1
    /\ UNCHANGED <<kind, file, user, wrote, edits>>

\* The user writes lines at the top or at the end of the file.
Edit ==
    /\ edits < MaxEdits
    /\ edits' = edits + 1
    /\ \E line \in {<<Word>>, <<Rule>>, <<Start, Word, Finish>>} :
          \/ file' = line \o <<Break>> \o file /\ user' = line \o <<Break>> \o user
          \/ LET more == IF Ends(file) THEN line \o <<Break>> ELSE <<Break>> \o line
             IN file' = file \o more /\ user' = user \o more
    /\ UNCHANGED <<kind, ver, wrote>>

Next == Register \/ Unregister \/ Upgrade \/ Edit

Spec == Init /\ [][Next]_vars

-----------------------------------------------------------------------------
\* Properties.

Current == wrote # 0 /\ (kind = "line" \/ wrote = ver)

\* Reversal: strip our region, and each byte of the user's is there and no other,
\* whatever the user has written around it and however often it was rewritten.
StripLeavesTheUsers ==
    /\ Current => Strip(kind, file, ver) = user
    /\ wrote = 0 => file = user

=============================================================================
