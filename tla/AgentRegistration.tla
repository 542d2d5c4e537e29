-------------------------- MODULE AgentRegistration --------------------------
(***************************************************************************)
(* The registration of scoutline with the user's agent tools               *)
(* (lib/agent-registration/deploy.ts, the wizard step of commands/init.ts, *)
(* the check index.ts makes before each command): per tool a skill         *)
(* directory, a rules file, and a pointer in a file the tool shares with   *)
(* its user; one stamp for all of them, agent-registration.json; and the   *)
(* agentRules choices of config.json.                                      *)
(*                                                                         *)
(* Nothing is locked.  Every command begins with the check, and a release  *)
(* other than the stamped one redeploys what is registered, file by file;  *)
(* only the stamp says, later, that it was done.                           *)
(***************************************************************************)
EXTENDS Integers

CONSTANTS
    Process,     \* slots in which the user's scoutline processes run
    Tool,        \* the agent tools that are detected, by their place in the registry
    Block,       \* those whose pointer is a marker block, with the rule text in it
    FileNo,      \* the skill has the files 1..FileNo
    MaxRelease,  \* releases of scoutline, 1 first
    TextChanges, \* the releases that bring another rule text
    MaxRuns,     \* bound on the commands and on the user's edits of agentRules
    MaxFaults,   \* bound on the file operations that fail and the processes that die
    Missing

ASSUME RegistrationAssumption ==
    /\ Tool \subseteq Nat /\ Block \subseteq Tool
    /\ FileNo \in Nat /\ MaxRelease \in Nat \ {0}
    /\ TextChanges \subseteq 1..MaxRelease /\ 1 \in TextChanges
    /\ MaxRuns \in Nat /\ MaxFaults \in Nat

Release == 1..MaxRelease
File == 1..FileNo

\* The rule text of a release, as the last release that changed it.
Text(r) == CHOOSE c \in TextChanges : c <= r /\ \A d \in TextChanges : d <= r => d <= c

\* What a pointer says: the text in a block, else one fixed line or array entry.
PointerOf(t, r) == IF t \in Block THEN Text(r) ELSE 1

VARIABLES
    release, \* the installed one
    skill,   \* per tool: Missing, or per file the release it was copied from, 0 without it
    rules,   \* per tool: the text of its rules file, 0 without one
    pointer, \* per tool: what its pointer says, 0 without one
    stamp,   \* Missing, or what agent-registration.json says
    choice,  \* per tool: its agentRules entry
    phase,   \* where each process is
    command, \* "run", "init" or "unregister"
    ver,     \* the release it runs
    work,    \* the file operations it has still to do
    named,   \* the tools it will put in the stamp
    answers, \* the wizard's answers
    gaveUp,  \* a tool's refresh has failed
    runs, faults,
    mishaps  \* ghost: "overlap" of two commands; "carried", a wizard has stamped tools
             \* whose refresh was due; "halfway", an unregister or a wizard was cut short;
             \* "left", an unregister that got to the end has left a pointer

toolFiles == <<skill, rules, pointer>>
local == <<command, ver, work, named, answers, gaveUp>>
registrationVars == <<release, toolFiles, stamp, choice, phase, local, runs, faults, mishaps>>

Stamp == [version : Release, tools : SUBSET Tool, text : TextChanges]
Skill == [File -> 0..MaxRelease]
Answer == {"unset", "yes", "no"}
FileStep == [op : {"remove", "mkdir", "rules", "pointer", "unrules", "strip"}, tool : Tool, file : {0}]
        \cup [op : {"copy"}, tool : Tool, file : File]
Location == {"idle", "check", "refresh", "restamp", "wizard", "register", "readStamp", "writeStamp",
             "choices", "unregister", "unstamp", "unchoose"}

ASSUME MissingAssumption == Missing \notin Stamp \cup Skill

RegistrationTypeOK ==
    /\ release \in Release
    /\ skill \in [Tool -> Skill \cup {Missing}]
    /\ rules \in [Tool -> 0..MaxRelease]
    /\ pointer \in [Tool -> 0..MaxRelease]
    /\ stamp \in Stamp \cup {Missing}
    /\ choice \in [Tool -> Answer]
    /\ phase \in [Process -> Location]
    /\ command \in [Process -> {"run", "init", "unregister"}]
    /\ ver \in [Process -> Release]
    /\ work \in [Process -> SUBSET FileStep]
    /\ named \in [Process -> SUBSET Tool]
    /\ answers \in [Process -> [Tool -> Answer]]
    /\ gaveUp \in [Process -> BOOLEAN]
    /\ runs \in 0..MaxRuns
    /\ faults \in 0..MaxFaults
    /\ mishaps \subseteq {"overlap", "carried", "halfway", "left"}

NoAnswers == [t \in Tool |-> "unset"]

RegistrationInit ==
    /\ release = 1
    /\ skill = [t \in Tool |-> Missing]
    /\ rules = [t \in Tool |-> 0]
    /\ pointer = [t \in Tool |-> 0]
    /\ stamp = Missing
    /\ choice = NoAnswers
    /\ phase = [p \in Process |-> "idle"]
    /\ command = [p \in Process |-> "run"]
    /\ ver = [p \in Process |-> 1]
    /\ work = [p \in Process |-> {}]
    /\ named = [p \in Process |-> {}]
    /\ answers = [p \in Process |-> NoAnswers]
    /\ gaveUp = [p \in Process |-> FALSE]
    /\ runs = 0
    /\ faults = 0
    /\ mishaps = {}

-----------------------------------------------------------------------------
Enter(p, l) == phase' = [phase EXCEPT ![p] = l]
Fault == faults < MaxFaults /\ faults' = faults + 1

Finish(p) ==
    /\ Enter(p, "idle")
    /\ command' = [command EXCEPT ![p] = "run"]
    /\ ver' = [ver EXCEPT ![p] = 1]
    /\ work' = [work EXCEPT ![p] = {}]
    /\ named' = [named EXCEPT ![p] = {}]
    /\ answers' = [answers EXCEPT ![p] = NoAnswers]
    /\ gaveUp' = [gaveUp EXCEPT ![p] = FALSE]

-----------------------------------------------------------------------------
\* What is to be done for a tool, as a set of steps, and the order it is done in.

Do(op, t) == [op |-> op, tool |-> t, file |-> 0]

\* deploySkills, for one tool.
Deploy(t) ==
    {Do("remove", t), Do("mkdir", t)} \cup {[op |-> "copy", tool |-> t, file |-> f] : f \in File}

Rewrite(t) == IF t \in Block THEN {Do("pointer", t)} ELSE {Do("rules", t), Do("pointer", t)}

Remove(t) ==
    {Do("remove", t), Do("strip", t)} \cup (IF t \in Block THEN {} ELSE {Do("unrules", t)})

\* The place of an operation among those for its tool.
Place == [unrules |-> 1, remove |-> 2, mkdir |-> 3, copy |-> 4,
          rules |-> 5, pointer |-> 6, strip |-> 7]

\* The tools come one after the other (in the order of the registry, which stands
\* for that of the list a command loops over: no two tools share a file of the
\* model), but a registration writes the rules and pointers of all of them first.
Second(l, s) == l = "register" /\ s.op \in {"remove", "mkdir", "copy"}

Before(l, r, s) ==
    \/ ~Second(l, r) /\ Second(l, s)
    \/ /\ Second(l, r) = Second(l, s)
       /\ \/ r.tool < s.tool
          \/ r.tool = s.tool /\ Place[r.op] < Place[s.op]
          \/ r.tool = s.tool /\ r.op = s.op /\ r.file < s.file

-----------------------------------------------------------------------------
\* npm installs the next release; the user edits a choice by hand.

Upgrade ==
    /\ release < MaxRelease
    /\ release' = release + 1
    /\ UNCHANGED <<toolFiles, stamp, choice, phase, local, runs, faults, mishaps>>

OptOut ==
    /\ runs < MaxRuns
    /\ runs' = runs + 1
    /\ \E t \in Tool : choice[t] = "yes" /\ choice' = [choice EXCEPT ![t] = "no"]
    /\ UNCHANGED <<release, toolFiles, stamp, phase, local, faults, mishaps>>

Start(p) ==
    /\ phase[p] = "idle"
    /\ runs < MaxRuns
    /\ runs' = runs + 1
    /\ \E c \in {"run", "init", "unregister"} : command' = [command EXCEPT ![p] = c]
    /\ ver' = [ver EXCEPT ![p] = release]
    /\ Enter(p, "check")
    /\ mishaps' = mishaps \cup {m \in {"overlap"} : \E q \in Process \ {p} : phase[q] # "idle"}
    /\ UNCHANGED <<release, toolFiles, stamp, choice, work, named, answers, gaveUp, faults>>

\* After the check, the command proper.
Proceed(p) ==
    CASE command[p] = "run" -> Finish(p)
      [] command[p] = "init" ->
            /\ Enter(p, "wizard")
            /\ work' = [work EXCEPT ![p] = {}]
            /\ named' = [named EXCEPT ![p] = {}]
            /\ gaveUp' = [gaveUp EXCEPT ![p] = FALSE]
            /\ UNCHANGED <<command, ver, answers>>
      [] command[p] = "unregister" ->
            /\ Enter(p, "unregister")
            /\ work' = [work EXCEPT ![p] = UNION {Remove(t) : t \in Tool}]
            /\ named' = [named EXCEPT ![p] = {}]
            /\ gaveUp' = [gaveUp EXCEPT ![p] = FALSE]
            /\ UNCHANGED <<command, ver, answers>>

-----------------------------------------------------------------------------
\* checkAgentRegistration.

TextDrifted(p) == stamp.tools # {} /\ stamp.text # Text(ver[p])
Due(p) == stamp # Missing /\ (stamp.version # ver[p] \/ TextDrifted(p))
Kept(p) == {t \in stamp.tools : choice[t] # "no"}

Check(p) ==
    /\ phase[p] = "check"
    /\ IF Due(p)
       THEN /\ Enter(p, "refresh")
            /\ work' = [work EXCEPT ![p] =
                  UNION {Deploy(t) \cup (IF TextDrifted(p) THEN Rewrite(t) ELSE {}) : t \in Kept(p)}]
            /\ named' = [named EXCEPT ![p] = stamp.tools]
            \* no attempt refreshes nothing, and then nothing is stamped
            /\ gaveUp' = [gaveUp EXCEPT ![p] = (Kept(p) = {})]
            /\ UNCHANGED <<command, ver, answers>>
       ELSE Proceed(p)
    /\ UNCHANGED <<release, toolFiles, stamp, choice, runs, faults, mishaps>>

\* Mutant: a failed tool is stamped with the others.
StampsAlways(p) == TRUE
Stamps(p) == ~gaveUp[p]

RefreshEnds(p) ==
    /\ phase[p] = "refresh" /\ work[p] = {}
    /\ IF Stamps(p) THEN Enter(p, "restamp") /\ UNCHANGED local ELSE Proceed(p)
    /\ UNCHANGED <<release, toolFiles, stamp, choice, runs, faults, mishaps>>

Restamp(p) ==
    /\ phase[p] = "restamp"
    /\ \/ /\ stamp' = [version |-> ver[p], tools |-> named[p], text |-> Text(ver[p])]
          /\ UNCHANGED faults
       \/ Fault /\ UNCHANGED stamp
    /\ Proceed(p)
    /\ UNCHANGED <<release, toolFiles, choice, runs, mishaps>>

-----------------------------------------------------------------------------
\* One file operation of a refresh, a registration or an unregistration.

\* The step that is next: none has to come before it.
Now(p) == {s \in work[p] : \A r \in work[p] \ {s} : Before(phase[p], s, r)}

Done(p, s) ==
    /\ work' = [work EXCEPT ![p] = @ \ {s}]
    /\ UNCHANGED <<release, stamp, choice, phase, command, ver, named, answers, gaveUp,
                   runs, faults, mishaps>>

RemoveSkill(p, s) ==
    /\ s.op = "remove"
    /\ skill' = [skill EXCEPT ![s.tool] = Missing]
    /\ Done(p, s)
    /\ UNCHANGED <<rules, pointer>>

MakeDir(p, s) ==
    /\ s.op = "mkdir"
    /\ skill' = [skill EXCEPT ![s.tool] = IF @ = Missing THEN [f \in File |-> 0] ELSE @]
    /\ Done(p, s)
    /\ UNCHANGED <<rules, pointer>>

\* From the package directory, which holds the release installed now.
CopyFile(p, s) ==
    /\ s.op = "copy" /\ skill[s.tool] # Missing
    /\ skill' = [skill EXCEPT ![s.tool][s.file] = release]
    /\ Done(p, s)
    /\ UNCHANGED <<rules, pointer>>

WriteRules(p, s) ==
    /\ s.op \in {"rules", "unrules"}
    /\ rules' = [rules EXCEPT ![s.tool] = IF s.op = "rules" THEN Text(ver[p]) ELSE 0]
    /\ Done(p, s)
    /\ UNCHANGED <<skill, pointer>>

WritePointer(p, s) ==
    /\ s.op = "pointer"
    /\ pointer' = [pointer EXCEPT ![s.tool] = PointerOf(s.tool, ver[p])]
    /\ Done(p, s)
    /\ UNCHANGED <<skill, rules>>

\* Mutant: a region is left where it is.
StrippedNever(t, content, r) == content
\* stripManagedRegion: a region that does not read as this release would have
\* written it is taken for the user's.
Stripped(t, content, r) == IF content = PointerOf(t, r) THEN 0 ELSE content

StripPointer(p, s) ==
    /\ s.op = "strip"
    /\ pointer' = [pointer EXCEPT ![s.tool] = Stripped(s.tool, @, ver[p])]
    /\ Done(p, s)
    /\ UNCHANGED <<skill, rules>>

\* A refresh gives up the tool and goes on; the two other commands give up.
GivesUp(p, t) ==
    IF phase[p] = "refresh"
    THEN /\ work' = [work EXCEPT ![p] = {r \in @ : r.tool # t}]
         /\ gaveUp' = [gaveUp EXCEPT ![p] = TRUE]
         /\ UNCHANGED <<phase, command, ver, named, answers>>
    ELSE Finish(p)

Halfway(p) == {m \in {"halfway"} : phase[p] \in {"register", "unregister", "unstamp"}}

StepFails(p, s) ==
    /\ \/ Fault
       \* the directory to copy to is gone
       \/ s.op = "copy" /\ skill[s.tool] = Missing /\ UNCHANGED faults
    /\ GivesUp(p, s.tool)
    /\ mishaps' = mishaps \cup Halfway(p)
    /\ UNCHANGED <<release, toolFiles, stamp, choice, runs>>

-----------------------------------------------------------------------------
\* The wizard step and registerAgentTools.

\* Prompts for tools without a choice; the user may also cancel.
Wizard(p) ==
    /\ phase[p] = "wizard"
    /\ \/ \E asked \in (SUBSET {t \in Tool : choice[t] = "unset"}) \ {{}}, yes \in SUBSET Tool :
             /\ yes \subseteq asked
             /\ answers' = [answers EXCEPT ![p] =
                   [t \in Tool |-> IF t \in yes THEN "yes"
                                   ELSE IF t \in asked THEN "no" ELSE "unset"]]
             /\ named' = [named EXCEPT ![p] = yes]
             /\ work' = [work EXCEPT ![p] = UNION {Rewrite(t) \cup Deploy(t) : t \in yes}]
             /\ Enter(p, IF yes = {} THEN "choices" ELSE "register")
             /\ UNCHANGED <<command, ver, gaveUp>>
       \/ Finish(p)
    /\ UNCHANGED <<release, toolFiles, stamp, choice, runs, faults, mishaps>>

Registered(p) ==
    /\ phase[p] = "register" /\ work[p] = {}
    /\ Enter(p, "readStamp")
    /\ UNCHANGED <<release, toolFiles, stamp, choice, local, runs, faults, mishaps>>

Union(p) == named[p] \cup (IF stamp = Missing THEN {} ELSE stamp.tools)

\* The prior stamp is read again; a refresh that has failed left it drifted.
ReadStamp(p) ==
    /\ phase[p] = "readStamp"
    /\ named' = [named EXCEPT ![p] = Union(p)]
    /\ mishaps' = mishaps \cup {m \in {"carried"} : Due(p)}
    /\ Enter(p, "writeStamp")
    /\ UNCHANGED <<release, toolFiles, stamp, choice, command, ver, work, answers, gaveUp, runs, faults>>

WriteStamp(p) ==
    /\ phase[p] = "writeStamp"
    /\ \/ /\ stamp' = [version |-> ver[p], tools |-> named[p], text |-> Text(ver[p])]
          /\ Enter(p, "choices")
          /\ UNCHANGED <<local, faults>>
       \/ Fault /\ Finish(p) /\ UNCHANGED stamp
    /\ UNCHANGED <<release, toolFiles, choice, runs, mishaps>>

SaveChoices(p) ==
    /\ phase[p] = "choices"
    /\ \/ /\ choice' = [t \in Tool |-> IF answers[p][t] = "unset" THEN choice[t] ELSE answers[p][t]]
          /\ UNCHANGED faults
       \/ Fault /\ UNCHANGED choice
    /\ Finish(p)
    /\ UNCHANGED <<release, toolFiles, stamp, runs, mishaps>>

-----------------------------------------------------------------------------
\* The end of unregisterAgentTools, and death.

Removed(p) ==
    /\ phase[p] = "unregister" /\ work[p] = {}
    /\ Enter(p, "unstamp")
    /\ UNCHANGED <<release, toolFiles, stamp, choice, local, runs, faults, mishaps>>

RemoveStamp(p) ==
    /\ phase[p] = "unstamp"
    /\ \/ stamp' = Missing /\ Enter(p, "unchoose") /\ UNCHANGED <<local, faults>>
       \/ Fault /\ Finish(p) /\ UNCHANGED stamp
    /\ mishaps' = mishaps \cup {m \in Halfway(p) : stamp' # Missing}
    /\ UNCHANGED <<release, toolFiles, choice, runs>>

ClearChoices(p) ==
    /\ phase[p] = "unchoose"
    /\ \/ choice' = NoAnswers /\ UNCHANGED faults
       \/ Fault /\ UNCHANGED choice
    /\ Finish(p)
    /\ mishaps' = mishaps \cup {m \in {"left"} : \E t \in Tool : pointer[t] # 0}
    /\ UNCHANGED <<release, toolFiles, stamp, runs>>

Crash(p) ==
    /\ phase[p] # "idle"
    /\ Fault
    /\ Finish(p)
    /\ mishaps' = mishaps \cup Halfway(p)
    /\ UNCHANGED <<release, toolFiles, stamp, choice, runs>>

RegistrationNext ==
    \/ Upgrade \/ OptOut
    \/ \E p \in Process :
          \/ Start(p) \/ Check(p) \/ RefreshEnds(p) \/ Restamp(p)
          \/ \E s \in Now(p) :
                \/ RemoveSkill(p, s) \/ MakeDir(p, s) \/ CopyFile(p, s) \/ WriteRules(p, s)
                \/ WritePointer(p, s) \/ StripPointer(p, s) \/ StepFails(p, s)
          \/ Wizard(p) \/ Registered(p) \/ ReadStamp(p) \/ WriteStamp(p) \/ SaveChoices(p)
          \/ Removed(p) \/ RemoveStamp(p) \/ ClearChoices(p) \/ Crash(p)

RegistrationSpec == RegistrationInit /\ [][RegistrationNext]_registrationVars

-----------------------------------------------------------------------------
\* Properties.

\* The tool has the whole skill of the release, and the rule text.
Deployed(t) ==
    /\ skill[t] # Missing /\ \A f \in File : skill[t][f] = release
    /\ pointer[t] = PointerOf(t, release)
    /\ t \notin Block => rules[t] = Text(release)

Fresh == stamp # Missing /\ stamp.version = release /\ stamp.text = Text(release)
Quiet == \A p \in Process : phase[p] = "idle"

FreshStampIsTrue ==
    Quiet /\ Fresh => \A t \in stamp.tools : choice[t] = "no" \/ Deployed(t)

\* The stamp is fresh only when each tool it names, and the user has not opted
\* out, is: what failed or was cut short stays drifted, for the next run to retry.
\* Not so for commands that worked at once, for a wizard that stamped new tools
\* over a refresh that had failed, and for an unregister or a registration that
\* was itself cut short.
FreshStampIsTrueElse == mishaps \subseteq {"left"} => FreshStampIsTrue

\* "A partial failure must not stamp every tool fresh: leave the stamp drifted so
\* the next run retries the tool that failed" (deploy.ts:246), for commands that
\* follow one another.
FailedRefreshStaysDue == mishaps \cap {"overlap", "halfway"} = {} => FreshStampIsTrue

\* An unregister that gets to the end leaves no file of ours, and of the shared
\* files' pointers only blocks that an earlier release wrote and a refresh missed:
\* for an opt-out, for a failure, or because an unregister before it had left them.
UnregisterLeavesNothing ==
    \A p \in Process :
       (phase[p] = "unchoose" /\ "overlap" \notin mishaps) =>
          \A t \in Tool :
             /\ skill[t] = Missing /\ rules[t] = 0
             /\ pointer[t] # 0 =>
                   /\ t \in Block /\ pointer[t] < PointerOf(t, ver[p])
                   /\ choice[t] = "no" \/ faults > 0 \/ "left" \in mishaps
=============================================================================
