-------------------------- MODULE JournalStoreProofs --------------------------
(***************************************************************************)
(* What the artifacts log guarantees, for every set of processes, ids and  *)
(* cache keys, any number of commands and of faults.  Sane types the state *)
(* and what each command knows of itself; Locked says what the holder of   *)
(* the lock knows of the files; on both rest the three invariants of the   *)
(* log and the action property that nothing is lost.                       *)
(***************************************************************************)
EXTENDS JournalStore, WellFoundedInduction, TLAPS

-----------------------------------------------------------------------------
\* Induction over the naturals and what it says of the helpers.

Less == {pair \in Nat \X Nat : pair[1] < pair[2]}

\* The order of the naturals has no infinite descent.
LEMMA LessWellFounded == IsWellFoundedOn(Less, Nat)
  BY NatLessThanWellFounded DEF OpToRel, Less

\* Induction, over a set: a set with 0 and the successors of its members.
LEMMA Induction ==
  ASSUME NEW S, 0 \in S, \A n \in Nat : n \in S => n + 1 \in S
  PROVE  \A n \in Nat : n \in S
  <1> SUFFICES ASSUME NEW k \in Nat, k \notin S PROVE FALSE
    OBVIOUS
  <1> DEFINE U == {n \in Nat : n \notin S}
  <1>1. U \subseteq Nat /\ U # {}
    OBVIOUS
  <1>2. PICK n \in U : \A m \in U : <<m, n>> \notin Less
    <2> HIDE DEF U
    <2> QED BY <1>1, LessWellFounded, WFMin
  <1>3. n \in Nat /\ n # 0
    OBVIOUS
  <1>4. n - 1 \in Nat /\ <<n - 1, n>> \in Less
    BY <1>3 DEF Less
  <1>5. n - 1 \in S
    BY <1>2, <1>4
  <1> QED
    BY <1>3, <1>4, <1>5

\* A set of positions of a sequence that is not empty has a last one.
LEMMA LastPosition ==
  ASSUME NEW N \in Nat, NEW P \in SUBSET (1..N), P # {}
  PROVE  \E n \in P : \A m \in P : m <= n
  <1> DEFINE S == {k \in Nat : \A T \in SUBSET (1..k) : T # {} => \E n \in T : \A m \in T : m <= n}
  <1>1. 0 \in S
    <2>1. 1..0 = {}
      OBVIOUS
    <2> QED
      BY <2>1
  <1>2. ASSUME NEW k \in Nat, k \in S PROVE k + 1 \in S
    <2> SUFFICES ASSUME NEW T \in SUBSET (1..(k + 1)), T # {}
                 PROVE  \E n \in T : \A m \in T : m <= n
      OBVIOUS
    <2>1. CASE k + 1 \in T
      BY <2>1
    <2>2. CASE k + 1 \notin T
      <3>1. T \in SUBSET (1..k)
        BY <2>2
      <3> QED
        BY <3>1, <1>2
    <2> QED
      BY <2>1, <2>2
  <1>3. N \in S
    <2> HIDE DEF S
    <2> QED BY <1>1, <1>2, Induction
  <1> QED
    BY <1>3

\* The recursion of OfKinds is a function, whose last value OfKinds is.
LEMMA OfKindsRecursion ==
  ASSUME NEW entries \in Seq(Entry), NEW kinds
  PROVE  \E upTo :
           /\ upTo[0] = <<>>
           /\ \A n \in 1..Len(entries) :
                upTo[n] = IF entries[n].kind \in kinds THEN Append(upTo[n - 1], entries[n])
                          ELSE upTo[n - 1]
           /\ OfKinds(entries, kinds) = upTo[Len(entries)]
  <1> DEFINE N == Len(entries)
             Added(v, n) == IF entries[n].kind \in kinds THEN Append(v, entries[n]) ELSE v
             Good(f, k) == /\ f \in [0..k -> Seq(Entry)] /\ f[0] = <<>>
                           /\ \A n \in 1..k : f[n] = Added(f[n - 1], n)
             S == {k \in Nat : k <= N => \E f : Good(f, k)}
  <1>1. \A n \in 1..N, v \in Seq(Entry) : Added(v, n) \in Seq(Entry)
    OBVIOUS
  <1>2. 0 \in S
    <2>1. Good([n \in 0..0 |-> <<>>], 0)
      OBVIOUS
    <2> QED
      BY <2>1
  <1> HIDE DEF Added
  <1>3. ASSUME NEW k \in Nat, k \in S PROVE k + 1 \in S
    <2> SUFFICES ASSUME k + 1 <= N PROVE \E f : Good(f, k + 1)
      <3> HIDE DEF Good
      <3> QED OBVIOUS
    <2>1. PICK f : Good(f, k)
      <3> HIDE DEF Good
      <3> QED BY <1>3
    <2> DEFINE v == Added(f[k], k + 1)
               g == [n \in 0..(k + 1) |-> IF n = k + 1 THEN v ELSE f[n]]
    <2>2. v \in Seq(Entry)
      BY <2>1, <1>1
    <2>3. g \in [0..(k + 1) -> Seq(Entry)] /\ g[0] = <<>>
      <3> HIDE DEF v
      <3> QED BY <2>1, <2>2
    <2>4. g[k + 1] = v /\ \A n \in 0..k : g[n] = f[n]
      BY <2>1
    <2>5. \A n \in 1..(k + 1) : g[n] = Added(g[n - 1], n)
      <3> HIDE DEF g
      <3>1. ASSUME NEW n \in 1..k PROVE g[n] = Added(g[n - 1], n)
        BY <2>1, <2>4
      <3> QED
        BY <2>4, <3>1
    <2> QED
      BY <2>3, <2>5
  <1>4. \E f : Good(f, N)
    <2> HIDE DEF Good
    <2>1. \A k \in Nat : k \in S
      <3> HIDE DEF S
      <3> QED BY <1>2, <1>3, Induction
    <2> QED
      BY <2>1
  <1>5. PICK f : Good(f, N)
    BY <1>4
  <1> DEFINE Step(h, n) ==
               IF n = 0 THEN <<>>
               ELSE IF entries[n].kind \in kinds THEN Append(h[n - 1], entries[n])
               ELSE h[n - 1]
             G == CHOOSE h : h = [n \in 0..N |-> Step(h, n)]
  <1>6. f = [n \in 0..N |-> Step(f, n)]
    <2>1. ASSUME NEW n \in 0..N PROVE f[n] = Step(f, n)
      <3>1. CASE n = 0
        BY <1>5, <3>1
      <3>2. CASE n # 0
        <4>1. n \in 1..N
          BY <3>2
        <4>2. f[n] = Added(f[n - 1], n)
          BY <1>5, <4>1
        <4> QED
          BY <3>2, <4>2 DEF Added
      <3> QED
        BY <3>1, <3>2
    <2> HIDE DEF Step
    <2> QED
      BY <1>5, <2>1
  <1>7. G = [n \in 0..N |-> Step(G, n)]
    <2> HIDE DEF Step
    <2> QED BY <1>6
  <1>8. OfKinds(entries, kinds) = G[N]
    BY DEF OfKinds
  <1>9. \A n \in 0..N : G[n] = Step(G, n)
    <2> HIDE DEF G, Step
    <2> QED BY <1>7
  <1> HIDE DEF G
  <1>10. G[0] = <<>>
    BY <1>9
  <1>11. \A n \in 1..N : G[n] = IF entries[n].kind \in kinds THEN Append(G[n - 1], entries[n])
                                ELSE G[n - 1]
    BY <1>9
  <1> QED
    BY <1>8, <1>10, <1>11

\* OfKinds keeps exactly the entries of its kinds.
LEMMA OfKindsFacts ==
  ASSUME NEW entries \in Seq(Entry), NEW kinds
  PROVE  /\ OfKinds(entries, kinds) \in Seq(Entry)
         /\ ToSet(OfKinds(entries, kinds)) = {e \in ToSet(entries) : e.kind \in kinds}
  <1> DEFINE N == Len(entries)
             Upto(k) == {entries[n] : n \in 1..k}
             Of(k) == {e \in Upto(k) : e.kind \in kinds}
  <1>1. PICK f : /\ f[0] = <<>>
                 /\ \A n \in 1..N :
                      f[n] = IF entries[n].kind \in kinds THEN Append(f[n - 1], entries[n])
                             ELSE f[n - 1]
                 /\ OfKinds(entries, kinds) = f[N]
    BY OfKindsRecursion
  <1> DEFINE S == {k \in Nat : k <= N => f[k] \in Seq(Entry) /\ ToSet(f[k]) = Of(k)}
  <1>2. 0 \in S
    <2>1. f[0] \in Seq(Entry) /\ ToSet(f[0]) = {} /\ Upto(0) = {}
      BY <1>1 DEF ToSet
    <2> HIDE DEF Upto
    <2> QED
      BY <2>1
  <1>3. ASSUME NEW k \in Nat, k \in S PROVE k + 1 \in S
    <2> SUFFICES ASSUME k + 1 <= N
                 PROVE  f[k + 1] \in Seq(Entry) /\ ToSet(f[k + 1]) = Of(k + 1)
      <3> HIDE DEF Of
      <3> QED OBVIOUS
    <2>1. f[k] \in Seq(Entry) /\ ToSet(f[k]) = Of(k)
      <3> HIDE DEF Of
      <3> QED BY <1>3
    <2>2. Upto(k + 1) = Upto(k) \cup {entries[k + 1]}
      OBVIOUS
    <2>3. k + 1 \in 1..N /\ entries[k + 1] \in Entry
      OBVIOUS
    <2>4. CASE entries[k + 1].kind \in kinds
      <3>1. f[k + 1] = Append(f[k], entries[k + 1])
        <4>1. (k + 1) - 1 = k
          OBVIOUS
        <4>2. f[k + 1] = Append(f[(k + 1) - 1], entries[k + 1])
          BY <1>1, <2>3, <2>4
        <4> QED
          BY <4>1, <4>2
      <3>2. f[k + 1] \in Seq(Entry)
        BY <2>1, <2>3, <3>1
      <3>3. ToSet(f[k + 1]) = ToSet(f[k]) \cup {entries[k + 1]}
        <4> DEFINE s == f[k]
        <4>1. s \in Seq(Entry) /\ f[k + 1] = Append(s, entries[k + 1])
          BY <2>1, <3>1
        <4> HIDE DEF s
        <4>2. /\ DOMAIN f[k + 1] = DOMAIN s \cup {Len(s) + 1}
              /\ f[k + 1][Len(s) + 1] = entries[k + 1]
              /\ \A n \in DOMAIN s : f[k + 1][n] = s[n]
          BY <2>3, <4>1
        <4> QED
          BY <4>2 DEF ToSet, s
      <3>4. Of(k + 1) = Of(k) \cup {entries[k + 1]}
        <4> HIDE DEF Upto
        <4> QED BY <2>2, <2>4
      <3> QED
        BY <2>1, <3>2, <3>3, <3>4
    <2>5. CASE entries[k + 1].kind \notin kinds
      <3>1. f[k + 1] = f[k]
        BY <1>1, <2>3, <2>5
      <3>2. Of(k + 1) = Of(k)
        <4> HIDE DEF Upto
        <4> QED BY <2>2, <2>5
      <3> QED
        BY <2>1, <3>1, <3>2
    <2> QED
      BY <2>4, <2>5
  <1>4. N \in S
    <2> HIDE DEF S
    <2> QED BY <1>2, <1>3, Induction
  <1>5. Upto(N) = ToSet(entries)
    BY DEF ToSet
  <1> QED
    BY <1>1, <1>4, <1>5

-----------------------------------------------------------------------------
\* The inductive invariant.

\* What a command knows of itself.
Local ==
    \A c \in Process :
       /\ pc[c] # "idle" => run[c] \in Run
       /\ pc[c] \in SaveHolds => sid[c] \in Id
       /\ pc[c] \in {"journalLock"} \cup JournalHolds => jid[c] \in Id
       /\ served[c] = "cache" => key[c] \in Key

Sane == TypeOK /\ Local

\* One holder of the lock.
Exclusive == \A c, d \in Process : pc[c] \in Holds /\ pc[d] \in Holds => c = d

\* What it is about to rewrite is the log as it is, or the blank of a read that
\* failed.
Rewrites == {"saveLog", "journalWrite", "sweep", "rewrite"}
SeenIsTrue ==
    \A c \in Process : pc[c] \in Rewrites => seen[c] = log \/ (blind[c] /\ seen[c] = <<>>)

\* Between its check and its entry, a save's master is free, then its own.
MasterOfSave ==
    \A c \in Process :
       /\ pc[c] = "saveMaster" => masters[sid[c]] = None
       /\ pc[c] \in {"saveRead", "saveLog"} => masters[sid[c]] = run[c]

Locked == Exclusive /\ SeenIsTrue /\ MasterOfSave

-----------------------------------------------------------------------------
\* Sane: what is appended is an entry.

\* The fields of an entry that its kind fixes.
LEMMA EntryFacts ==
  ASSUME NEW e \in Entry
  PROVE  /\ e.kind \in {"save", "full", "marker"}
         /\ e.kind = "full" => e.id \in Id
  BY DEF Entry

\* The latest full entry of a key that has one.
LEMMA PriorFacts ==
  ASSUME NEW entries \in Seq(Entry), NEW k, FullAt(entries, k) # {}
  PROVE  \E n \in FullAt(entries, k) : Prior(entries, k) = entries[n].id
  <1> DEFINE P == FullAt(entries, k)
  <1>1. P \in SUBSET (1..Len(entries)) /\ Len(entries) \in Nat /\ P # {}
    <2>1. DOMAIN entries = 1..Len(entries) /\ Len(entries) \in Nat
      OBVIOUS
    <2> QED
      BY <2>1 DEF FullAt
  <1> HIDE DEF P
  <1>2. \E n \in P : \A m \in P : m <= n
    BY <1>1, LastPosition
  <1>3. (CHOOSE n \in P : \A m \in P : m <= n) \in P
    BY <1>2
  <1> QED
    BY <1>3 DEF Prior, P

\* A marker names a full entry that its writer has seen.
LEMMA MarkerFacts ==
  ASSUME Sane, NEW c \in Process, Repeats(c)
  PROVE  /\ Marker(c).kind = "marker" /\ Marker(c).key = key[c]
         /\ \E n \in 1..Len(seen[c]) : /\ seen[c][n].kind = "full"
                                       /\ seen[c][n].key = key[c]
                                       /\ seen[c][n].id = Marker(c).repeatOf
  <1>1. seen[c] \in Seq(Entry) /\ FullAt(seen[c], key[c]) # {}
    BY DEF Sane, TypeOK, Repeats
  <1>2. PICK n \in FullAt(seen[c], key[c]) : Prior(seen[c], key[c]) = seen[c][n].id
    BY <1>1, PriorFacts
  <1> QED
    BY <1>1, <1>2 DEF FullAt, Marker

\* What a journal append can write is an entry.
LEMMA AppendedType ==
  ASSUME Sane, NEW c \in Process, pc[c] = "journalWrite"
  PROVE  Appended(c) \subseteq Entry
  <1>1. /\ run[c] \in Run /\ jid[c] \in Id /\ key[c] \in Key \cup {None}
        /\ sid[c] \in Id \cup {None} /\ served[c] \in {"live", "cache"}
        /\ served[c] = "cache" => key[c] \in Key
    BY DEF Sane, TypeOK, Local, JournalHolds
  <1>2. CASE Repeats(c)
    <2>1. PICK n \in 1..Len(seen[c]) : /\ seen[c][n].kind = "full"
                                       /\ seen[c][n].id = Marker(c).repeatOf
      BY <1>2, MarkerFacts
    <2>2. seen[c][n] \in Entry
      BY <2>1 DEF Sane, TypeOK
    <2>3. Marker(c).repeatOf \in Id
      BY <2>1, <2>2, EntryFacts
    <2>4. Prior(seen[c], key[c]) \in Id
      BY <2>3 DEF Marker
    <2>5. key[c] \in Key
      BY <1>1, <1>2 DEF Repeats
    <2>6. Marker(c) \in Entry
      BY <1>1, <2>4, <2>5 DEF Marker, Entry
    <2> QED
      BY <1>2, <2>6 DEF Appended
  <1>3. CASE ~Repeats(c)
    <2>1. Minted(c) \subseteq Id
      BY <1>1 DEF Minted
    <2>2. \A i \in Id : FullEntry(c, i) \in Entry
      BY <1>1 DEF FullEntry, Entry
    <2> QED
      BY <1>3, <2>1, <2>2 DEF Appended
  <1> QED
    BY <1>2, <1>3

\* The entry of a save is an entry.
LEMMA SaveEntryType ==
  ASSUME Sane, NEW c \in Process, pc[c] \in SaveHolds
  PROVE  SaveEntry(c) \in Entry
  <1>1. run[c] \in Run /\ sid[c] \in Id /\ served[c] \in {"live", "cache"}
    BY DEF Sane, TypeOK, Local, SaveHolds
  <1> QED
    BY <1>1 DEF SaveEntry, Entry

\* What a clear keeps is a log of saves that it has seen, all of them unless --all.
LEMMA KeptFacts ==
  ASSUME Sane, NEW c \in Process
  PROVE  /\ Kept(c) \in Seq(Entry)
         /\ \A e \in ToSet(Kept(c)) : e.kind = "save" /\ e \in ToSet(seen[c])
         /\ ~all[c] => \A e \in ToSet(seen[c]) : e.kind = "save" => e \in ToSet(Kept(c))
  <1>1. seen[c] \in Seq(Entry)
    BY DEF Sane, TypeOK
  <1>2. CASE all[c]
    <2>1. Kept(c) = <<>>
      BY <1>2 DEF Kept
    <2> QED
      BY <1>2, <2>1 DEF ToSet
  <1>3. CASE ~all[c]
    <2>1. Kept(c) = OfKinds(seen[c], {"save"})
      BY <1>3 DEF Kept
    <2>2. /\ Kept(c) \in Seq(Entry)
          /\ ToSet(Kept(c)) = {e \in ToSet(seen[c]) : e.kind \in {"save"}}
      BY <1>1, <2>1, OfKindsFacts
    <2> QED
      BY <2>2
  <1> QED
    BY <1>2, <1>3

-----------------------------------------------------------------------------
\* Sane is kept by every step.

\* The files and counters after a step.
Stores ==
    /\ log \in Seq(Entry) /\ masters \in [Id -> Run \cup {None}]
    /\ runs \in 0..MaxRuns /\ faults \in 0..MaxFaults /\ swept \subseteq Id

\* Init is sane.
LEMMA SaneInit == Init => Sane
  BY ConstantsAssumption DEF Init, Sane, TypeOK, Local, Location, Holds, SaveHolds, JournalHolds,
     ClearHolds

\* A command that ends forgets everything.
LEMMA EndLocalSane ==
  ASSUME Sane, NEW c \in Process, EndLocal(c), Stores'
  PROVE  Sane'
  BY ConstantsAssumption DEF Sane, TypeOK, Local, Stores, EndLocal, Goto, Location, Holds,
     SaveHolds, JournalHolds, ClearHolds

\* A command that goes to another place with what it has minted.
LEMMA GotoSane ==
  ASSUME Sane, NEW c \in Process, NEW l \in Location, Goto(c, l), Stores', pc[c] # "idle",
         UNCHANGED <<run, key, served, saves, journals, all>>,
         sid' \in [Process -> Id \cup {None}], jid' \in [Process -> Id \cup {None}],
         \A d \in Process \ {c} : sid'[d] = sid[d] /\ jid'[d] = jid[d],
         seen' \in [Process -> Seq(Entry)], left' \in [Process -> SUBSET Id],
         failed' \in [Process -> BOOLEAN], blind' \in [Process -> BOOLEAN],
         l \in SaveHolds => sid'[c] \in Id,
         l \in {"journalLock"} \cup JournalHolds => jid'[c] \in Id
  PROVE  Sane'
  <1>1. TypeOK'
    BY DEF Sane, TypeOK, Stores, Goto
  <1>2. /\ pc'[c] = l /\ \A d \in Process \ {c} : pc'[d] = pc[d]
    BY DEF Sane, TypeOK, Goto
  <1>3. Local'
    BY <1>2 DEF Sane, Local
  <1> QED
    BY <1>1, <1>3 DEF Sane

\* A command that gives up goes on to its journal entry, or ends.
LEMMA FailsSane ==
  ASSUME Sane, NEW c \in Process, Fails(c), Stores', pc[c] # "idle"
  PROVE  Sane'
  <1>1. CASE pc[c] \in SaveHolds \cup {"saveLock"} /\ journals[c]
    <2>1. /\ Goto(c, "journal") /\ UNCHANGED <<command, left, failed>>
          /\ seen' = [seen EXCEPT ![c] = <<>>] /\ blind' = [blind EXCEPT ![c] = FALSE]
      BY <1>1 DEF Fails
    <2>2. /\ "journal" \in Location
          /\ "journal" \notin SaveHolds \cup {"journalLock"} \cup JournalHolds
      BY DEF Location, SaveHolds, JournalHolds
    <2>3. seen' \in [Process -> Seq(Entry)] /\ blind' \in [Process -> BOOLEAN]
      BY <2>1 DEF Sane, TypeOK
    <2> QED
      BY <2>1, <2>2, <2>3, GotoSane DEF command, Sane, TypeOK
  <1>2. CASE ~(pc[c] \in SaveHolds \cup {"saveLock"} /\ journals[c])
    BY <1>2, EndLocalSane DEF Fails
  <1> QED
    BY <1>1, <1>2

\* A read goes on to the write that it is for.
LEMMA ReadsSane ==
  ASSUME Sane, NEW c \in Process, NEW l \in Holds, Reads(c, l), pc[c] \in Holds,
         l \in SaveHolds => pc[c] \in SaveHolds,
         l \in JournalHolds => pc[c] \in JournalHolds
  PROVE  Sane'
  <1>1. /\ Goto(c, l) /\ UNCHANGED <<log, masters, command, left, failed, runs, swept>>
    BY DEF Reads
  <1>2. /\ seen' \in [Process -> Seq(Entry)] /\ blind' \in [Process -> BOOLEAN]
        /\ faults' \in 0..MaxFaults
    <2>1. /\ seen \in [Process -> Seq(Entry)] /\ log \in Seq(Entry) /\ <<>> \in Seq(Entry)
          /\ blind \in [Process -> BOOLEAN] /\ faults \in 0..MaxFaults /\ MaxFaults \in Nat
      BY ConstantsAssumption DEF Sane, TypeOK
    <2>2. CASE seen' = [seen EXCEPT ![c] = log] /\ UNCHANGED <<blind, faults>>
      BY <2>1, <2>2
    <2>3. CASE Fault /\ seen' = [seen EXCEPT ![c] = <<>>] /\ blind' = [blind EXCEPT ![c] = TRUE]
      BY <2>1, <2>3 DEF Fault
    <2> QED
      BY <2>2, <2>3 DEF Reads
  <1>3. /\ l \in Location /\ pc[c] # "idle" /\ "journalLock" \notin Holds
    BY DEF Location, Holds, SaveHolds, JournalHolds, ClearHolds
  <1>4. /\ l \in SaveHolds => sid[c] \in Id
        /\ l \in {"journalLock"} \cup JournalHolds => jid[c] \in Id
    BY <1>3 DEF Sane, Local
  <1> QED
    BY <1>1, <1>2, <1>3, <1>4, GotoSane DEF command, Sane, TypeOK, Stores

\* A command that starts gets a number of its own.
LEMMA StartSane ==
  ASSUME Sane, NEW c \in Process, StartRun(c) \/ StartNote(c) \/ StartClear(c)
  PROVE  Sane'
  <1>1. /\ Begin(c) /\ runs + 1 \in Run /\ runs' \in 0..MaxRuns /\ run' = [run EXCEPT ![c] = runs + 1]
        /\ UNCHANGED <<log, masters, sid, jid, seen, left, failed, faults, blind, swept>>
    BY ConstantsAssumption DEF StartRun, StartNote, StartClear, Begin, Sane, TypeOK, Run
  <1>2. /\ key' \in [Process -> Key \cup {None}] /\ served' \in [Process -> {"live", "cache"}]
        /\ saves' \in [Process -> BOOLEAN] /\ journals' \in [Process -> BOOLEAN]
        /\ all' \in [Process -> BOOLEAN]
    <2>1. CASE StartRun(c)
      BY <2>1 DEF StartRun, Sane, TypeOK
    <2>2. CASE StartNote(c) \/ StartClear(c)
      BY <2>2 DEF StartNote, StartClear, Sane, TypeOK
    <2> QED
      BY <2>1, <2>2
  <1>3. \E l \in {"saveLock", "journal", "clearLock"} : Goto(c, l)
    BY DEF StartRun, StartNote, StartClear
  <1>4. PICK l \in {"saveLock", "journal", "clearLock"} : Goto(c, l)
    BY <1>3
  <1>5. /\ l \in Location /\ l \notin SaveHolds \cup {"journalLock"} \cup JournalHolds
    BY DEF Location, SaveHolds, JournalHolds
  <1>6. TypeOK'
    BY <1>1, <1>2, <1>4, <1>5 DEF Sane, TypeOK, Goto, Run
  <1>7. /\ pc'[c] = l /\ run'[c] \in Run
        /\ \A d \in Process \ {c} : pc'[d] = pc[d] /\ run'[d] = run[d]
    BY <1>1, <1>4 DEF Goto, Sane, TypeOK
  <1>8. \A d \in Process : served'[d] = "cache" => key'[d] \in Key
    BY DEF StartRun, StartNote, StartClear, Sane, TypeOK, Local
  <1>9. Local'
    BY <1>1, <1>5, <1>7, <1>8 DEF Sane, Local
  <1> QED
    BY <1>6, <1>9 DEF Sane

\* The lock, waited for in vain or taken.
LEMMA LockSane ==
  ASSUME Sane, NEW c \in Process,
         TakeLock(c) \/ LockTimeout(c) \/ SaveLockTimeout(c) \/ MintJournalId(c)
  PROVE  Sane'
  <1>1. Stores'
    BY DEF TakeLock, LockTimeout, SaveLockTimeout, MintJournalId, Stores, Sane, TypeOK
  <1>2. CASE TakeLock(c)
    <2>1. /\ Goto(c, AfterLock(c)) /\ pc[c] \in {"saveLock", "journalLock", "clearLock"}
          /\ UNCHANGED <<run, key, served, saves, journals, all, jid, seen, left, failed, blind>>
      BY <1>2 DEF TakeLock
    <2>2. /\ sid' \in [Process -> Id \cup {None}] /\ \A d \in Process \ {c} : sid'[d] = sid[d]
          /\ pc[c] = "saveLock" => sid'[c] \in Id
      BY <1>2 DEF TakeLock, Sane, TypeOK
    <2>3. /\ AfterLock(c) \in Location
          /\ AfterLock(c) \in SaveHolds => pc[c] = "saveLock"
          /\ AfterLock(c) \in {"journalLock"} \cup JournalHolds => pc[c] = "journalLock"
      BY <2>1 DEF AfterLock, Location, Holds, SaveHolds, JournalHolds, ClearHolds
    <2>4. pc[c] = "journalLock" => jid[c] \in Id
      BY DEF Sane, Local
    <2> DEFINE l == AfterLock(c)
    <2>5. /\ l \in Location /\ Goto(c, l)
          /\ l \in SaveHolds => sid'[c] \in Id
          /\ l \in {"journalLock"} \cup JournalHolds => jid'[c] \in Id
      BY <2>1, <2>2, <2>3, <2>4
    <2> HIDE DEF l
    <2>6. pc[c] # "idle"
      BY <2>1
    <2>7. /\ jid' \in [Process -> Id \cup {None}] /\ jid' = jid
          /\ seen' \in [Process -> Seq(Entry)] /\ left' \in [Process -> SUBSET Id]
          /\ failed' \in [Process -> BOOLEAN] /\ blind' \in [Process -> BOOLEAN]
      BY <2>1 DEF Sane, TypeOK
    <2>8. UNCHANGED <<run, key, served, saves, journals, all>>
      BY <2>1
    <2> QED
      BY <1>1, <2>2, <2>5, <2>6, <2>7, <2>8, GotoSane
  <1>3. CASE LockTimeout(c)
    <2>1. Fails(c) /\ pc[c] # "idle"
      BY <1>3 DEF LockTimeout
    <2> QED
      BY <1>1, <2>1, FailsSane
  <1>4. CASE SaveLockTimeout(c)
    <2>1. CASE journals[c]
      <3>1. /\ Goto(c, "journal") /\ pc[c] = "saveLock"
            /\ UNCHANGED <<run, key, served, saves, journals, all, jid, seen, left, failed, blind>>
            /\ sid' \in [Process -> Id \cup {None}] /\ \A d \in Process \ {c} : sid'[d] = sid[d]
        BY <1>4, <2>1 DEF SaveLockTimeout, Sane, TypeOK
      <3>2. /\ "journal" \in Location
            /\ "journal" \notin SaveHolds \cup {"journalLock"} \cup JournalHolds
        BY DEF Location, SaveHolds, JournalHolds
      <3> QED
        BY <1>1, <3>1, <3>2, GotoSane DEF Sane, TypeOK
    <2>2. CASE ~journals[c]
      BY <1>1, <1>4, <2>2, EndLocalSane DEF SaveLockTimeout
    <2> QED
      BY <2>1, <2>2
  <1>5. CASE MintJournalId(c)
    <2>1. /\ Goto(c, "journalLock") /\ pc[c] = "journal"
          /\ UNCHANGED <<run, key, served, saves, journals, all, sid, seen, left, failed, blind>>
          /\ jid' \in [Process -> Id \cup {None}] /\ \A d \in Process \ {c} : jid'[d] = jid[d]
          /\ jid'[c] \in Id
      BY <1>5 DEF MintJournalId, Sane, TypeOK
    <2>2. "journalLock" \in Location /\ "journalLock" \notin SaveHolds
      BY DEF Location, SaveHolds
    <2> QED
      BY <1>1, <2>1, <2>2, GotoSane DEF Sane, TypeOK
  <1> QED
    BY <1>2, <1>3, <1>4, <1>5

\* A save, from its check to its entry.
LEMMA SaveSane ==
  ASSUME Sane, NEW c \in Process,
         SaveCheck(c) \/ SaveMaster(c) \/ SaveRead(c) \/ SaveLog(c) \/ SaveFails(c)
  PROVE  Sane'
  <1>1. ASSUME pc[c] \in SaveHolds PROVE sid[c] \in Id /\ run[c] \in Run /\ pc[c] # "idle"
    BY <1>1 DEF Sane, Local, SaveHolds
  <1>2. ASSUME pc[c] \in SaveHolds PROVE Append(seen[c], SaveEntry(c)) \in Seq(Entry)
    BY <1>2, SaveEntryType DEF Sane, TypeOK
  <1>3. ASSUME pc[c] \in SaveHolds PROVE [masters EXCEPT ![sid[c]] = run[c]] \in [Id -> Run \cup {None}]
    BY <1>1, <1>3 DEF Sane, TypeOK
  <1>4. CASE SaveCheck(c)
    <2>1. pc[c] = "saveCheck" /\ pc[c] \in SaveHolds /\ Stores'
      BY <1>4 DEF SaveCheck, SaveHolds, Stores, Sane, TypeOK
    <2>2. CASE Goto(c, "saveMaster") /\ UNCHANGED local
      <3>1. "saveMaster" \in Location /\ "saveMaster" \notin {"journalLock"} \cup JournalHolds
        BY DEF Location, Holds, SaveHolds, JournalHolds
      <3> QED
        BY <1>1, <2>1, <2>2, <3>1, GotoSane DEF local, command, Sane, TypeOK
    <2>3. CASE Fails(c)
      BY <2>1, <2>3, <1>1, FailsSane
    <2> QED
      BY <1>4, <2>2, <2>3 DEF SaveCheck
  <1>5. CASE SaveMaster(c)
    <2>1. pc[c] = "saveMaster" /\ pc[c] \in SaveHolds
      BY <1>5 DEF SaveMaster, SaveHolds
    <2>2. /\ masters' = [masters EXCEPT ![sid[c]] = run[c]] /\ Goto(c, "saveRead")
          /\ UNCHANGED <<log, local, runs, faults, swept>>
      BY <1>5 DEF SaveMaster
    <2>3. Stores'
      BY <1>3, <2>1, <2>2 DEF Stores, Sane, TypeOK
    <2>4. "saveRead" \in Location /\ "saveRead" \notin {"journalLock"} \cup JournalHolds
      BY DEF Location, Holds, SaveHolds, JournalHolds
    <2> QED
      BY <1>1, <2>1, <2>2, <2>3, <2>4, GotoSane DEF local, command, Sane, TypeOK
  <1>6. CASE SaveRead(c)
    <2>1. pc[c] \in SaveHolds /\ Reads(c, "saveLog")
      BY <1>6 DEF SaveRead, SaveHolds
    <2>2. pc[c] \in Holds /\ "saveLog" \in Holds /\ "saveLog" \notin JournalHolds
      BY <2>1 DEF Holds, SaveHolds, JournalHolds
    <2> QED
      BY <2>1, <2>2, ReadsSane
  <1>7. CASE SaveLog(c)
    <2>1. pc[c] = "saveLog" /\ pc[c] \in SaveHolds
      BY <1>7 DEF SaveLog, SaveHolds
    <2>2. Stores'
      BY <1>2, <1>7, <2>1 DEF SaveLog, Stores, Sane, TypeOK
    <2>3. Fails(c)
      BY <1>7, <2>1 DEF SaveLog, Fails
    <2> QED
      BY <1>1, <2>1, <2>2, <2>3, FailsSane
  <1>8. CASE SaveFails(c)
    <2>1. pc[c] \in SaveHolds
      BY <1>8 DEF SaveFails, SaveHolds
    <2>2. faults' \in 0..MaxFaults
      BY <1>8, ConstantsAssumption DEF SaveFails, Fault, Sane, TypeOK
    <2>3. log' \in Seq(Entry) /\ masters' \in [Id -> Run \cup {None}]
      BY <1>2, <1>3, <1>8, <2>1 DEF SaveFails, Sane, TypeOK
    <2>4. Stores' /\ Fails(c)
      BY <1>8, <2>2, <2>3 DEF SaveFails, Stores, Sane, TypeOK
    <2> QED
      BY <1>1, <2>1, <2>4, FailsSane
  <1> QED
    BY <1>4, <1>5, <1>6, <1>7, <1>8

\* A journal append.
LEMMA JournalSane ==
  ASSUME Sane, NEW c \in Process,
         JournalRead(c) \/ JournalWrite(c) \/ JournalGivesUp(c) \/ JournalFails(c)
  PROVE  Sane'
  <1>1. CASE JournalRead(c)
    <2>1. pc[c] \in JournalHolds /\ Reads(c, "journalWrite")
      BY <1>1 DEF JournalRead, JournalHolds
    <2>2. pc[c] \in Holds /\ "journalWrite" \in Holds /\ "journalWrite" \notin SaveHolds
      BY <2>1 DEF Holds, SaveHolds, JournalHolds
    <2> QED
      BY <2>1, <2>2, ReadsSane
  <1>2. CASE JournalWrite(c) \/ JournalGivesUp(c) \/ JournalFails(c)
    <2>1. pc[c] = "journalWrite" /\ EndLocal(c) /\ UNCHANGED <<masters, runs, swept>>
      BY <1>2 DEF JournalWrite, JournalGivesUp, JournalFails
    <2>2. \A e \in Appended(c) : Append(seen[c], e) \in Seq(Entry)
      BY <2>1, AppendedType DEF Sane, TypeOK
    <2>3. log' = log \/ \E e \in Appended(c) : log' = Append(seen[c], e)
      BY <1>2 DEF JournalWrite, JournalGivesUp, JournalFails
    <2>4. log' \in Seq(Entry)
      BY <2>2, <2>3 DEF Sane, TypeOK
    <2>5. faults' \in 0..MaxFaults
      BY <1>2, ConstantsAssumption DEF JournalWrite, JournalGivesUp, JournalFails, Fault, Sane, TypeOK
    <2>6. Stores'
      BY <2>1, <2>4, <2>5 DEF Stores, Sane, TypeOK
    <2> QED
      BY <2>1, <2>6, EndLocalSane
  <1> QED
    BY <1>1, <1>2

\* A clear.
LEMMA ClearSane ==
  ASSUME Sane, NEW c \in Process,
         \/ ClearRead(c) \/ StartSweep(c) \/ Unlink(c) \/ UnlinkFails(c) \/ SweepEnds(c)
         \/ Rewrite(c) \/ RewriteFails(c) \/ Crash(c)
  PROVE  Sane'
  <1> DEFINE Other == SaveHolds \cup {"journalLock"} \cup JournalHolds
  <1>0. /\ {"sweep", "rewrite", "clearRead"} \subseteq Holds \cap Location
        /\ {"sweep", "rewrite"} \cap Other = {}
    BY DEF Location, Holds, SaveHolds, JournalHolds, ClearHolds
  <1>1. CASE ClearRead(c)
    <2>1. \E l \in {"sweep", "rewrite"} : pc[c] = "clearRead" /\ Reads(c, l)
      BY <1>1 DEF ClearRead
    <2> QED
      BY <1>0, <2>1, ReadsSane
  <1>2. CASE StartSweep(c) \/ Unlink(c) \/ UnlinkFails(c)
    <2>1. /\ pc[c] = "sweep" /\ Goto(c, "sweep") /\ UNCHANGED <<log, runs>>
      BY <1>2 DEF StartSweep, Unlink, UnlinkFails, Goto, Sane, TypeOK
    <2>2. UNCHANGED <<command, seen, blind>>
      BY <1>2 DEF StartSweep, Unlink, UnlinkFails
    <2>3. /\ failed' \in [Process -> BOOLEAN]
          /\ \E files \in SUBSET Id : left' = [left EXCEPT ![c] = files]
      <3>0. left[c] \in SUBSET Id
        BY DEF Sane, TypeOK
      <3>1. CASE StartSweep(c)
        BY <3>1 DEF StartSweep, Sane, TypeOK
      <3>2. CASE Unlink(c)
        <4>1. \E i \in Id : left' = [left EXCEPT ![c] = left[c] \ {i}]
          BY <3>0, <3>2 DEF Unlink
        <4> QED
          BY <3>0, <3>2, <4>1 DEF Unlink, Sane, TypeOK
      <3>3. CASE UnlinkFails(c)
        <4>1. \E i \in Id : left' = [left EXCEPT ![c] = left[c] \ {i}]
          BY <3>0, <3>3 DEF UnlinkFails
        <4> QED
          BY <3>0, <3>3, <4>1 DEF UnlinkFails, Sane, TypeOK
      <3> QED
        BY <1>2, <3>1, <3>2, <3>3
    <2>4. masters' \in [Id -> Run \cup {None}] /\ swept' \subseteq Id /\ faults' \in 0..MaxFaults
      <3>1. CASE StartSweep(c)
        BY <3>1 DEF StartSweep, Sane, TypeOK
      <3>2. CASE Unlink(c)
        BY <3>2 DEF Unlink, Sane, TypeOK
      <3>3. CASE UnlinkFails(c)
        BY <3>3, ConstantsAssumption DEF UnlinkFails, Fault, Sane, TypeOK
      <3> QED
        BY <1>2, <3>1, <3>2, <3>3
    <2>5. Stores'
      BY <2>1, <2>4 DEF Stores, Sane, TypeOK
    <2>6. left' \in [Process -> SUBSET Id]
      BY <2>3 DEF Sane, TypeOK
    <2> QED
      BY <1>0, <2>1, <2>2, <2>3, <2>5, <2>6, GotoSane DEF command, Sane, TypeOK
  <1>3. CASE SweepEnds(c)
    <2>1. pc[c] = "sweep" /\ Stores'
      BY <1>3 DEF SweepEnds, Stores, Sane, TypeOK
    <2>2. CASE EndLocal(c)
      BY <2>1, <2>2, EndLocalSane
    <2>3. CASE Goto(c, "rewrite") /\ UNCHANGED local
      BY <1>0, <2>1, <2>3, GotoSane DEF local, command, Sane, TypeOK
    <2> QED
      BY <1>3, <2>2, <2>3 DEF SweepEnds
  <1>4. CASE Rewrite(c) \/ RewriteFails(c)
    <2>1. EndLocal(c) /\ UNCHANGED <<masters, runs>> /\ swept' \subseteq Id
      BY <1>4 DEF Rewrite, RewriteFails, Sane, TypeOK
    <2>2. log' \in Seq(Entry)
      BY <1>4, KeptFacts DEF Rewrite, RewriteFails, Sane, TypeOK
    <2>3. faults' \in 0..MaxFaults
      BY <1>4, ConstantsAssumption DEF Rewrite, RewriteFails, Fault, Sane, TypeOK
    <2>4. Stores'
      BY <2>1, <2>2, <2>3 DEF Stores, Sane, TypeOK
    <2> QED
      BY <2>1, <2>4, EndLocalSane
  <1>5. CASE Crash(c)
    <2>1. EndLocal(c) /\ Stores'
      BY <1>5, ConstantsAssumption DEF Crash, Fault, Stores, Sane, TypeOK
    <2> QED
      BY <2>1, EndLocalSane
  <1> QED
    BY <1>1, <1>2, <1>3, <1>4, <1>5

\* The types of the state, and what a command knows of itself, hold throughout.
THEOREM SaneHolds == Spec => []Sane
  <1>1. Sane /\ [Next]_vars => Sane'
    <2> SUFFICES ASSUME Sane, [Next]_vars PROVE Sane' OBVIOUS
    <2>1. CASE UNCHANGED vars
      BY <2>1 DEF Sane, TypeOK, Local, vars, local, command
    <2>2. CASE Next
      BY <2>2, StartSane, LockSane, SaveSane, JournalSane, ClearSane DEF Next
    <2> QED
      BY <2>1, <2>2
  <1> QED
    BY <1>1, SaneInit, PTL DEF Spec

\* Every variable of the artifacts store has its type.
THEOREM TypeCorrect == Spec => []TypeOK
  <1>1. Sane => TypeOK
    BY DEF Sane
  <1> QED
    BY <1>1, SaneHolds, PTL

-----------------------------------------------------------------------------
\* Locked is kept by every step of Next.

\* A step of c leaves the other commands alone, writes the files only under the
\* lock, and gets to hold the lock only when it is free.
Apart(c) ==
    /\ \A d \in Process \ {c} : /\ pc'[d] = pc[d] /\ run'[d] = run[d] /\ sid'[d] = sid[d]
                                /\ seen'[d] = seen[d] /\ blind'[d] = blind[d]
    /\ pc[c] \in Holds \/ UNCHANGED <<log, masters, swept>>
    /\ pc'[c] \in Holds => pc[c] \in Holds \/ LockFree

\* What c itself knows after its step.
OwnTrue(c) ==
    /\ pc'[c] \in Rewrites => seen'[c] = log' \/ (blind'[c] /\ seen'[c] = <<>>)
    /\ pc'[c] = "saveMaster" => masters'[sid'[c]] = None
    /\ pc'[c] \in {"saveRead", "saveLog"} => masters'[sid'[c]] = run'[c]

\* Such a step keeps what every command knows.
LEMMA LockedStep ==
  ASSUME Sane, Locked, NEW c \in Process, Apart(c), OwnTrue(c)
  PROVE  Locked'
  <1> USE DEF Locked
  <1>1. Exclusive'
    BY DEF Exclusive, Apart, LockFree
  <1>2. ASSUME NEW d \in Process \ {c}, pc[d] \in Holds PROVE UNCHANGED <<log, masters, swept>>
    BY <1>2 DEF Exclusive, Apart
  <1>3. SeenIsTrue'
    <2> SUFFICES ASSUME NEW d \in Process, pc'[d] \in Rewrites
                 PROVE  seen'[d] = log' \/ (blind'[d] /\ seen'[d] = <<>>)
      BY DEF SeenIsTrue
    <2>1. CASE d = c
      BY <2>1 DEF OwnTrue
    <2>2. CASE d # c
      <3>1. pc[d] \in Rewrites /\ seen'[d] = seen[d] /\ blind'[d] = blind[d]
        BY <2>2 DEF Apart
      <3>2. pc[d] \in Holds
        BY <3>1 DEF Rewrites, Holds, SaveHolds, JournalHolds, ClearHolds
      <3> QED
        BY <1>2, <2>2, <3>1, <3>2 DEF SeenIsTrue
    <2> QED
      BY <2>1, <2>2
  <1>4. MasterOfSave'
    <2> SUFFICES ASSUME NEW d \in Process
                 PROVE  /\ pc'[d] = "saveMaster" => masters'[sid'[d]] = None
                        /\ pc'[d] \in {"saveRead", "saveLog"} => masters'[sid'[d]] = run'[d]
      BY DEF MasterOfSave
    <2>1. CASE d = c
      BY <2>1 DEF OwnTrue
    <2>2. CASE d # c /\ pc[d] \in Holds
      <3>1. pc'[d] = pc[d] /\ sid'[d] = sid[d] /\ run'[d] = run[d] /\ masters' = masters
        BY <1>2, <2>2 DEF Apart
      <3> QED
        BY <3>1 DEF MasterOfSave
    <2>3. CASE d # c /\ pc[d] \notin Holds
      BY <2>3 DEF Apart, Holds, SaveHolds
    <2> QED
      BY <2>1, <2>2, <2>3
  <1> QED
    BY <1>1, <1>3, <1>4

\* A step that ends at none of the places where a command knows something.
LEMMA UnknowingStep ==
  ASSUME Sane, Locked, NEW c \in Process, Apart(c),
         pc'[c] \notin Rewrites \cup {"saveMaster", "saveRead"}
  PROVE  Locked'
  <1>1. OwnTrue(c)
    BY DEF OwnTrue, Rewrites
  <1> QED
    BY <1>1, LockedStep

\* Where a command that ends or gives up gets to, and what it leaves alone.
LEMMA GivesUpFacts ==
  ASSUME Sane, NEW c \in Process, EndLocal(c) \/ Fails(c)
  PROVE  /\ pc'[c] \in {"idle", "journal"}
         /\ \A d \in Process \ {c} : /\ pc'[d] = pc[d] /\ run'[d] = run[d] /\ sid'[d] = sid[d]
                                     /\ seen'[d] = seen[d] /\ blind'[d] = blind[d]
  <1>1. CASE EndLocal(c)
    BY <1>1 DEF EndLocal, Goto, Sane, TypeOK
  <1>2. CASE ~EndLocal(c)
    <2>1. /\ Goto(c, "journal") /\ UNCHANGED <<command, left, failed>>
          /\ seen' = [seen EXCEPT ![c] = <<>>] /\ blind' = [blind EXCEPT ![c] = FALSE]
      BY <1>2 DEF Fails
    <2> QED
      BY <2>1 DEF Goto, command, Sane, TypeOK
  <1> QED
    BY <1>1, <1>2

\* The places before the lock.
LEMMA PlacesFacts ==
  /\ Rewrites \cup {"saveMaster", "saveRead"} \subseteq Holds
  /\ {"idle", "saveLock", "journal", "journalLock", "clearLock"} \cap Holds = {}
  /\ {"saveCheck", "clearRead", "journalRead"} \subseteq Holds
  /\ {"saveCheck", "clearRead", "journalRead"} \cap (Rewrites \cup {"saveMaster", "saveRead"}) = {}
  BY DEF Holds, SaveHolds, JournalHolds, ClearHolds, Rewrites

\* A command that ends or gives up.
LEMMA GivesUpLocked ==
  ASSUME Sane, Locked, NEW c \in Process, EndLocal(c) \/ Fails(c),
         pc[c] \in Holds \/ UNCHANGED <<log, masters, swept>>
  PROVE  Locked'
  <1>1. Apart(c)
    BY GivesUpFacts, PlacesFacts DEF Apart
  <1> QED
    BY <1>1, GivesUpFacts, PlacesFacts, UnknowingStep

\* A read, whose outcome is the log or a blank.
LEMMA ReadsLocked ==
  ASSUME Sane, Locked, NEW c \in Process, NEW l \in Rewrites, Reads(c, l), pc[c] \in Holds,
         l = "saveLog" => pc[c] = "saveRead"
  PROVE  Locked'
  <1>1. /\ pc'[c] = l /\ UNCHANGED <<log, masters, swept, run, sid>>
        /\ \A d \in Process \ {c} : pc'[d] = pc[d] /\ seen'[d] = seen[d] /\ blind'[d] = blind[d]
        /\ seen'[c] = log \/ (blind'[c] /\ seen'[c] = <<>>)
    BY DEF Reads, Goto, command, Sane, TypeOK
  <1>2. Apart(c)
    BY <1>1 DEF Apart
  <1>3. OwnTrue(c)
    BY <1>1 DEF OwnTrue, Locked, MasterOfSave, Rewrites
  <1> QED
    BY <1>2, <1>3, LockedStep

\* The steps outside the lock, and the one that takes it.
LEMMA OutsideLocked ==
  ASSUME Sane, Locked, NEW c \in Process,
         \/ StartRun(c) \/ StartNote(c) \/ StartClear(c)
         \/ TakeLock(c) \/ LockTimeout(c) \/ SaveLockTimeout(c) \/ MintJournalId(c)
  PROVE  Locked'
  <1>1. UNCHANGED <<log, masters, swept>>
    BY DEF StartRun, StartNote, StartClear, Begin, TakeLock, LockTimeout, SaveLockTimeout,
       MintJournalId
  <1>2. CASE StartRun(c) \/ StartNote(c) \/ StartClear(c)
    <2>1. /\ \E l \in {"saveLock", "journal", "clearLock"} : Goto(c, l)
          /\ run' = [run EXCEPT ![c] = runs + 1] /\ UNCHANGED <<sid, seen, blind>>
      BY <1>2 DEF StartRun, StartNote, StartClear, Begin
    <2>2. /\ pc'[c] \in {"saveLock", "journal", "clearLock"}
          /\ \A d \in Process \ {c} : pc'[d] = pc[d] /\ run'[d] = run[d]
      BY <2>1 DEF Goto, Sane, TypeOK
    <2>3. Apart(c)
      BY <1>1, <2>1, <2>2, PlacesFacts DEF Apart
    <2> QED
      BY <2>2, <2>3, PlacesFacts, UnknowingStep
  <1>3. CASE TakeLock(c)
    <2>1. /\ Goto(c, AfterLock(c)) /\ LockFree /\ UNCHANGED <<run, seen, blind>>
          /\ AfterLock(c) \in {"saveCheck", "journalRead", "clearRead"}
          /\ sid' = sid \/ \E i \in Id : sid' = [sid EXCEPT ![c] = i]
      BY <1>3 DEF TakeLock, AfterLock
    <2>2. /\ pc'[c] \in {"saveCheck", "journalRead", "clearRead"}
          /\ \A d \in Process \ {c} : pc'[d] = pc[d] /\ sid'[d] = sid[d]
      BY <2>1 DEF Goto, Sane, TypeOK
    <2>3. Apart(c)
      BY <1>1, <2>1, <2>2 DEF Apart
    <2> QED
      BY <2>2, <2>3, PlacesFacts, UnknowingStep
  <1>4. CASE LockTimeout(c)
    BY <1>1, <1>4, GivesUpLocked DEF LockTimeout
  <1>5. CASE SaveLockTimeout(c)
    <2>1. CASE journals[c]
      <3>1. /\ Goto(c, "journal") /\ UNCHANGED <<run, seen, blind>>
            /\ \E i \in Id : sid' = [sid EXCEPT ![c] = i]
        BY <1>5, <2>1 DEF SaveLockTimeout
      <3>2. /\ pc'[c] = "journal"
            /\ \A d \in Process \ {c} : pc'[d] = pc[d] /\ sid'[d] = sid[d]
        BY <3>1 DEF Goto, Sane, TypeOK
      <3>3. Apart(c)
        BY <1>1, <3>1, <3>2, PlacesFacts DEF Apart
      <3> QED
        BY <3>2, <3>3, PlacesFacts, UnknowingStep
    <2>2. CASE ~journals[c]
      BY <1>1, <1>5, <2>2, GivesUpLocked DEF SaveLockTimeout
    <2> QED
      BY <2>1, <2>2
  <1>6. CASE MintJournalId(c)
    <2>1. Goto(c, "journalLock") /\ UNCHANGED <<run, sid, seen, blind>>
      BY <1>6 DEF MintJournalId
    <2>2. pc'[c] = "journalLock" /\ \A d \in Process \ {c} : pc'[d] = pc[d]
      BY <2>1 DEF Goto, Sane, TypeOK
    <2>3. Apart(c)
      BY <1>1, <2>1, <2>2, PlacesFacts DEF Apart
    <2> QED
      BY <2>2, <2>3, PlacesFacts, UnknowingStep
  <1> QED
    BY <1>2, <1>3, <1>4, <1>5, <1>6

\* The steps of a save.
LEMMA SaveLocked ==
  ASSUME Sane, Locked, NEW c \in Process,
         SaveCheck(c) \/ SaveMaster(c) \/ SaveRead(c) \/ SaveLog(c) \/ SaveFails(c)
  PROVE  Locked'
  <1>1. pc[c] \in SaveHolds /\ pc[c] \in Holds
    BY DEF SaveCheck, SaveMaster, SaveRead, SaveLog, SaveFails, SaveHolds, Holds
  <1>2. CASE SaveCheck(c)
    <2>1. CASE FreeTarget(sid[c])
      <3>1. Goto(c, "saveMaster") /\ UNCHANGED <<local, log, masters, swept>>
        BY <1>2, <2>1 DEF SaveCheck
      <3>2. /\ pc'[c] = "saveMaster" /\ \A d \in Process \ {c} : pc'[d] = pc[d]
        BY <3>1 DEF Goto, Sane, TypeOK
      <3>3. Apart(c) /\ OwnTrue(c)
        BY <1>1, <2>1, <3>1, <3>2 DEF Apart, OwnTrue, Rewrites, FreeTarget, local, command
      <3> QED
        BY <3>3, LockedStep
    <2>2. CASE ~FreeTarget(sid[c])
      BY <1>1, <1>2, <2>2, GivesUpLocked DEF SaveCheck
    <2> QED
      BY <2>1, <2>2
  <1>3. CASE SaveMaster(c)
    <2>1. /\ Goto(c, "saveRead") /\ UNCHANGED <<local, log, swept>>
          /\ masters' = [masters EXCEPT ![sid[c]] = run[c]]
      BY <1>3 DEF SaveMaster
    <2>2. /\ pc'[c] = "saveRead" /\ \A d \in Process \ {c} : pc'[d] = pc[d]
          /\ masters'[sid[c]] = run[c]
      BY <1>1, <2>1 DEF Goto, Sane, TypeOK, Local
    <2>3. Apart(c) /\ OwnTrue(c)
      BY <1>1, <2>1, <2>2 DEF Apart, OwnTrue, Rewrites, local, command
    <2> QED
      BY <2>3, LockedStep
  <1>4. CASE SaveRead(c)
    BY <1>1, <1>4, ReadsLocked DEF SaveRead, Rewrites
  <1>5. CASE SaveLog(c)
    <2>1. Fails(c)
      BY <1>1, <1>5 DEF SaveLog, Fails
    <2> QED
      BY <1>1, <2>1, GivesUpLocked
  <1>6. CASE SaveFails(c)
    BY <1>1, <1>6, GivesUpLocked DEF SaveFails
  <1> QED
    BY <1>2, <1>3, <1>4, <1>5, <1>6

\* The steps of an append or a clear, and a death.
LEMMA OthersLocked ==
  ASSUME Sane, Locked, NEW c \in Process,
         \/ JournalRead(c) \/ JournalWrite(c) \/ JournalGivesUp(c) \/ JournalFails(c)
         \/ ClearRead(c) \/ StartSweep(c) \/ Unlink(c) \/ UnlinkFails(c) \/ SweepEnds(c)
         \/ Rewrite(c) \/ RewriteFails(c) \/ Crash(c)
  PROVE  Locked'
  <1>1. CASE JournalRead(c)
    BY <1>1, ReadsLocked DEF JournalRead, Rewrites, Holds, JournalHolds
  <1>2. CASE ClearRead(c)
    BY <1>2, ReadsLocked DEF ClearRead, Rewrites, Holds, ClearHolds
  <1>3. CASE JournalWrite(c) \/ JournalGivesUp(c) \/ JournalFails(c) \/ Rewrite(c) \/ RewriteFails(c)
    <2>1. pc[c] \in Holds /\ EndLocal(c)
      BY <1>3 DEF JournalWrite, JournalGivesUp, JournalFails, Rewrite, RewriteFails, Holds,
         JournalHolds, ClearHolds
    <2> QED
      BY <2>1, GivesUpLocked
  <1>4. CASE Crash(c)
    BY <1>4, GivesUpLocked DEF Crash
  <1>5. CASE StartSweep(c) \/ Unlink(c) \/ UnlinkFails(c)
    <2>1. pc[c] = "sweep" /\ UNCHANGED <<pc, run, sid, seen, blind, log>>
      BY <1>5 DEF StartSweep, Unlink, UnlinkFails, command
    <2>2. pc[c] \in Holds /\ pc[c] \in Rewrites
      BY <2>1 DEF Holds, ClearHolds, Rewrites
    <2>3. Apart(c) /\ OwnTrue(c)
      BY <2>1, <2>2 DEF Apart, OwnTrue, Locked, SeenIsTrue
    <2> QED
      BY <2>3, LockedStep
  <1>6. CASE SweepEnds(c)
    <2>1. pc[c] = "sweep" /\ pc[c] \in Holds /\ pc[c] \in Rewrites
      BY <1>6 DEF SweepEnds, Holds, ClearHolds, Rewrites
    <2>2. CASE failed[c]
      BY <1>6, <2>1, <2>2, GivesUpLocked DEF SweepEnds
    <2>3. CASE ~failed[c]
      <3>1. Goto(c, "rewrite") /\ UNCHANGED <<local, log, masters, swept>>
        BY <1>6, <2>3 DEF SweepEnds
      <3>2. /\ pc'[c] = "rewrite" /\ \A d \in Process \ {c} : pc'[d] = pc[d]
        BY <3>1 DEF Goto, Sane, TypeOK
      <3>3. Apart(c) /\ OwnTrue(c)
        BY <2>1, <3>1, <3>2 DEF Apart, OwnTrue, Locked, SeenIsTrue, local, command
      <3> QED
        BY <3>3, LockedStep
    <2> QED
      BY <2>2, <2>3
  <1> QED
    BY <1>1, <1>2, <1>3, <1>4, <1>5, <1>6

\* One writer at a time, and what each knows of the files while it holds the lock.
THEOREM LockedHolds == Spec => []Locked
  <1>1. Init => Locked
    BY PlacesFacts DEF Init, Locked, Exclusive, SeenIsTrue, MasterOfSave
  <1>2. Sane /\ Locked /\ [Next]_vars => Locked'
    <2> SUFFICES ASSUME Sane, Locked, [Next]_vars PROVE Locked' OBVIOUS
    <2>1. CASE UNCHANGED vars
      BY <2>1 DEF Locked, Exclusive, SeenIsTrue, MasterOfSave, vars, local, command
    <2>2. CASE Next
      BY <2>2, OutsideLocked, SaveLocked, OthersLocked DEF Next
    <2> QED
      BY <2>1, <2>2
  <1> QED
    BY <1>1, <1>2, SaneHolds, PTL DEF Spec

-----------------------------------------------------------------------------
\* The log: what its entries refer to.

\* MarkersResolve, CacheHitsWriteOneFull and SavesHaveMasters, of any log.
Resolved(entries) ==
    \A n \in DOMAIN entries : entries[n].kind = "marker" =>
        \E m \in 1..(n - 1) : /\ entries[m].kind = "full" /\ entries[m].id = entries[n].repeatOf
                              /\ entries[m].key = entries[n].key

OneFull(entries) ==
    \A n \in DOMAIN entries :
       (entries[n].kind = "full" /\ entries[n].served = "cache")
           => \A m \in 1..(n - 1) : ~(entries[m].kind = "full" /\ entries[m].key = entries[n].key)

Mastered(entries) ==
    \A e \in ToSet(entries) : e.kind = "save" => masters[e.id] = e.run \/ e.id \in swept

\* What a step of c can do to the log.
Writes(c) ==
    \/ log' = log
    \/ pc[c] = "saveLog" /\ log' = Append(seen[c], SaveEntry(c))
    \/ pc[c] = "journalWrite" /\ \E e \in Appended(c) : log' = Append(seen[c], e)
    \/ pc[c] = "rewrite" /\ log' = Kept(c)

\* The positions and the members of a log that has one entry more.
LEMMA AppendFacts ==
  ASSUME NEW entries \in Seq(Entry), NEW e \in Entry
  PROVE  /\ DOMAIN Append(entries, e) = DOMAIN entries \cup {Len(entries) + 1}
         /\ DOMAIN entries = 1..Len(entries) /\ Len(entries) \in Nat
         /\ \A n \in 1..Len(entries) : Append(entries, e)[n] = entries[n]
         /\ Append(entries, e)[Len(entries) + 1] = e
         /\ ToSet(Append(entries, e)) = ToSet(entries) \cup {e}
  <1>1. /\ DOMAIN Append(entries, e) = DOMAIN entries \cup {Len(entries) + 1}
        /\ DOMAIN entries = 1..Len(entries) /\ Len(entries) \in Nat
        /\ \A n \in 1..Len(entries) : Append(entries, e)[n] = entries[n]
        /\ Append(entries, e)[Len(entries) + 1] = e
    OBVIOUS
  <1>2. ToSet(Append(entries, e)) = ToSet(entries) \cup {e}
    <2> DEFINE s == Append(entries, e)
    <2> HIDE DEF s
    <2>1. /\ DOMAIN s = DOMAIN entries \cup {Len(entries) + 1}
          /\ \A n \in DOMAIN entries : s[n] = entries[n]
          /\ s[Len(entries) + 1] = e
      BY <1>1 DEF s
    <2>2. ToSet(s) = ToSet(entries) \cup {e}
      BY <2>1 DEF ToSet
    <2> QED
      BY <2>2 DEF s
  <1> QED
    BY <1>1, <1>2

\* An append to a log whose markers resolve, of an entry that does too.
LEMMA AppendResolved ==
  ASSUME NEW entries \in Seq(Entry), NEW e \in Entry, Resolved(entries),
         e.kind = "marker" =>
           \E m \in 1..Len(entries) : /\ entries[m].kind = "full" /\ entries[m].id = e.repeatOf
                                      /\ entries[m].key = e.key
  PROVE  Resolved(Append(entries, e))
  <1> DEFINE s == Append(entries, e)
  <1>1. /\ DOMAIN s = 1..(Len(entries) + 1) /\ Len(entries) \in Nat
        /\ \A n \in 1..Len(entries) : s[n] = entries[n]
        /\ s[Len(entries) + 1] = e
    BY AppendFacts
  <1> HIDE DEF s
  <1> SUFFICES ASSUME NEW n \in 1..(Len(entries) + 1), s[n].kind = "marker"
               PROVE  \E m \in 1..(n - 1) : /\ s[m].kind = "full" /\ s[m].id = s[n].repeatOf
                                            /\ s[m].key = s[n].key
    <2>1. Resolved(s)
      BY <1>1 DEF Resolved
    <2> QED
      BY <2>1 DEF s
  <1>2. CASE n \in 1..Len(entries)
    <2>1. PICK m \in 1..(n - 1) : /\ entries[m].kind = "full" /\ entries[m].id = entries[n].repeatOf
                                  /\ entries[m].key = entries[n].key
      BY <1>1, <1>2, AppendFacts DEF Resolved
    <2> QED
      BY <1>1, <1>2, <2>1
  <1>3. CASE n = Len(entries) + 1
    BY <1>1, <1>3
  <1> QED
    BY <1>1, <1>2, <1>3

\* An append to a log that OneFull holds of: a full entry of a cache hit has no
\* full entry before it.
LEMMA AppendOneFull ==
  ASSUME NEW entries \in Seq(Entry), NEW e \in Entry, OneFull(entries),
         e.kind = "full" /\ e.served = "cache" => FullAt(entries, e.key) = {}
  PROVE  OneFull(Append(entries, e))
  <1> DEFINE s == Append(entries, e)
  <1>1. /\ DOMAIN s = 1..(Len(entries) + 1) /\ Len(entries) \in Nat
        /\ \A n \in 1..Len(entries) : s[n] = entries[n]
        /\ s[Len(entries) + 1] = e
        /\ DOMAIN entries = 1..Len(entries)
    BY AppendFacts
  <1> HIDE DEF s
  <1> SUFFICES ASSUME NEW n \in 1..(Len(entries) + 1), s[n].kind = "full", s[n].served = "cache",
                      NEW m \in 1..(n - 1), s[m].kind = "full", s[m].key = s[n].key
               PROVE  FALSE
    <2>1. OneFull(s)
      BY <1>1 DEF OneFull
    <2> QED
      BY <2>1 DEF s
  <1>2. CASE n \in 1..Len(entries)
    BY <1>1, <1>2 DEF OneFull
  <1>3. CASE n = Len(entries) + 1
    <2>1. m \in FullAt(entries, e.key)
      BY <1>1, <1>3 DEF FullAt
    <2> QED
      BY <1>1, <1>3, <2>1
  <1> QED
    BY <1>1, <1>2, <1>3

\* A log of saves has neither markers nor full entries.
LEMMA SavesOnly ==
  ASSUME NEW entries \in Seq(Entry), \A e \in ToSet(entries) : e.kind = "save"
  PROVE  Resolved(entries) /\ OneFull(entries)
  BY DEF Resolved, OneFull, ToSet

\* The empty log.
LEMMA EmptyLog == Resolved(<<>>) /\ OneFull(<<>>) /\ ToSet(<<>>) = {}
  BY DEF Resolved, OneFull, ToSet

\* Every step of a command writes the log, if at all, in one of four ways.
LEMMA EveryStepWrites ==
  ASSUME Next
  PROVE  \E c \in Process : Writes(c) /\ (log' = log \/ EndLocal(c) \/ Fails(c))
  <1>1. PICK c \in Process :
       \/ StartRun(c) \/ StartNote(c) \/ StartClear(c)
       \/ TakeLock(c) \/ LockTimeout(c) \/ SaveLockTimeout(c)
       \/ SaveCheck(c) \/ SaveMaster(c) \/ SaveRead(c) \/ SaveLog(c) \/ SaveFails(c)
       \/ MintJournalId(c) \/ JournalRead(c) \/ JournalWrite(c)
       \/ JournalGivesUp(c) \/ JournalFails(c)
       \/ ClearRead(c) \/ StartSweep(c) \/ Unlink(c) \/ UnlinkFails(c) \/ SweepEnds(c)
       \/ Rewrite(c) \/ RewriteFails(c) \/ Crash(c)
    BY DEF Next
  <1>2. CASE StartRun(c) \/ StartNote(c) \/ StartClear(c)
    BY <1>2 DEF StartRun, StartNote, StartClear, Begin, Writes
  <1>3. CASE TakeLock(c) \/ LockTimeout(c) \/ SaveLockTimeout(c) \/ MintJournalId(c)
    BY <1>3 DEF TakeLock, LockTimeout, SaveLockTimeout, MintJournalId, Writes
  <1>4. CASE SaveCheck(c) \/ SaveMaster(c)
    BY <1>4 DEF SaveCheck, SaveMaster, Writes
  <1>5. CASE SaveRead(c) \/ JournalRead(c) \/ ClearRead(c)
    BY <1>5 DEF SaveRead, JournalRead, ClearRead, Reads, Writes
  <1>6. CASE SaveLog(c)
    <2>1. Fails(c)
      BY <1>6 DEF SaveLog, Fails, SaveHolds
    <2> QED
      BY <1>6, <2>1 DEF SaveLog, Writes
  <1>7. CASE SaveFails(c)
    BY <1>7 DEF SaveFails, Writes
  <1>8. CASE JournalWrite(c) \/ JournalGivesUp(c) \/ JournalFails(c)
    BY <1>8 DEF JournalWrite, JournalGivesUp, JournalFails, Writes
  <1>9. CASE StartSweep(c) \/ Unlink(c) \/ UnlinkFails(c) \/ SweepEnds(c)
    BY <1>9 DEF StartSweep, Unlink, UnlinkFails, SweepEnds, Writes
  <1>10. CASE Rewrite(c) \/ RewriteFails(c) \/ Crash(c)
    BY <1>10 DEF Rewrite, RewriteFails, Crash, Writes
  <1> QED
    BY <1>1, <1>2, <1>3, <1>4, <1>5, <1>6, <1>7, <1>8, <1>9, <1>10

\* The log after a step: its markers resolve, and cache hits wrote one full entry.
LEMMA WritesKeep ==
  ASSUME Sane, Locked, Resolved(log), OneFull(log), NEW c \in Process, Writes(c)
  PROVE  Resolved(log') /\ OneFull(log')
  <1>1. CASE log' = log
    BY <1>1
  <1>2. ASSUME pc[c] \in Rewrites
        PROVE  seen[c] \in Seq(Entry) /\ Resolved(seen[c]) /\ OneFull(seen[c])
    <2>1. seen[c] = log \/ seen[c] = <<>>
      BY <1>2 DEF Locked, SeenIsTrue
    <2> QED
      BY <2>1, EmptyLog DEF Sane, TypeOK
  <1>3. CASE pc[c] = "saveLog" /\ log' = Append(seen[c], SaveEntry(c))
    <2>1. SaveEntry(c) \in Entry /\ SaveEntry(c).kind = "save" /\ pc[c] \in Rewrites
      BY <1>3, SaveEntryType DEF SaveHolds, SaveEntry, Rewrites
    <2> QED
      BY <1>2, <1>3, <2>1, AppendResolved, AppendOneFull
  <1>4. CASE pc[c] = "journalWrite" /\ \E e \in Appended(c) : log' = Append(seen[c], e)
    <2>1. PICK e \in Appended(c) : log' = Append(seen[c], e)
      BY <1>4
    <2>2. e \in Entry /\ pc[c] \in Rewrites
      BY <1>4, <2>1, AppendedType DEF Rewrites
    <2>3. CASE Repeats(c)
      <3>1. e = Marker(c)
        BY <2>3, <2>1 DEF Appended
      <3> QED
        BY <1>2, <2>1, <2>2, <2>3, <3>1, MarkerFacts, AppendResolved, AppendOneFull
    <2>4. CASE ~Repeats(c)
      <3>1. PICK i \in Minted(c) : e = FullEntry(c, i)
        BY <2>4, <2>1 DEF Appended
      <3>2. e.kind = "full" /\ e.key = key[c] /\ e.served = served[c]
        BY <3>1 DEF FullEntry
      <3>3. e.served = "cache" => FullAt(seen[c], e.key) = {}
        BY <2>4, <3>2 DEF Repeats
      <3> QED
        BY <1>2, <2>1, <2>2, <3>2, <3>3, AppendResolved, AppendOneFull
    <2> QED
      BY <2>3, <2>4
  <1>5. CASE pc[c] = "rewrite" /\ log' = Kept(c)
    BY <1>5, KeptFacts, SavesOnly
  <1> QED
    BY <1>1, <1>3, <1>4, <1>5 DEF Writes

\* The references of the log's entries hold throughout.
LEMMA ReferencesHold == Spec => [](Resolved(log) /\ OneFull(log))
  <1> DEFINE Good == Resolved(log) /\ OneFull(log)
  <1>1. Init => Good
    BY EmptyLog DEF Init
  <1>2. Sane /\ Locked /\ Good /\ [Next]_vars => Good'
    <2> SUFFICES ASSUME Sane, Locked, Good, [Next]_vars PROVE Resolved(log') /\ OneFull(log')
      OBVIOUS
    <2>1. CASE UNCHANGED vars
      BY <2>1 DEF vars
    <2>2. CASE Next
      BY <2>2, EveryStepWrites, WritesKeep
    <2> QED
      BY <2>1, <2>2
  <1> QED
    <2> HIDE DEF Good
    <2>1. Spec => []Good
      BY <1>1, <1>2, SaneHolds, LockedHolds, PTL DEF Spec
    <2> QED
      BY <2>1 DEF Good

\* Every repeat marker of the journal has before it the full entry that it names
\* (appendJournalEntryMaybeRepeat decides under the lock), whatever is cleared,
\* lost to a failed read or minted twice.
THEOREM MarkersResolveHolds == Spec => []MarkersResolve
  <1>1. Resolved(log) /\ OneFull(log) => MarkersResolve
    BY DEF Resolved, MarkersResolve
  <1> QED
    BY <1>1, ReferencesHold, PTL

\* Two cache hits of one key never both write a full entry.
THEOREM CacheHitsWriteOneFullHolds == Spec => []CacheHitsWriteOneFull
  <1>1. Resolved(log) /\ OneFull(log) => CacheHitsWriteOneFull
    BY DEF OneFull, CacheHitsWriteOneFull
  <1> QED
    BY <1>1, ReferencesHold, PTL

-----------------------------------------------------------------------------
\* The masters of the log's saves.

\* What a step of c can do to the masters.
Files(c) ==
    \/ UNCHANGED <<masters, swept>>
    \/ /\ pc[c] = "saveMaster" /\ UNCHANGED <<log, swept>>
       /\ masters' = [masters EXCEPT ![sid[c]] = run[c]]
    \/ /\ UNCHANGED log
       /\ \E i \in Id : masters' = [masters EXCEPT ![i] = None] /\ swept' = swept \cup {i}
    \/ /\ UNCHANGED masters
       /\ swept' = IF all[c] THEN {} ELSE swept
       /\ pc[c] = "rewrite" /\ log' = Kept(c)

\* Every step of a command writes the log and the masters in one of these ways.
LEMMA EveryStepFiles ==
  ASSUME Sane, Next
  PROVE  \E c \in Process : Writes(c) /\ Files(c)
  <1>1. PICK c \in Process :
       \/ StartRun(c) \/ StartNote(c) \/ StartClear(c)
       \/ TakeLock(c) \/ LockTimeout(c) \/ SaveLockTimeout(c)
       \/ SaveCheck(c) \/ SaveMaster(c) \/ SaveRead(c) \/ SaveLog(c) \/ SaveFails(c)
       \/ MintJournalId(c) \/ JournalRead(c) \/ JournalWrite(c)
       \/ JournalGivesUp(c) \/ JournalFails(c)
       \/ ClearRead(c) \/ StartSweep(c) \/ Unlink(c) \/ UnlinkFails(c) \/ SweepEnds(c)
       \/ Rewrite(c) \/ RewriteFails(c) \/ Crash(c)
    BY DEF Next
  <1>2. CASE \/ StartRun(c) \/ StartNote(c) \/ StartClear(c)
             \/ TakeLock(c) \/ LockTimeout(c) \/ SaveLockTimeout(c) \/ MintJournalId(c)
    BY <1>2 DEF StartRun, StartNote, StartClear, Begin, TakeLock, LockTimeout, SaveLockTimeout,
       MintJournalId, Writes, Files
  <1>3. CASE SaveCheck(c) \/ SaveLog(c)
    BY <1>3 DEF SaveCheck, SaveLog, Writes, Files
  <1>4. CASE SaveMaster(c)
    BY <1>4 DEF SaveMaster, Writes, Files
  <1>5. CASE SaveRead(c) \/ JournalRead(c) \/ ClearRead(c)
    BY <1>5 DEF SaveRead, JournalRead, ClearRead, Reads, Writes, Files
  <1>6. CASE SaveFails(c)
    BY <1>6 DEF SaveFails, Writes, Files
  <1>7. CASE JournalWrite(c) \/ JournalGivesUp(c) \/ JournalFails(c)
    BY <1>7 DEF JournalWrite, JournalGivesUp, JournalFails, Writes, Files
  <1>8. CASE StartSweep(c) \/ UnlinkFails(c) \/ SweepEnds(c)
    BY <1>8 DEF StartSweep, UnlinkFails, SweepEnds, Writes, Files
  <1>9. CASE Unlink(c)
    <2>1. left[c] \subseteq Id
      BY DEF Sane, TypeOK
    <2> QED
      BY <1>9, <2>1 DEF Unlink, Writes, Files
  <1>10. CASE Rewrite(c) \/ RewriteFails(c)
    BY <1>10 DEF Rewrite, RewriteFails, Writes, Files
  <1>11. CASE Crash(c)
    BY <1>11 DEF Crash, Writes, Files
  <1> QED
    BY <1>1, <1>2, <1>3, <1>4, <1>5, <1>6, <1>7, <1>8, <1>9, <1>10, <1>11

\* The members of a log are entries, whose saves carry a command's number.
LEMMA MemberFacts ==
  ASSUME NEW entries \in Seq(Entry), NEW e \in ToSet(entries)
  PROVE  e \in Entry /\ (e.kind = "save" => e.run \in Run /\ e.id \in Id)
  <1>1. e \in Entry
    BY DEF ToSet
  <1> QED
    BY <1>1 DEF Entry

\* A step of a command keeps the masters of the log's saves.
LEMMA FilesKeep ==
  ASSUME Sane, Locked, Mastered(log), NEW c \in Process, Writes(c), Files(c)
  PROVE  Mastered(log)'
  <1> SUFFICES ASSUME NEW e \in ToSet(log'), e.kind = "save"
               PROVE  masters'[e.id] = e.run \/ e.id \in swept'
    BY DEF Mastered
  <1>0. /\ masters \in [Id -> Run \cup {None}] /\ log \in Seq(Entry) /\ seen[c] \in Seq(Entry)
        /\ None \notin Run
    BY ConstantsAssumption DEF Sane, TypeOK, Run
  <1>1. ASSUME pc[c] \in Rewrites, NEW d \in ToSet(seen[c])
        PROVE  d \in ToSet(log)
    BY <1>1, EmptyLog DEF Locked, SeenIsTrue
  <1>2. CASE /\ pc[c] = "saveMaster" /\ UNCHANGED <<log, swept>>
             /\ masters' = [masters EXCEPT ![sid[c]] = run[c]]
    <2>1. masters[sid[c]] = None
      BY <1>2 DEF Locked, MasterOfSave
    <2>2. e.run \in Run /\ e.id \in Id /\ (masters[e.id] = e.run \/ e.id \in swept)
      BY <1>0, <1>2, MemberFacts DEF Mastered
    <2> QED
      BY <1>0, <1>2, <2>1, <2>2
  <1>3. CASE /\ UNCHANGED log
             /\ \E i \in Id : masters' = [masters EXCEPT ![i] = None] /\ swept' = swept \cup {i}
    <2>1. e.run \in Run /\ e.id \in Id /\ (masters[e.id] = e.run \/ e.id \in swept)
      BY <1>0, <1>3, MemberFacts DEF Mastered
    <2> QED
      BY <1>0, <1>3, <2>1
  <1>4. CASE pc[c] = "rewrite" /\ log' = Kept(c) /\ UNCHANGED masters
             /\ swept' = IF all[c] THEN {} ELSE swept
    <2>1. ~all[c]
      BY <1>4, EmptyLog DEF Kept
    <2>2. e \in ToSet(log)
      BY <1>1, <1>4, KeptFacts DEF Rewrites
    <2> QED
      BY <1>4, <2>1, <2>2 DEF Mastered
  <1>5. CASE UNCHANGED <<masters, swept>>
    <2>1. CASE log' = log
      BY <1>5, <2>1 DEF Mastered
    <2>2. CASE pc[c] = "saveLog" /\ log' = Append(seen[c], SaveEntry(c))
      <3>1. SaveEntry(c) \in Entry /\ SaveEntry(c).id = sid[c] /\ SaveEntry(c).run = run[c]
        BY <2>2, SaveEntryType DEF SaveHolds, SaveEntry
      <3>2. e \in ToSet(seen[c]) \/ e = SaveEntry(c)
        BY <1>0, <2>2, <3>1, AppendFacts
      <3>3. masters[sid[c]] = run[c]
        BY <2>2 DEF Locked, MasterOfSave
      <3> QED
        BY <1>1, <1>5, <2>2, <3>1, <3>2, <3>3 DEF Mastered, Rewrites
    <2>3. CASE pc[c] = "journalWrite" /\ \E a \in Appended(c) : log' = Append(seen[c], a)
      <3>1. PICK a \in Appended(c) : log' = Append(seen[c], a)
        BY <2>3
      <3>2. a \in Entry /\ a.kind # "save"
        BY <2>3, <3>1, AppendedType DEF Appended, Marker, FullEntry
      <3>3. e \in ToSet(seen[c])
        BY <1>0, <3>1, <3>2, AppendFacts
      <3> QED
        BY <1>1, <1>5, <2>3, <3>3 DEF Mastered, Rewrites
    <2>4. CASE pc[c] = "rewrite" /\ log' = Kept(c)
      <3>1. e \in ToSet(log)
        BY <1>1, <2>4, KeptFacts DEF Rewrites
      <3> QED
        BY <1>5, <3>1 DEF Mastered
    <2> QED
      BY <2>1, <2>2, <2>3, <2>4 DEF Writes
  <1> QED
    BY <1>2, <1>3, <1>4, <1>5 DEF Files

\* The report of every logged save is on disk and is that run's own, unless a
\* clear --all that did not get to its rewrite deleted it
\* (writeArtifactWithLogEntry, clearArtifactsLog).
THEOREM SavesHaveMastersHolds == Spec => []SavesHaveMasters
  <1> DEFINE Good == Mastered(log)
  <1>1. Init => Good
    BY EmptyLog DEF Init, Mastered
  <1>2. Sane /\ Locked /\ Good /\ [Next]_vars => Good'
    <2> SUFFICES ASSUME Sane, Locked, Mastered(log), [Next]_vars PROVE Mastered(log)'
      OBVIOUS
    <2>1. CASE UNCHANGED vars
      BY <2>1 DEF vars, Mastered
    <2>2. CASE Next
      BY <2>2, EveryStepFiles, FilesKeep
    <2> QED
      BY <2>1, <2>2
  <1>3. Good => SavesHaveMasters
    BY DEF Mastered, SavesHaveMasters, ToSet
  <1> HIDE DEF Good
  <1> QED
    BY <1>1, <1>2, <1>3, SaneHolds, LockedHolds, PTL DEF Spec

-----------------------------------------------------------------------------
\* What may leave the log.

\* A step by which entries leave the log.
LEMMA LosingStep ==
  ASSUME Sane, Locked, Next, Lost # {}
  PROVE  \E c \in Process :
           /\ pc'[c] # pc[c]
           /\ \/ blind[c]
              \/ pc[c] = "rewrite" /\ (all[c] \/ \A e \in Lost : e.kind # "save")
  <1>1. PICK c \in Process : Writes(c) /\ (log' = log \/ EndLocal(c) \/ Fails(c))
    BY EveryStepWrites
  <1>2. log' # log
    BY DEF Lost
  <1>3. pc[c] \in Rewrites
    BY <1>1, <1>2 DEF Writes, Rewrites
  <1>4. pc'[c] # pc[c]
    BY <1>1, <1>2, <1>3, GivesUpFacts, PlacesFacts
  <1>5. CASE blind[c]
    BY <1>4, <1>5
  <1>6. CASE ~blind[c]
    <2>1. seen[c] = log /\ log \in Seq(Entry)
      BY <1>3, <1>6 DEF Locked, SeenIsTrue, Sane, TypeOK
    <2>2. ASSUME NEW e \in Entry, log' = Append(seen[c], e) PROVE FALSE
      BY <2>1, <2>2, AppendFacts DEF Lost
    <2>3. pc[c] = "rewrite" /\ log' = Kept(c)
      <3>1. CASE pc[c] = "saveLog" /\ log' = Append(seen[c], SaveEntry(c))
        BY <2>2, <3>1, SaveEntryType DEF SaveHolds
      <3>2. CASE pc[c] = "journalWrite" /\ \E e \in Appended(c) : log' = Append(seen[c], e)
        BY <2>2, <3>2, AppendedType
      <3> QED
        BY <1>1, <1>2, <3>1, <3>2 DEF Writes
    <2>4. ~all[c] => \A e \in Lost : e.kind # "save"
      BY <2>1, <2>3, KeptFacts DEF Lost
    <2> QED
      BY <1>4, <2>3, <2>4
  <1> QED
    BY <1>5, <1>6

\* An entry leaves the log only by a clear of its kind, or behind a read of the
\* log that failed: no append drops what another process has appended.
THEOREM NothingLostHolds == Spec => NothingLost
  <1> DEFINE Fine == Lost # {} =>
                       \E c \in Process :
                          /\ pc'[c] # pc[c]
                          /\ \/ blind[c]
                             \/ pc[c] = "rewrite" /\ (all[c] \/ \A e \in Lost : e.kind # "save")
  <1>1. Sane /\ Locked /\ [Next]_vars => [Fine]_vars
    BY LosingStep
  <1> HIDE DEF Fine
  <1>2. Spec => [][Fine]_vars
    BY <1>1, SaneHolds, LockedHolds, PTL DEF Spec
  <1> QED
    BY <1>2 DEF Fine, NothingLost
==============================================================================
