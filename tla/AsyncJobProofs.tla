--------------------------- MODULE AsyncJobProofs ---------------------------
(***************************************************************************)
(* Proofs about AsyncJob, for every set of clients and tasks and every     *)
(* choice of adapters.  IInv strengthens the properties with who holds the *)
(* lock, what the state file can hold while a client is about to create,   *)
(* and what became of the tasks that clients are done with.                *)
(***************************************************************************)
EXTENDS AsyncJob, TLAPS

\* Tavily and firecrawl do all their creating under the lock.
Guarded == {"reread", "list", "create", "persist", "write", "readExist", "guard"}
Exclusive ==
    provider \in {"tavily", "firecrawl"} => \A c \in Client : pc[c] \in Guarded => lock = c

\* The places an adapter never comes to.
Paths ==
    \A c \in Client :
        /\ provider = "tavily" => pc[c] \notin {"remove", "removeGone", "list", "collect"}
        /\ provider = "firecrawl" => pc[c] # "reread"

\* Who works with a task, and who has none yet.
HasJob ==
    \A c \in Client :
        /\ pc[c] \in {"idle", "read"} => job[c] = None
        /\ pc[c] \in {"persist", "write", "readExist", "poll", "collect", "remove", "cleanup", "guard", "removeGone"}
             => job[c] \in Task

\* No job is active when one is about to be created.
NoneWhenCreating ==
    provider = "firecrawl" =>
        \A c \in Client : pc[c] = "create" => \A t \in Task : server[t] # "active"

\* A running task is on file, or about to be, or its id could not be kept.
Kept ==
    provider = "tavily" =>
        \A t \in Task : Running(t) /\ t \notin unrecorded =>
            \/ stateFile # None /\ stateFile.task = t
            \/ \E c \in Client : pc[c] = "persist" /\ job[c] = t

\* Whoever creates has found no record, or one that could not be kept.
ClearForCreate ==
    provider = "tavily" =>
        \A c \in Client : pc[c] \in {"create", "persist"} =>
            stateFile = None \/ stateFile.task \in unrecorded

\* The task a client cleans up after or replaces has ended.
Ended(t) == server[t] \in {"completed", "failed", "gone"}
DoneWithJob ==
    provider = "tavily" =>
        \A c \in Client :
            /\ pc[c] \in {"cleanup", "guard"} => Ended(job[c])
            /\ pc[c] \in {"lock", "reread"} /\ job[c] # None => Ended(job[c])

\* A file without content is still being written, or its writer failed.
TornHasCause ==
    provider = "tavily" /\ Torn =>
        \/ stateFile.task \in unrecorded
        \/ \E c \in Client : pc[c] = "write" /\ job[c] = stateFile.task

\* A recreation is paid for only once, and only one.
Paid ==
    provider # "exa" =>
        \A c \in Client :
            /\ pc[c] = "idle" => posts[c] = 0
            /\ pc[c] \in {"read", "lock", "reread", "list", "create", "removeGone"}
                 => posts[c] = 0 \/ (c \in recreated /\ posts[c] <= 1)
            /\ posts[c] <= 1 \/ (c \in recreated /\ posts[c] <= 2)

IInv ==
    /\ TypeOK /\ Exclusive /\ Paths /\ HasJob /\ NoneWhenCreating /\ OneActiveCrawl
    /\ Kept /\ ClearForCreate /\ DoneWithJob /\ TornHasCause /\ Paid

-----------------------------------------------------------------------------
\* Every step keeps the types.
LEMMA TypeNext ==
  ASSUME TypeOK, HasJob, [Next]_vars
  PROVE  TypeOK'
  <1> USE ConstantsAssumption DEF ConstantsAssumption, TypeOK, Location, HasJob, Orphan
  <1>1. CASE BreakStaleLock
    BY <1>1 DEF BreakStaleLock
  <1>2. ASSUME NEW t \in Task, Serve(t) PROVE TypeOK'
    BY <1>2 DEF Serve, Running
  <1>3. ASSUME NEW c \in Client, Invoke(c) PROVE TypeOK'
    BY <1>3 DEF Invoke, Goto
  <1>4. ASSUME NEW c \in Client, ReadState(c) PROVE TypeOK'
    BY <1>4 DEF ReadState, Adopt, OwnRecord, NoRecord, Unparsable, Whole, Torn, Goto, Unlock, AfterMiss
  <1>5. ASSUME NEW c \in Client, DropState(c) PROVE TypeOK'
    BY <1>5 DEF DropState, NoRecord, Goto, Unlock, AfterMiss
  <1>6. ASSUME NEW c \in Client, ReadFails(c) PROVE TypeOK'
    BY <1>6 DEF ReadFails, NoRecord, Goto, Unlock, AfterMiss
  <1>7. ASSUME NEW c \in Client, AcquireLock(c) PROVE TypeOK'
    BY <1>7 DEF AcquireLock, Goto, UnderLock
  <1>8. ASSUME NEW c \in Client, LockTimeout(c) PROVE TypeOK'
    BY <1>8 DEF LockTimeout, Done, Goto
  <1>9. ASSUME NEW c \in Client, ListActive(c) PROVE TypeOK'
    BY <1>9 DEF ListActive, Goto
  <1>10. ASSUME NEW c \in Client, Create(c) PROVE TypeOK'
    BY <1>10 DEF Create, Goto, Done, Unlock
  <1>11. ASSUME NEW c \in Client, CreateRejected(c) PROVE TypeOK'
    BY <1>11 DEF CreateRejected, Goto, Done, Unlock
  <1>12. ASSUME NEW c \in Client, PersistOpen(c) PROVE TypeOK'
    <2>1. job[c] \in Task /\ c \notin dropping
      BY <1>12 DEF PersistOpen
    <2>2. stateFile' \in [task : Task, whole : BOOLEAN] \cup {None}
      <3>1. [task |-> job[c], whole |-> FALSE] \in [task : Task, whole : BOOLEAN]
        BY <2>1
      <3> QED BY <1>12, <3>1 DEF PersistOpen
    <2>3. pc' \in [Client -> Location]
      BY <1>12 DEF PersistOpen, Goto
    <2>4. dropping' \subseteq {d \in Client : pc'[d] \in {"read", "reread", "readExist"}}
      BY <1>12, <2>1 DEF PersistOpen, Goto
    <2>5. unrecorded' \subseteq Task
      BY <1>12, <2>1 DEF PersistOpen
    <2> QED BY <1>12, <2>2, <2>3, <2>4, <2>5 DEF PersistOpen
  <1>13. ASSUME NEW c \in Client, PersistContent(c) PROVE TypeOK'
    <2>1. job[c] \in Task
      BY <1>13 DEF PersistContent
    <2>2. stateFile # None => [stateFile EXCEPT !.whole = TRUE] \in [task : Task, whole : BOOLEAN]
      OBVIOUS
    <2>3. stateFile' \in [task : Task, whole : BOOLEAN] \cup {None} /\ unrecorded' \subseteq Task
      <3>1. CASE stateFile # None /\ stateFile.task = job[c]
        BY <1>13, <2>2, <3>1 DEF PersistContent
      <3>2. CASE ~(stateFile # None /\ stateFile.task = job[c])
        BY <1>13, <2>1, <3>2 DEF PersistContent
      <3> QED BY <3>1, <3>2
    <2>4. pc' \in [Client -> Location] /\ lock' \in Client \cup {None, Orphan}
      BY <1>13 DEF PersistContent, Goto, Unlock
    <2>5. dropping' \subseteq {d \in Client : pc'[d] \in {"read", "reread", "readExist"}}
      BY <1>13 DEF PersistContent, Goto
    <2> QED BY <1>13, <2>3, <2>4, <2>5 DEF PersistContent
  <1>14. ASSUME NEW c \in Client, PersistFails(c) PROVE TypeOK'
    BY <1>14 DEF PersistFails, Goto, Unlock, Done, KeepsUnwrittenTask
  <1>15. ASSUME NEW c \in Client, Poll(c) PROVE TypeOK'
    BY <1>15 DEF Poll, Goto, AfterCompleted, AfterTerminal, AfterGone, AfterSecondGone, RecreatesAlways
  <1>16. ASSUME NEW c \in Client, Collect(c) PROVE TypeOK'
    BY <1>16 DEF Collect, Goto
  <1>17. ASSUME NEW c \in Client, RemoveState(c) PROVE TypeOK'
    BY <1>17 DEF RemoveState, Goto, Done
  <1>18. ASSUME NEW c \in Client, GuardedRemove(c) PROVE TypeOK'
    BY <1>18 DEF GuardedRemove, Goto, Done, Unlock, Torn, Whole
  <1>19. ASSUME NEW c \in Client, RemoveGone(c) PROVE TypeOK'
    BY <1>19 DEF RemoveGone, Goto, AfterRemoveGone
  <1>20. ASSUME NEW c \in Client, RemoveGoneFails(c) PROVE TypeOK'
    BY <1>20 DEF RemoveGoneFails, Goto, Done, Unlock, Whole
  <1>21. ASSUME NEW c \in Client, PollGivesUp(c) PROVE TypeOK'
    BY <1>21 DEF PollGivesUp, Goto, Done
  <1>22. ASSUME NEW c \in Client, Crash(c) PROVE TypeOK'
    BY <1>22 DEF Crash, Goto, Done
  <1>23. CASE UNCHANGED vars
    BY <1>23 DEF vars, Running, Whole, Torn, Ended
  <1> QED
    BY <1>1, <1>2, <1>3, <1>4, <1>5, <1>6, <1>7, <1>8, <1>9, <1>10, <1>11, <1>12, <1>13, <1>14, <1>15, <1>16, <1>17, <1>18, <1>19, <1>20, <1>21, <1>22, <1>23 DEF Next, Step

\* One client at a time is in the locked section.
LEMMA ExclusiveNext ==
  ASSUME TypeOK, Paths, Exclusive, [Next]_vars
  PROVE  Exclusive'
  <1> USE ConstantsAssumption DEF ConstantsAssumption, TypeOK, Location, Paths, Exclusive, Guarded, Orphan
  <1>1. CASE BreakStaleLock
    BY <1>1 DEF BreakStaleLock
  <1>2. ASSUME NEW t \in Task, Serve(t) PROVE Exclusive'
    BY <1>2 DEF Serve, Running
  <1>3. ASSUME NEW c \in Client, Invoke(c) PROVE Exclusive'
    BY <1>3 DEF Invoke, Goto
  <1>4. ASSUME NEW c \in Client, ReadState(c) PROVE Exclusive'
    BY <1>4 DEF ReadState, Adopt, OwnRecord, NoRecord, Unparsable, Whole, Torn, Goto, Unlock, AfterMiss
  <1>5. ASSUME NEW c \in Client, DropState(c) PROVE Exclusive'
    BY <1>5 DEF DropState, NoRecord, Goto, Unlock, AfterMiss
  <1>6. ASSUME NEW c \in Client, ReadFails(c) PROVE Exclusive'
    BY <1>6 DEF ReadFails, NoRecord, Goto, Unlock, AfterMiss
  <1>7. ASSUME NEW c \in Client, AcquireLock(c) PROVE Exclusive'
    BY <1>7 DEF AcquireLock, Goto, UnderLock
  <1>8. ASSUME NEW c \in Client, LockTimeout(c) PROVE Exclusive'
    BY <1>8 DEF LockTimeout, Done, Goto
  <1>9. ASSUME NEW c \in Client, ListActive(c) PROVE Exclusive'
    BY <1>9 DEF ListActive, Goto
  <1>10. ASSUME NEW c \in Client, Create(c) PROVE Exclusive'
    BY <1>10 DEF Create, Goto, Done, Unlock
  <1>11. ASSUME NEW c \in Client, CreateRejected(c) PROVE Exclusive'
    BY <1>11 DEF CreateRejected, Goto, Done, Unlock
  <1>12. ASSUME NEW c \in Client, PersistOpen(c) PROVE Exclusive'
    BY <1>12 DEF PersistOpen, Goto
  <1>13. ASSUME NEW c \in Client, PersistContent(c) PROVE Exclusive'
    BY <1>13 DEF PersistContent, Goto, Unlock
  <1>14. ASSUME NEW c \in Client, PersistFails(c) PROVE Exclusive'
    BY <1>14 DEF PersistFails, Goto, Unlock, Done, KeepsUnwrittenTask
  <1>15. ASSUME NEW c \in Client, Poll(c) PROVE Exclusive'
    BY <1>15 DEF Poll, Goto, AfterCompleted, AfterTerminal, AfterGone, AfterSecondGone, RecreatesAlways
  <1>16. ASSUME NEW c \in Client, Collect(c) PROVE Exclusive'
    BY <1>16 DEF Collect, Goto
  <1>17. ASSUME NEW c \in Client, RemoveState(c) PROVE Exclusive'
    BY <1>17 DEF RemoveState, Goto, Done
  <1>18. ASSUME NEW c \in Client, GuardedRemove(c) PROVE Exclusive'
    BY <1>18 DEF GuardedRemove, Goto, Done, Unlock, Torn, Whole
  <1>19. ASSUME NEW c \in Client, RemoveGone(c) PROVE Exclusive'
    BY <1>19 DEF RemoveGone, Goto, AfterRemoveGone
  <1>20. ASSUME NEW c \in Client, RemoveGoneFails(c) PROVE Exclusive'
    BY <1>20 DEF RemoveGoneFails, Goto, Done, Unlock, Whole
  <1>21. ASSUME NEW c \in Client, PollGivesUp(c) PROVE Exclusive'
    BY <1>21 DEF PollGivesUp, Goto, Done
  <1>22. ASSUME NEW c \in Client, Crash(c) PROVE Exclusive'
    BY <1>22 DEF Crash, Goto, Done
  <1>23. CASE UNCHANGED vars
    BY <1>23 DEF vars, Running, Whole, Torn, Ended
  <1> QED
    BY <1>1, <1>2, <1>3, <1>4, <1>5, <1>6, <1>7, <1>8, <1>9, <1>10, <1>11, <1>12, <1>13, <1>14, <1>15, <1>16, <1>17, <1>18, <1>19, <1>20, <1>21, <1>22, <1>23 DEF Next, Step

\* The adapters keep to their places.
LEMMA PathsNext ==
  ASSUME TypeOK, Paths, [Next]_vars
  PROVE  Paths'
  <1> USE ConstantsAssumption DEF ConstantsAssumption, TypeOK, Location, Paths
  <1>1. CASE BreakStaleLock
    BY <1>1 DEF BreakStaleLock
  <1>2. ASSUME NEW t \in Task, Serve(t) PROVE Paths'
    BY <1>2 DEF Serve, Running
  <1>3. ASSUME NEW c \in Client, Invoke(c) PROVE Paths'
    BY <1>3 DEF Invoke, Goto
  <1>4. ASSUME NEW c \in Client, ReadState(c) PROVE Paths'
    BY <1>4 DEF ReadState, Adopt, OwnRecord, NoRecord, Unparsable, Whole, Torn, Goto, Unlock, AfterMiss
  <1>5. ASSUME NEW c \in Client, DropState(c) PROVE Paths'
    BY <1>5 DEF DropState, NoRecord, Goto, Unlock, AfterMiss
  <1>6. ASSUME NEW c \in Client, ReadFails(c) PROVE Paths'
    BY <1>6 DEF ReadFails, NoRecord, Goto, Unlock, AfterMiss
  <1>7. ASSUME NEW c \in Client, AcquireLock(c) PROVE Paths'
    BY <1>7 DEF AcquireLock, Goto, UnderLock
  <1>8. ASSUME NEW c \in Client, LockTimeout(c) PROVE Paths'
    BY <1>8 DEF LockTimeout, Done, Goto
  <1>9. ASSUME NEW c \in Client, ListActive(c) PROVE Paths'
    BY <1>9 DEF ListActive, Goto
  <1>10. ASSUME NEW c \in Client, Create(c) PROVE Paths'
    BY <1>10 DEF Create, Goto, Done, Unlock
  <1>11. ASSUME NEW c \in Client, CreateRejected(c) PROVE Paths'
    BY <1>11 DEF CreateRejected, Goto, Done, Unlock
  <1>12. ASSUME NEW c \in Client, PersistOpen(c) PROVE Paths'
    BY <1>12 DEF PersistOpen, Goto
  <1>13. ASSUME NEW c \in Client, PersistContent(c) PROVE Paths'
    BY <1>13 DEF PersistContent, Goto, Unlock
  <1>14. ASSUME NEW c \in Client, PersistFails(c) PROVE Paths'
    BY <1>14 DEF PersistFails, Goto, Unlock, Done, KeepsUnwrittenTask
  <1>15. ASSUME NEW c \in Client, Poll(c) PROVE Paths'
    BY <1>15 DEF Poll, Goto, AfterCompleted, AfterTerminal, AfterGone, AfterSecondGone, RecreatesAlways
  <1>16. ASSUME NEW c \in Client, Collect(c) PROVE Paths'
    BY <1>16 DEF Collect, Goto
  <1>17. ASSUME NEW c \in Client, RemoveState(c) PROVE Paths'
    BY <1>17 DEF RemoveState, Goto, Done
  <1>18. ASSUME NEW c \in Client, GuardedRemove(c) PROVE Paths'
    BY <1>18 DEF GuardedRemove, Goto, Done, Unlock, Torn, Whole
  <1>19. ASSUME NEW c \in Client, RemoveGone(c) PROVE Paths'
    BY <1>19 DEF RemoveGone, Goto, AfterRemoveGone
  <1>20. ASSUME NEW c \in Client, RemoveGoneFails(c) PROVE Paths'
    BY <1>20 DEF RemoveGoneFails, Goto, Done, Unlock, Whole
  <1>21. ASSUME NEW c \in Client, PollGivesUp(c) PROVE Paths'
    BY <1>21 DEF PollGivesUp, Goto, Done
  <1>22. ASSUME NEW c \in Client, Crash(c) PROVE Paths'
    BY <1>22 DEF Crash, Goto, Done
  <1>23. CASE UNCHANGED vars
    BY <1>23 DEF vars, Running, Whole, Torn, Ended
  <1> QED
    BY <1>1, <1>2, <1>3, <1>4, <1>5, <1>6, <1>7, <1>8, <1>9, <1>10, <1>11, <1>12, <1>13, <1>14, <1>15, <1>16, <1>17, <1>18, <1>19, <1>20, <1>21, <1>22, <1>23 DEF Next, Step

\* Clients have a task where they need one.
LEMMA HasJobNext ==
  ASSUME TypeOK, HasJob, [Next]_vars
  PROVE  HasJob'
  <1> USE ConstantsAssumption DEF ConstantsAssumption, TypeOK, Location, HasJob
  <1>1. CASE BreakStaleLock
    BY <1>1 DEF BreakStaleLock
  <1>2. ASSUME NEW t \in Task, Serve(t) PROVE HasJob'
    BY <1>2 DEF Serve, Running
  <1>3. ASSUME NEW c \in Client, Invoke(c) PROVE HasJob'
    BY <1>3 DEF Invoke, Goto
  <1>4. ASSUME NEW c \in Client, ReadState(c) PROVE HasJob'
    BY <1>4 DEF ReadState, Adopt, OwnRecord, NoRecord, Unparsable, Whole, Torn, Goto, Unlock, AfterMiss
  <1>5. ASSUME NEW c \in Client, DropState(c) PROVE HasJob'
    BY <1>5 DEF DropState, NoRecord, Goto, Unlock, AfterMiss
  <1>6. ASSUME NEW c \in Client, ReadFails(c) PROVE HasJob'
    BY <1>6 DEF ReadFails, NoRecord, Goto, Unlock, AfterMiss
  <1>7. ASSUME NEW c \in Client, AcquireLock(c) PROVE HasJob'
    BY <1>7 DEF AcquireLock, Goto, UnderLock
  <1>8. ASSUME NEW c \in Client, LockTimeout(c) PROVE HasJob'
    BY <1>8 DEF LockTimeout, Done, Goto
  <1>9. ASSUME NEW c \in Client, ListActive(c) PROVE HasJob'
    BY <1>9 DEF ListActive, Goto
  <1>10. ASSUME NEW c \in Client, Create(c) PROVE HasJob'
    BY <1>10 DEF Create, Goto, Done, Unlock
  <1>11. ASSUME NEW c \in Client, CreateRejected(c) PROVE HasJob'
    BY <1>11 DEF CreateRejected, Goto, Done, Unlock
  <1>12. ASSUME NEW c \in Client, PersistOpen(c) PROVE HasJob'
    BY <1>12 DEF PersistOpen, Goto
  <1>13. ASSUME NEW c \in Client, PersistContent(c) PROVE HasJob'
    BY <1>13 DEF PersistContent, Goto, Unlock
  <1>14. ASSUME NEW c \in Client, PersistFails(c) PROVE HasJob'
    BY <1>14 DEF PersistFails, Goto, Unlock, Done, KeepsUnwrittenTask
  <1>15. ASSUME NEW c \in Client, Poll(c) PROVE HasJob'
    BY <1>15 DEF Poll, Goto, AfterCompleted, AfterTerminal, AfterGone, AfterSecondGone, RecreatesAlways
  <1>16. ASSUME NEW c \in Client, Collect(c) PROVE HasJob'
    BY <1>16 DEF Collect, Goto
  <1>17. ASSUME NEW c \in Client, RemoveState(c) PROVE HasJob'
    BY <1>17 DEF RemoveState, Goto, Done
  <1>18. ASSUME NEW c \in Client, GuardedRemove(c) PROVE HasJob'
    BY <1>18 DEF GuardedRemove, Goto, Done, Unlock, Torn, Whole
  <1>19. ASSUME NEW c \in Client, RemoveGone(c) PROVE HasJob'
    BY <1>19 DEF RemoveGone, Goto, AfterRemoveGone
  <1>20. ASSUME NEW c \in Client, RemoveGoneFails(c) PROVE HasJob'
    BY <1>20 DEF RemoveGoneFails, Goto, Done, Unlock, Whole
  <1>21. ASSUME NEW c \in Client, PollGivesUp(c) PROVE HasJob'
    BY <1>21 DEF PollGivesUp, Goto, Done
  <1>22. ASSUME NEW c \in Client, Crash(c) PROVE HasJob'
    BY <1>22 DEF Crash, Goto, Done
  <1>23. CASE UNCHANGED vars
    BY <1>23 DEF vars, Running, Whole, Torn, Ended
  <1> QED
    BY <1>1, <1>2, <1>3, <1>4, <1>5, <1>6, <1>7, <1>8, <1>9, <1>10, <1>11, <1>12, <1>13, <1>14, <1>15, <1>16, <1>17, <1>18, <1>19, <1>20, <1>21, <1>22, <1>23 DEF Next, Step

\* A crawl is created only when none is active.
LEMMA CrawlNext ==
  ASSUME TypeOK, Exclusive, Paths, NoneWhenCreating, OneActiveCrawl, [Next]_vars
  PROVE  NoneWhenCreating' /\ OneActiveCrawl'
  <1> USE ConstantsAssumption DEF ConstantsAssumption, TypeOK, Exclusive, Guarded, Paths, NoneWhenCreating, OneActiveCrawl
  <1>1. CASE BreakStaleLock
    BY <1>1 DEF BreakStaleLock
  <1>2. ASSUME NEW t \in Task, Serve(t) PROVE NoneWhenCreating' /\ OneActiveCrawl'
    BY <1>2 DEF Serve, Running
  <1>3. ASSUME NEW c \in Client, Invoke(c) PROVE NoneWhenCreating' /\ OneActiveCrawl'
    BY <1>3 DEF Invoke, Goto
  <1>4. ASSUME NEW c \in Client, ReadState(c) PROVE NoneWhenCreating' /\ OneActiveCrawl'
    BY <1>4 DEF ReadState, Adopt, OwnRecord, NoRecord, Unparsable, Whole, Torn, Goto, Unlock, AfterMiss
  <1>5. ASSUME NEW c \in Client, DropState(c) PROVE NoneWhenCreating' /\ OneActiveCrawl'
    BY <1>5 DEF DropState, NoRecord, Goto, Unlock, AfterMiss
  <1>6. ASSUME NEW c \in Client, ReadFails(c) PROVE NoneWhenCreating' /\ OneActiveCrawl'
    BY <1>6 DEF ReadFails, NoRecord, Goto, Unlock, AfterMiss
  <1>7. ASSUME NEW c \in Client, AcquireLock(c) PROVE NoneWhenCreating' /\ OneActiveCrawl'
    BY <1>7 DEF AcquireLock, Goto, UnderLock
  <1>8. ASSUME NEW c \in Client, LockTimeout(c) PROVE NoneWhenCreating' /\ OneActiveCrawl'
    BY <1>8 DEF LockTimeout, Done, Goto
  <1>9. ASSUME NEW c \in Client, ListActive(c) PROVE NoneWhenCreating' /\ OneActiveCrawl'
    BY <1>9 DEF ListActive, Goto
  <1>10. ASSUME NEW c \in Client, Create(c) PROVE NoneWhenCreating' /\ OneActiveCrawl'
    BY <1>10 DEF Create, Goto, Done, Unlock
  <1>11. ASSUME NEW c \in Client, CreateRejected(c) PROVE NoneWhenCreating' /\ OneActiveCrawl'
    BY <1>11 DEF CreateRejected, Goto, Done, Unlock
  <1>12. ASSUME NEW c \in Client, PersistOpen(c) PROVE NoneWhenCreating' /\ OneActiveCrawl'
    BY <1>12 DEF PersistOpen, Goto
  <1>13. ASSUME NEW c \in Client, PersistContent(c) PROVE NoneWhenCreating' /\ OneActiveCrawl'
    BY <1>13 DEF PersistContent, Goto, Unlock
  <1>14. ASSUME NEW c \in Client, PersistFails(c) PROVE NoneWhenCreating' /\ OneActiveCrawl'
    BY <1>14 DEF PersistFails, Goto, Unlock, Done, KeepsUnwrittenTask
  <1>15. ASSUME NEW c \in Client, Poll(c) PROVE NoneWhenCreating' /\ OneActiveCrawl'
    BY <1>15 DEF Poll, Goto, AfterCompleted, AfterTerminal, AfterGone, AfterSecondGone, RecreatesAlways
  <1>16. ASSUME NEW c \in Client, Collect(c) PROVE NoneWhenCreating' /\ OneActiveCrawl'
    BY <1>16 DEF Collect, Goto
  <1>17. ASSUME NEW c \in Client, RemoveState(c) PROVE NoneWhenCreating' /\ OneActiveCrawl'
    BY <1>17 DEF RemoveState, Goto, Done
  <1>18. ASSUME NEW c \in Client, GuardedRemove(c) PROVE NoneWhenCreating' /\ OneActiveCrawl'
    BY <1>18 DEF GuardedRemove, Goto, Done, Unlock, Torn, Whole
  <1>19. ASSUME NEW c \in Client, RemoveGone(c) PROVE NoneWhenCreating' /\ OneActiveCrawl'
    BY <1>19 DEF RemoveGone, Goto, AfterRemoveGone
  <1>20. ASSUME NEW c \in Client, RemoveGoneFails(c) PROVE NoneWhenCreating' /\ OneActiveCrawl'
    BY <1>20 DEF RemoveGoneFails, Goto, Done, Unlock, Whole
  <1>21. ASSUME NEW c \in Client, PollGivesUp(c) PROVE NoneWhenCreating' /\ OneActiveCrawl'
    BY <1>21 DEF PollGivesUp, Goto, Done
  <1>22. ASSUME NEW c \in Client, Crash(c) PROVE NoneWhenCreating' /\ OneActiveCrawl'
    BY <1>22 DEF Crash, Goto, Done
  <1>23. CASE UNCHANGED vars
    BY <1>23 DEF vars, Running, Whole, Torn, Ended
  <1> QED
    BY <1>1, <1>2, <1>3, <1>4, <1>5, <1>6, <1>7, <1>8, <1>9, <1>10, <1>11, <1>12, <1>13, <1>14, <1>15, <1>16, <1>17, <1>18, <1>19, <1>20, <1>21, <1>22, <1>23 DEF Next, Step

\* The ids of running tasks are kept.
LEMMA KeptNext ==
  ASSUME TypeOK, Exclusive, Paths, HasJob, Kept, ClearForCreate, DoneWithJob, TornHasCause, [Next]_vars
  PROVE  Kept'
  <1> USE ConstantsAssumption DEF ConstantsAssumption, TypeOK, Exclusive, Guarded, Paths, HasJob, Kept, ClearForCreate, DoneWithJob, TornHasCause, Ended, Running
  <1>1. CASE BreakStaleLock
    BY <1>1 DEF BreakStaleLock
  <1>2. ASSUME NEW t \in Task, Serve(t) PROVE Kept'
    BY <1>2 DEF Serve, Running
  <1>3. ASSUME NEW c \in Client, Invoke(c) PROVE Kept'
    BY <1>3 DEF Invoke, Goto
  <1>4. ASSUME NEW c \in Client, ReadState(c) PROVE Kept'
    BY <1>4 DEF ReadState, Adopt, OwnRecord, NoRecord, Unparsable, Whole, Torn, Goto, Unlock, AfterMiss
  <1>5. ASSUME NEW c \in Client, DropState(c) PROVE Kept'
    BY <1>5 DEF DropState, NoRecord, Goto, Unlock, AfterMiss
  <1>6. ASSUME NEW c \in Client, ReadFails(c) PROVE Kept'
    BY <1>6 DEF ReadFails, NoRecord, Goto, Unlock, AfterMiss
  <1>7. ASSUME NEW c \in Client, AcquireLock(c) PROVE Kept'
    BY <1>7 DEF AcquireLock, Goto, UnderLock
  <1>8. ASSUME NEW c \in Client, LockTimeout(c) PROVE Kept'
    BY <1>8 DEF LockTimeout, Done, Goto
  <1>9. ASSUME NEW c \in Client, ListActive(c) PROVE Kept'
    BY <1>9 DEF ListActive, Goto
  <1>10. ASSUME NEW c \in Client, Create(c) PROVE Kept'
    BY <1>10 DEF Create, Goto, Done, Unlock
  <1>11. ASSUME NEW c \in Client, CreateRejected(c) PROVE Kept'
    BY <1>11 DEF CreateRejected, Goto, Done, Unlock
  <1>12. ASSUME NEW c \in Client, PersistOpen(c) PROVE Kept'
    <2> SUFFICES ASSUME provider = "tavily", NEW t \in Task, Running(t), t \notin unrecorded'
                 PROVE  \/ stateFile' # None /\ stateFile'.task = t
                        \/ \E d \in Client : pc'[d] = "persist" /\ job'[d] = t
      BY <1>12 DEF PersistOpen
    <2>1. job[c] \in Task /\ t \notin unrecorded
      BY <1>12 DEF PersistOpen
    <2>2. CASE stateFile = None
      <3>1. PICK d \in Client : pc[d] = "persist" /\ job[d] = t
        BY <2>1, <2>2
      <3>2. d = c
        BY <1>12, <3>1 DEF PersistOpen
      <3>3. stateFile' = [task |-> job[c], whole |-> FALSE]
        BY <1>12, <2>2 DEF PersistOpen
      <3>4. stateFile' # None
        <4>1. [task |-> job[c], whole |-> FALSE] \in [task : Task, whole : BOOLEAN]
          BY <2>1
        <4> QED BY <3>3, <4>1
      <3> QED BY <3>1, <3>2, <3>3, <3>4
    <2>3. CASE stateFile # None
      <3>1. stateFile' = stateFile /\ unrecorded' = unrecorded \cup ({job[c]} \ {stateFile.task})
        BY <1>12, <2>3 DEF PersistOpen
      <3>2. CASE stateFile.task = t
        BY <2>3, <3>1, <3>2
      <3>3. CASE stateFile.task # t
        <4>1. PICK d \in Client : pc[d] = "persist" /\ job[d] = t
          BY <2>1, <3>3
        <4>2. d # c
          BY <3>1, <3>3, <4>1
        <4> QED BY <1>12, <4>1, <4>2 DEF PersistOpen
      <3> QED BY <3>2, <3>3
    <2> QED BY <2>2, <2>3
  <1>13. ASSUME NEW c \in Client, PersistContent(c) PROVE Kept'
    <2>1. \A d \in Client : pc'[d] = "persist" <=> pc[d] = "persist"
      BY <1>13 DEF PersistContent, Goto
    <2>2. stateFile # None =>
             [stateFile EXCEPT !.whole = TRUE] # None /\ [stateFile EXCEPT !.whole = TRUE].task = stateFile.task
      <3>1. stateFile # None => [stateFile EXCEPT !.whole = TRUE] \in [task : Task, whole : BOOLEAN]
        OBVIOUS
      <3> QED BY <3>1
    <2>3. stateFile' # stateFile => stateFile # None /\ stateFile' = [stateFile EXCEPT !.whole = TRUE]
      BY <1>13 DEF PersistContent
    <2> QED BY <1>13, <2>1, <2>2, <2>3 DEF PersistContent
  <1>14. ASSUME NEW c \in Client, PersistFails(c) PROVE Kept'
    BY <1>14 DEF PersistFails, Goto, Unlock, Done, KeepsUnwrittenTask
  <1>15. ASSUME NEW c \in Client, Poll(c) PROVE Kept'
    BY <1>15 DEF Poll, Goto, AfterCompleted, AfterTerminal, AfterGone, AfterSecondGone, RecreatesAlways
  <1>16. ASSUME NEW c \in Client, Collect(c) PROVE Kept'
    BY <1>16 DEF Collect, Goto
  <1>17. ASSUME NEW c \in Client, RemoveState(c) PROVE Kept'
    BY <1>17 DEF RemoveState, Goto, Done
  <1>18. ASSUME NEW c \in Client, GuardedRemove(c) PROVE Kept'
    BY <1>18 DEF GuardedRemove, Goto, Done, Unlock, Torn, Whole
  <1>19. ASSUME NEW c \in Client, RemoveGone(c) PROVE Kept'
    BY <1>19 DEF RemoveGone, Goto, AfterRemoveGone
  <1>20. ASSUME NEW c \in Client, RemoveGoneFails(c) PROVE Kept'
    BY <1>20 DEF RemoveGoneFails, Goto, Done, Unlock, Whole
  <1>21. ASSUME NEW c \in Client, PollGivesUp(c) PROVE Kept'
    BY <1>21 DEF PollGivesUp, Goto, Done
  <1>22. ASSUME NEW c \in Client, Crash(c) PROVE Kept'
    BY <1>22 DEF Crash, Goto, Done
  <1>23. CASE UNCHANGED vars
    BY <1>23 DEF vars, Running, Whole, Torn, Ended
  <1> QED
    BY <1>1, <1>2, <1>3, <1>4, <1>5, <1>6, <1>7, <1>8, <1>9, <1>10, <1>11, <1>12, <1>13, <1>14, <1>15, <1>16, <1>17, <1>18, <1>19, <1>20, <1>21, <1>22, <1>23 DEF Next, Step

\* Nothing comes between the second read and the record of the new task.
LEMMA ClearForCreateNext ==
  ASSUME TypeOK, Exclusive, Paths, ClearForCreate, [Next]_vars
  PROVE  ClearForCreate'
  <1> USE ConstantsAssumption DEF ConstantsAssumption, TypeOK, Exclusive, Guarded, Paths, ClearForCreate
  <1>1. CASE BreakStaleLock
    BY <1>1 DEF BreakStaleLock
  <1>2. ASSUME NEW t \in Task, Serve(t) PROVE ClearForCreate'
    BY <1>2 DEF Serve, Running
  <1>3. ASSUME NEW c \in Client, Invoke(c) PROVE ClearForCreate'
    BY <1>3 DEF Invoke, Goto
  <1>4. ASSUME NEW c \in Client, ReadState(c) PROVE ClearForCreate'
    BY <1>4 DEF ReadState, Adopt, OwnRecord, NoRecord, Unparsable, Whole, Torn, Goto, Unlock, AfterMiss
  <1>5. ASSUME NEW c \in Client, DropState(c) PROVE ClearForCreate'
    BY <1>5 DEF DropState, NoRecord, Goto, Unlock, AfterMiss
  <1>6. ASSUME NEW c \in Client, ReadFails(c) PROVE ClearForCreate'
    BY <1>6 DEF ReadFails, NoRecord, Goto, Unlock, AfterMiss
  <1>7. ASSUME NEW c \in Client, AcquireLock(c) PROVE ClearForCreate'
    BY <1>7 DEF AcquireLock, Goto, UnderLock
  <1>8. ASSUME NEW c \in Client, LockTimeout(c) PROVE ClearForCreate'
    BY <1>8 DEF LockTimeout, Done, Goto
  <1>9. ASSUME NEW c \in Client, ListActive(c) PROVE ClearForCreate'
    BY <1>9 DEF ListActive, Goto
  <1>10. ASSUME NEW c \in Client, Create(c) PROVE ClearForCreate'
    BY <1>10 DEF Create, Goto, Done, Unlock
  <1>11. ASSUME NEW c \in Client, CreateRejected(c) PROVE ClearForCreate'
    BY <1>11 DEF CreateRejected, Goto, Done, Unlock
  <1>12. ASSUME NEW c \in Client, PersistOpen(c) PROVE ClearForCreate'
    BY <1>12 DEF PersistOpen, Goto
  <1>13. ASSUME NEW c \in Client, PersistContent(c) PROVE ClearForCreate'
    BY <1>13 DEF PersistContent, Goto, Unlock
  <1>14. ASSUME NEW c \in Client, PersistFails(c) PROVE ClearForCreate'
    BY <1>14 DEF PersistFails, Goto, Unlock, Done, KeepsUnwrittenTask
  <1>15. ASSUME NEW c \in Client, Poll(c) PROVE ClearForCreate'
    BY <1>15 DEF Poll, Goto, AfterCompleted, AfterTerminal, AfterGone, AfterSecondGone, RecreatesAlways
  <1>16. ASSUME NEW c \in Client, Collect(c) PROVE ClearForCreate'
    BY <1>16 DEF Collect, Goto
  <1>17. ASSUME NEW c \in Client, RemoveState(c) PROVE ClearForCreate'
    BY <1>17 DEF RemoveState, Goto, Done
  <1>18. ASSUME NEW c \in Client, GuardedRemove(c) PROVE ClearForCreate'
    BY <1>18 DEF GuardedRemove, Goto, Done, Unlock, Torn, Whole
  <1>19. ASSUME NEW c \in Client, RemoveGone(c) PROVE ClearForCreate'
    BY <1>19 DEF RemoveGone, Goto, AfterRemoveGone
  <1>20. ASSUME NEW c \in Client, RemoveGoneFails(c) PROVE ClearForCreate'
    BY <1>20 DEF RemoveGoneFails, Goto, Done, Unlock, Whole
  <1>21. ASSUME NEW c \in Client, PollGivesUp(c) PROVE ClearForCreate'
    BY <1>21 DEF PollGivesUp, Goto, Done
  <1>22. ASSUME NEW c \in Client, Crash(c) PROVE ClearForCreate'
    BY <1>22 DEF Crash, Goto, Done
  <1>23. CASE UNCHANGED vars
    BY <1>23 DEF vars, Running, Whole, Torn, Ended
  <1> QED
    BY <1>1, <1>2, <1>3, <1>4, <1>5, <1>6, <1>7, <1>8, <1>9, <1>10, <1>11, <1>12, <1>13, <1>14, <1>15, <1>16, <1>17, <1>18, <1>19, <1>20, <1>21, <1>22, <1>23 DEF Next, Step

\* A task that has ended stays so.
LEMMA DoneWithJobNext ==
  ASSUME TypeOK, HasJob, DoneWithJob, [Next]_vars
  PROVE  DoneWithJob'
  <1> USE ConstantsAssumption DEF ConstantsAssumption, TypeOK, HasJob, DoneWithJob, Ended
  <1>1. CASE BreakStaleLock
    BY <1>1 DEF BreakStaleLock
  <1>2. ASSUME NEW t \in Task, Serve(t) PROVE DoneWithJob'
    BY <1>2 DEF Serve, Running
  <1>3. ASSUME NEW c \in Client, Invoke(c) PROVE DoneWithJob'
    BY <1>3 DEF Invoke, Goto
  <1>4. ASSUME NEW c \in Client, ReadState(c) PROVE DoneWithJob'
    BY <1>4 DEF ReadState, Adopt, OwnRecord, NoRecord, Unparsable, Whole, Torn, Goto, Unlock, AfterMiss
  <1>5. ASSUME NEW c \in Client, DropState(c) PROVE DoneWithJob'
    BY <1>5 DEF DropState, NoRecord, Goto, Unlock, AfterMiss
  <1>6. ASSUME NEW c \in Client, ReadFails(c) PROVE DoneWithJob'
    BY <1>6 DEF ReadFails, NoRecord, Goto, Unlock, AfterMiss
  <1>7. ASSUME NEW c \in Client, AcquireLock(c) PROVE DoneWithJob'
    BY <1>7 DEF AcquireLock, Goto, UnderLock
  <1>8. ASSUME NEW c \in Client, LockTimeout(c) PROVE DoneWithJob'
    BY <1>8 DEF LockTimeout, Done, Goto
  <1>9. ASSUME NEW c \in Client, ListActive(c) PROVE DoneWithJob'
    BY <1>9 DEF ListActive, Goto
  <1>10. ASSUME NEW c \in Client, Create(c) PROVE DoneWithJob'
    BY <1>10 DEF Create, Goto, Done, Unlock
  <1>11. ASSUME NEW c \in Client, CreateRejected(c) PROVE DoneWithJob'
    BY <1>11 DEF CreateRejected, Goto, Done, Unlock
  <1>12. ASSUME NEW c \in Client, PersistOpen(c) PROVE DoneWithJob'
    BY <1>12 DEF PersistOpen, Goto
  <1>13. ASSUME NEW c \in Client, PersistContent(c) PROVE DoneWithJob'
    BY <1>13 DEF PersistContent, Goto, Unlock
  <1>14. ASSUME NEW c \in Client, PersistFails(c) PROVE DoneWithJob'
    BY <1>14 DEF PersistFails, Goto, Unlock, Done, KeepsUnwrittenTask
  <1>15. ASSUME NEW c \in Client, Poll(c) PROVE DoneWithJob'
    BY <1>15 DEF Poll, Goto, AfterCompleted, AfterTerminal, AfterGone, AfterSecondGone, RecreatesAlways
  <1>16. ASSUME NEW c \in Client, Collect(c) PROVE DoneWithJob'
    BY <1>16 DEF Collect, Goto
  <1>17. ASSUME NEW c \in Client, RemoveState(c) PROVE DoneWithJob'
    BY <1>17 DEF RemoveState, Goto, Done
  <1>18. ASSUME NEW c \in Client, GuardedRemove(c) PROVE DoneWithJob'
    BY <1>18 DEF GuardedRemove, Goto, Done, Unlock, Torn, Whole
  <1>19. ASSUME NEW c \in Client, RemoveGone(c) PROVE DoneWithJob'
    BY <1>19 DEF RemoveGone, Goto, AfterRemoveGone
  <1>20. ASSUME NEW c \in Client, RemoveGoneFails(c) PROVE DoneWithJob'
    BY <1>20 DEF RemoveGoneFails, Goto, Done, Unlock, Whole
  <1>21. ASSUME NEW c \in Client, PollGivesUp(c) PROVE DoneWithJob'
    BY <1>21 DEF PollGivesUp, Goto, Done
  <1>22. ASSUME NEW c \in Client, Crash(c) PROVE DoneWithJob'
    BY <1>22 DEF Crash, Goto, Done
  <1>23. CASE UNCHANGED vars
    BY <1>23 DEF vars, Running, Whole, Torn, Ended
  <1> QED
    BY <1>1, <1>2, <1>3, <1>4, <1>5, <1>6, <1>7, <1>8, <1>9, <1>10, <1>11, <1>12, <1>13, <1>14, <1>15, <1>16, <1>17, <1>18, <1>19, <1>20, <1>21, <1>22, <1>23 DEF Next, Step

\* A file without content has a writer or a cause.
LEMMA TornHasCauseNext ==
  ASSUME TypeOK, Exclusive, Paths, HasJob, TornHasCause, [Next]_vars
  PROVE  TornHasCause'
  <1> USE ConstantsAssumption DEF ConstantsAssumption, TypeOK, Exclusive, Guarded, Paths, HasJob, TornHasCause, Torn
  <1>1. CASE BreakStaleLock
    BY <1>1 DEF BreakStaleLock
  <1>2. ASSUME NEW t \in Task, Serve(t) PROVE TornHasCause'
    BY <1>2 DEF Serve, Running
  <1>3. ASSUME NEW c \in Client, Invoke(c) PROVE TornHasCause'
    BY <1>3 DEF Invoke, Goto
  <1>4. ASSUME NEW c \in Client, ReadState(c) PROVE TornHasCause'
    BY <1>4 DEF ReadState, Adopt, OwnRecord, NoRecord, Unparsable, Whole, Torn, Goto, Unlock, AfterMiss
  <1>5. ASSUME NEW c \in Client, DropState(c) PROVE TornHasCause'
    BY <1>5 DEF DropState, NoRecord, Goto, Unlock, AfterMiss
  <1>6. ASSUME NEW c \in Client, ReadFails(c) PROVE TornHasCause'
    BY <1>6 DEF ReadFails, NoRecord, Goto, Unlock, AfterMiss
  <1>7. ASSUME NEW c \in Client, AcquireLock(c) PROVE TornHasCause'
    BY <1>7 DEF AcquireLock, Goto, UnderLock
  <1>8. ASSUME NEW c \in Client, LockTimeout(c) PROVE TornHasCause'
    BY <1>8 DEF LockTimeout, Done, Goto
  <1>9. ASSUME NEW c \in Client, ListActive(c) PROVE TornHasCause'
    BY <1>9 DEF ListActive, Goto
  <1>10. ASSUME NEW c \in Client, Create(c) PROVE TornHasCause'
    BY <1>10 DEF Create, Goto, Done, Unlock
  <1>11. ASSUME NEW c \in Client, CreateRejected(c) PROVE TornHasCause'
    BY <1>11 DEF CreateRejected, Goto, Done, Unlock
  <1>12. ASSUME NEW c \in Client, PersistOpen(c) PROVE TornHasCause'
    BY <1>12 DEF PersistOpen, Goto
  <1>13. ASSUME NEW c \in Client, PersistContent(c) PROVE TornHasCause'
    BY <1>13 DEF PersistContent, Goto, Unlock
  <1>14. ASSUME NEW c \in Client, PersistFails(c) PROVE TornHasCause'
    BY <1>14 DEF PersistFails, Goto, Unlock, Done, KeepsUnwrittenTask
  <1>15. ASSUME NEW c \in Client, Poll(c) PROVE TornHasCause'
    BY <1>15 DEF Poll, Goto, AfterCompleted, AfterTerminal, AfterGone, AfterSecondGone, RecreatesAlways
  <1>16. ASSUME NEW c \in Client, Collect(c) PROVE TornHasCause'
    BY <1>16 DEF Collect, Goto
  <1>17. ASSUME NEW c \in Client, RemoveState(c) PROVE TornHasCause'
    BY <1>17 DEF RemoveState, Goto, Done
  <1>18. ASSUME NEW c \in Client, GuardedRemove(c) PROVE TornHasCause'
    BY <1>18 DEF GuardedRemove, Goto, Done, Unlock, Torn, Whole
  <1>19. ASSUME NEW c \in Client, RemoveGone(c) PROVE TornHasCause'
    BY <1>19 DEF RemoveGone, Goto, AfterRemoveGone
  <1>20. ASSUME NEW c \in Client, RemoveGoneFails(c) PROVE TornHasCause'
    BY <1>20 DEF RemoveGoneFails, Goto, Done, Unlock, Whole
  <1>21. ASSUME NEW c \in Client, PollGivesUp(c) PROVE TornHasCause'
    BY <1>21 DEF PollGivesUp, Goto, Done
  <1>22. ASSUME NEW c \in Client, Crash(c) PROVE TornHasCause'
    BY <1>22 DEF Crash, Goto, Done
  <1>23. CASE UNCHANGED vars
    BY <1>23 DEF vars, Running, Whole, Torn, Ended
  <1> QED
    BY <1>1, <1>2, <1>3, <1>4, <1>5, <1>6, <1>7, <1>8, <1>9, <1>10, <1>11, <1>12, <1>13, <1>14, <1>15, <1>16, <1>17, <1>18, <1>19, <1>20, <1>21, <1>22, <1>23 DEF Next, Step

\* No invocation recreates twice.
LEMMA PaidNext ==
  ASSUME TypeOK, Paid, [Next]_vars
  PROVE  Paid'
  <1> USE ConstantsAssumption DEF ConstantsAssumption, TypeOK, Paid
  <1>1. CASE BreakStaleLock
    BY <1>1 DEF BreakStaleLock
  <1>2. ASSUME NEW t \in Task, Serve(t) PROVE Paid'
    BY <1>2 DEF Serve, Running
  <1>3. ASSUME NEW c \in Client, Invoke(c) PROVE Paid'
    BY <1>3 DEF Invoke, Goto
  <1>4. ASSUME NEW c \in Client, ReadState(c) PROVE Paid'
    BY <1>4 DEF ReadState, Adopt, OwnRecord, NoRecord, Unparsable, Whole, Torn, Goto, Unlock, AfterMiss
  <1>5. ASSUME NEW c \in Client, DropState(c) PROVE Paid'
    BY <1>5 DEF DropState, NoRecord, Goto, Unlock, AfterMiss
  <1>6. ASSUME NEW c \in Client, ReadFails(c) PROVE Paid'
    BY <1>6 DEF ReadFails, NoRecord, Goto, Unlock, AfterMiss
  <1>7. ASSUME NEW c \in Client, AcquireLock(c) PROVE Paid'
    BY <1>7 DEF AcquireLock, Goto, UnderLock
  <1>8. ASSUME NEW c \in Client, LockTimeout(c) PROVE Paid'
    BY <1>8 DEF LockTimeout, Done, Goto
  <1>9. ASSUME NEW c \in Client, ListActive(c) PROVE Paid'
    BY <1>9 DEF ListActive, Goto
  <1>10. ASSUME NEW c \in Client, Create(c) PROVE Paid'
    BY <1>10 DEF Create, Goto, Done, Unlock
  <1>11. ASSUME NEW c \in Client, CreateRejected(c) PROVE Paid'
    BY <1>11 DEF CreateRejected, Goto, Done, Unlock
  <1>12. ASSUME NEW c \in Client, PersistOpen(c) PROVE Paid'
    BY <1>12 DEF PersistOpen, Goto
  <1>13. ASSUME NEW c \in Client, PersistContent(c) PROVE Paid'
    BY <1>13 DEF PersistContent, Goto, Unlock
  <1>14. ASSUME NEW c \in Client, PersistFails(c) PROVE Paid'
    BY <1>14 DEF PersistFails, Goto, Unlock, Done, KeepsUnwrittenTask
  <1>15. ASSUME NEW c \in Client, Poll(c) PROVE Paid'
    BY <1>15 DEF Poll, Goto, AfterCompleted, AfterTerminal, AfterGone, AfterSecondGone, RecreatesAlways
  <1>16. ASSUME NEW c \in Client, Collect(c) PROVE Paid'
    BY <1>16 DEF Collect, Goto
  <1>17. ASSUME NEW c \in Client, RemoveState(c) PROVE Paid'
    BY <1>17 DEF RemoveState, Goto, Done
  <1>18. ASSUME NEW c \in Client, GuardedRemove(c) PROVE Paid'
    BY <1>18 DEF GuardedRemove, Goto, Done, Unlock, Torn, Whole
  <1>19. ASSUME NEW c \in Client, RemoveGone(c) PROVE Paid'
    BY <1>19 DEF RemoveGone, Goto, AfterRemoveGone
  <1>20. ASSUME NEW c \in Client, RemoveGoneFails(c) PROVE Paid'
    BY <1>20 DEF RemoveGoneFails, Goto, Done, Unlock, Whole
  <1>21. ASSUME NEW c \in Client, PollGivesUp(c) PROVE Paid'
    BY <1>21 DEF PollGivesUp, Goto, Done
  <1>22. ASSUME NEW c \in Client, Crash(c) PROVE Paid'
    BY <1>22 DEF Crash, Goto, Done
  <1>23. CASE UNCHANGED vars
    BY <1>23 DEF vars, Running, Whole, Torn, Ended
  <1> QED
    BY <1>1, <1>2, <1>3, <1>4, <1>5, <1>6, <1>7, <1>8, <1>9, <1>10, <1>11, <1>12, <1>13, <1>14, <1>15, <1>16, <1>17, <1>18, <1>19, <1>20, <1>21, <1>22, <1>23 DEF Next, Step
-----------------------------------------------------------------------------
\* The invariant holds when nobody has asked for anything.
LEMMA InitIInv == Init => IInv
  <1> SUFFICES ASSUME Init PROVE IInv
    OBVIOUS
  <1>1. TypeOK
    BY ConstantsAssumption DEF ConstantsAssumption, Init, TypeOK, Location
  <1>2. Exclusive /\ Paths /\ HasJob /\ NoneWhenCreating /\ OneActiveCrawl
    BY DEF Init, Exclusive, Guarded, Paths, HasJob, NoneWhenCreating, OneActiveCrawl
  <1>3. Kept /\ ClearForCreate /\ DoneWithJob /\ TornHasCause /\ Paid
    BY DEF Init, Kept, Running, ClearForCreate, DoneWithJob, TornHasCause, Torn, Paid
  <1> QED BY <1>1, <1>2, <1>3 DEF IInv

\* The invariant holds in every reachable state.
LEMMA Invariance == Spec => []IInv
  <1>1. IInv /\ [Next]_vars => IInv'
    BY TypeNext, ExclusiveNext, PathsNext, HasJobNext, CrawlNext, KeptNext, ClearForCreateNext,
       DoneWithJobNext, TornHasCauseNext, PaidNext DEF IInv
  <1> QED BY <1>1, InitIInv, PTL DEF Spec

\* Every reachable state of the paid-job protocol is well typed.
THEOREM TypeCorrect == Spec => []TypeOK
  <1>1. IInv => TypeOK
    BY DEF IInv
  <1> QED BY <1>1, Invariance, PTL

\* Tavily: no second task runs unless the id of one of the two could not be
\* kept, however many clients ask, resume, recreate, die and clean up.
THEOREM OnePaidTaskHolds == Spec => []OnePaidTask
  <1>1. IInv => OnePaidTask
    <2> SUFFICES ASSUME IInv, provider = "tavily", NEW s \in Task, NEW t \in Task,
                        Running(s), Running(t), s \notin unrecorded, t \notin unrecorded
                 PROVE  s = t
      BY DEF OnePaidTask, SecondTaskHasACause
    <2> DEFINE OnFile(u) == stateFile # None /\ stateFile.task = u
               InHand(u) == \E c \in Client : pc[c] = "persist" /\ job[c] = u
    <2>1. (OnFile(s) \/ InHand(s)) /\ (OnFile(t) \/ InHand(t))
      BY DEF IInv, Kept
    <2>2. InHand(s) /\ InHand(t) => s = t
      BY DEF IInv, Exclusive, Guarded
    <2>3. \A u \in Task : InHand(u) => ~OnFile(s) /\ ~OnFile(t)
      BY DEF IInv, ClearForCreate
    <2> QED BY <2>1, <2>2, <2>3
  <1> QED BY <1>1, Invariance, PTL

\* Firecrawl: at most one crawl is active, whatever fails.
THEOREM OneActiveCrawlHolds == Spec => []OneActiveCrawl
  <1>1. IInv => OneActiveCrawl
    BY DEF IInv
  <1> QED BY <1>1, Invariance, PTL

\* Everywhere but in exa, an invocation pays for at most two tasks.
THEOREM AtMostOneRecreationHolds == Spec => []AtMostOneRecreation
  <1>1. IInv => AtMostOneRecreation
    <2> SUFFICES ASSUME IInv, provider # "exa", NEW c \in Client PROVE posts[c] <= 2
      BY DEF AtMostOneRecreation
    <2>1. posts[c] \in Nat
      BY DEF IInv, TypeOK
    <2> QED BY <2>1 DEF IInv, Paid
  <1> QED BY <1>1, Invariance, PTL

\* Tavily: the record of a running task is taken away only when its id is lost
\* to a reader that could not read it; no client removes the record of another's.
THEOREM RunningTaskKeepsItsRecordHolds == Spec => RunningTaskKeepsItsRecord
  <1> DEFINE Keeps == provider = "tavily" /\ Whole /\ Running(stateFile.task) /\ stateFile' # stateFile
                        => stateFile.task \in unrecorded'
  <1>1. IInv /\ [Next]_vars => [Keeps]_vars
    <2> SUFFICES ASSUME IInv, Next, provider = "tavily", Whole, Running(stateFile.task), stateFile' # stateFile
                 PROVE  stateFile.task \in unrecorded'
      BY DEF vars
    <2>1. stateFile \in [task : Task, whole : BOOLEAN] /\ stateFile.whole
      BY DEF IInv, TypeOK, Whole
    <2>2. ASSUME NEW c \in Client, pc[c] \in {"lock", "reread", "cleanup", "guard"}, job[c] # None
          PROVE  stateFile.task # job[c]
      BY <2>2 DEF IInv, DoneWithJob, Ended, Running
    <2>3. ASSUME NEW c \in Client, ReadState(c) PROVE FALSE
      BY <2>2, <2>3, ConstantsAssumption
         DEF ConstantsAssumption, ReadState, Adopt, OwnRecord, Unparsable, Whole, Torn, IInv, TypeOK
    <2>4. ASSUME NEW c \in Client, DropState(c) PROVE stateFile.task \in unrecorded'
      BY <2>4 DEF DropState, Whole
    <2>5. ASSUME NEW c \in Client, ReadFails(c) PROVE stateFile.task \in unrecorded'
      BY <2>5 DEF ReadFails
    <2>6. ASSUME NEW c \in Client, PersistOpen(c) PROVE FALSE
      BY <2>6 DEF PersistOpen, Whole
    <2>7. ASSUME NEW c \in Client, PersistContent(c) PROVE FALSE
      <3>1. [stateFile EXCEPT !.whole = TRUE] = stateFile
        BY <2>1
      <3> QED BY <2>7, <3>1 DEF PersistContent
    <2>8. ASSUME NEW c \in Client, GuardedRemove(c) PROVE FALSE
      <3>1. job[c] # None
        BY <2>8, ConstantsAssumption DEF ConstantsAssumption, GuardedRemove, IInv, HasJob
      <3> QED BY <2>2, <2>8, <3>1 DEF GuardedRemove, Torn, Whole
    <2>9. ASSUME NEW c \in Client, RemoveState(c) \/ RemoveGone(c) PROVE FALSE
      BY <2>9 DEF RemoveState, RemoveGone, IInv, Paths
    <2> QED BY <2>3, <2>4, <2>5, <2>6, <2>7, <2>8, <2>9
            DEF Next, Step, BreakStaleLock, Serve, Invoke, AcquireLock, LockTimeout, ListActive, Create,
                CreateRejected, PersistFails, Poll, Collect, RemoveGoneFails, PollGivesUp, Crash
  <1> QED BY <1>1, Invariance, PTL DEF Spec, RunningTaskKeepsItsRecord
-----------------------------------------------------------------------------
\* The refinement: nothing is on file, in hand or lost that was not paid for.
Given ==
    /\ stateFile # None => server[stateFile.task] # "unused"
    /\ \A c \in Client : job[c] # None => server[job[c]] # "unused"
    /\ \A t \in unrecorded : server[t] # "unused"

\* Every id a client comes by was given out by the server.
LEMMA GivenNext ==
  ASSUME TypeOK, HasJob, Given, [Next]_vars
  PROVE  Given'
  <1> USE ConstantsAssumption DEF ConstantsAssumption, TypeOK, HasJob, Given
  <1>1. ASSUME NEW t \in Task, Serve(t) PROVE Given'
    <2>1. \A u \in Task : server'[u] = "unused" => server[u] = "unused"
      BY <1>1 DEF Serve, Running
    <2> QED BY <1>1, <2>1 DEF Serve
  <1>2. ASSUME NEW c \in Client, ReadState(c) PROVE Given'
    BY <1>2 DEF ReadState, Adopt, OwnRecord, NoRecord, Unparsable, Whole, Goto
  <1>3. ASSUME NEW c \in Client, DropState(c) \/ ReadFails(c) PROVE Given'
    BY <1>3 DEF DropState, ReadFails, NoRecord, Goto
  <1>4. ASSUME NEW c \in Client, ListActive(c) PROVE Given'
    BY <1>4 DEF ListActive, Goto
  <1>5. ASSUME NEW c \in Client, Create(c) PROVE Given'
    BY <1>5 DEF Create, Goto, Done
  <1>6. ASSUME NEW c \in Client, PersistOpen(c) PROVE Given'
    <2>1. job[c] \in Task /\ server[job[c]] # "unused"
      BY <1>6 DEF PersistOpen
    <2>2. [task |-> job[c], whole |-> FALSE].task = job[c]
      OBVIOUS
    <2> QED BY <1>6, <2>1, <2>2 DEF PersistOpen
  <1>7. ASSUME NEW c \in Client, PersistContent(c) PROVE Given'
    <2>1. job[c] \in Task /\ server[job[c]] # "unused"
      BY <1>7 DEF PersistContent
    <2>2. stateFile # None => [stateFile EXCEPT !.whole = TRUE].task = stateFile.task
      OBVIOUS
    <2>3. stateFile' # None => stateFile # None /\ stateFile'.task = stateFile.task
      BY <1>7, <2>2 DEF PersistContent
    <2> QED BY <1>7, <2>1, <2>3 DEF PersistContent
  <1>8. ASSUME NEW c \in Client, PersistFails(c) \/ Crash(c) PROVE Given'
    BY <1>8 DEF PersistFails, Crash, Goto, Done
  <1>9. ASSUME NEW c \in Client,
               LockTimeout(c) \/ CreateRejected(c) \/ PollGivesUp(c) \/ RemoveState(c)
                 \/ GuardedRemove(c) \/ RemoveGone(c) \/ RemoveGoneFails(c)
        PROVE  Given'
    BY <1>9 DEF LockTimeout, CreateRejected, PollGivesUp, RemoveState, GuardedRemove, RemoveGone,
                RemoveGoneFails, Goto, Done
  <1>10. ASSUME NEW c \in Client, Invoke(c) \/ AcquireLock(c) \/ Poll(c) \/ Collect(c) PROVE Given'
    BY <1>10 DEF Invoke, AcquireLock, Poll, Collect
  <1>11. CASE BreakStaleLock
    BY <1>11 DEF BreakStaleLock
  <1>12. CASE UNCHANGED vars
    BY <1>12 DEF vars
  <1> QED
    BY <1>1, <1>2, <1>3, <1>4, <1>5, <1>6, <1>7, <1>8, <1>9, <1>10, <1>11, <1>12 DEF Next, Step

\* A step of tavily's or firecrawl's clients, or of their server, is one of
\* PaidJob or changes nothing there: it pays for a task only when all running
\* ones are lost.
LEMMA StepIsAJobStep ==
  ASSUME IInv, Given, provider \in {"tavily", "firecrawl"}, [Next]_vars
  PROVE  [Job!PJNext]_Job!pjVars
  <1> DEFINE on == {t \in Task : Counts(t)}
             off == {t \in Task : server[t] # "unused" /\ ~Counts(t)}
             gone == IF provider = "firecrawl" THEN {} ELSE unrecorded
  <1>1. provider' = provider
    BY DEF Next, Step, vars, BreakStaleLock, Serve, Invoke, ReadState, DropState, ReadFails, AcquireLock,
           LockTimeout, ListActive, Create, CreateRejected, PersistOpen, PersistContent, PersistFails,
           Poll, Collect, RemoveState, GuardedRemove, RemoveGone, RemoveGoneFails, PollGivesUp, Crash
  <1>2. server \in [Task -> {"unused", "active", "aged", "completed", "failed", "gone"}]
        /\ unrecorded \subseteq Task
    BY DEF IInv, TypeOK
  <1>3. on \cup off = {t \in Task : server[t] # "unused"} /\ unrecorded \subseteq on \cup off
    BY <1>2 DEF Counts, Running, Given
  <1>4. ASSUME server' = server, NEW t \in Task, server[t] # "unused",
               unrecorded' \in {unrecorded, unrecorded \cup {t}}
        PROVE  [Job!PJNext]_Job!pjVars
    <2>1. on' = on /\ off' = off
      BY <1>1, <1>4 DEF Counts, Running
    <2>2. gone' = gone \/ gone' = gone \cup {t}
      BY <1>1, <1>4
    <2>3. t \in on \cup off
      BY <1>3, <1>4
    <2>4. gone' = gone \cup {t} => Job!Lose(t)
      <3> HIDE DEF on, off, gone
      <3> QED BY <2>1, <2>3 DEF Job!Lose, on, off, gone
    <2>5. gone' = gone => UNCHANGED Job!pjVars
      BY <2>1 DEF Job!pjVars
    <2> QED BY <2>2, <2>4, <2>5 DEF Job!PJNext
  <1>5. ASSUME server' = server, unrecorded' = unrecorded PROVE [Job!PJNext]_Job!pjVars
    BY <1>1, <1>5 DEF Job!pjVars, Counts, Running
  <1>6. ASSUME NEW t \in Task, Serve(t) PROVE [Job!PJNext]_Job!pjVars
    <2>1. unrecorded' = unrecorded /\ \A u \in Task \ {t} : server'[u] = server[u]
      BY <1>2, <1>6 DEF Serve
    <2>2. server[t] # "unused" /\ server'[t] # "unused" /\ (Counts(t)' => Counts(t))
      BY <1>1, <1>2, <1>6 DEF Serve, Running, Counts
    <2>3. \A u \in Task \ {t} : Counts(u)' = Counts(u)
      BY <1>1, <2>1 DEF Counts, Running
    <2>4. CASE Counts(t)' = Counts(t)
      BY <1>1, <2>1, <2>2, <2>3, <2>4 DEF Job!pjVars
    <2>5. CASE Counts(t)' # Counts(t)
      <3>1. on' = on \ {t} /\ t \in on
        BY <2>2, <2>3, <2>5 DEF Counts, Running
      <3>2. off' = off \cup {t}
        BY <2>1, <2>2, <2>3, <2>5 DEF Counts, Running
      <3>3. Job!Finish(t)
        BY <1>1, <2>1, <3>1, <3>2 DEF Job!Finish
      <3> QED BY <3>3 DEF Job!PJNext
    <2> QED BY <2>4, <2>5
  <1>7. ASSUME NEW c \in Client, Create(c) PROVE [Job!PJNext]_Job!pjVars
    <2>1. PICK t \in Task : /\ server[t] = "unused" /\ server' = [server EXCEPT ![t] = "active"]
                            /\ unrecorded' \in {unrecorded, unrecorded \cup {t}}
      BY <1>7 DEF Create
    <2>2. t \notin on \cup off /\ Counts(t)' /\ \A u \in Task \ {t} : Counts(u)' = Counts(u)
      BY <1>1, <1>2, <2>1 DEF Counts, Running
    <2>3. on' = on \cup {t}
      BY <2>2
    <2>4. off' = off
      BY <1>2, <2>1, <2>2
    <2>5. on \subseteq gone
      <3>1. CASE provider = "firecrawl"
        BY <1>7, <3>1 DEF IInv, NoneWhenCreating, Create, Counts
      <3>2. CASE provider = "tavily"
        <4> SUFFICES ASSUME NEW u \in Task, Running(u), u \notin unrecorded PROVE FALSE
          BY <3>2 DEF Counts
        <4>1. pc[c] = "create" /\ (stateFile = None \/ stateFile.task \in unrecorded)
          BY <1>7, <3>2 DEF Create, IInv, ClearForCreate
        <4>2. PICK d \in Client : pc[d] = "persist"
          BY <3>2, <4>1 DEF IInv, Kept
        <4>3. lock = c /\ lock = d
          BY <3>2, <4>1, <4>2 DEF IInv, Exclusive, Guarded
        <4> QED BY <4>1, <4>2, <4>3
      <3> QED BY <3>1, <3>2
    <2>6. gone' \in {gone, gone \cup {t}}
      BY <1>1, <2>1
    <2>7. Job!Pay(t)
      <3> HIDE DEF on, off, gone
      <3> QED BY <2>2, <2>3, <2>4, <2>5, <2>6 DEF Job!Pay, on, off, gone
    <2> QED BY <2>7 DEF Job!PJNext
  <1>8. ASSUME NEW c \in Client, DropState(c) \/ ReadFails(c) PROVE [Job!PJNext]_Job!pjVars
    <2>1. server' = server
      BY <1>8 DEF DropState, ReadFails
    <2>2. CASE stateFile = None
      BY <1>5, <1>8, <2>1, <2>2 DEF DropState, ReadFails
    <2>3. CASE stateFile # None
      <3>1. stateFile.task \in Task /\ server[stateFile.task] # "unused"
        BY <2>3 DEF IInv, TypeOK, Given
      <3>2. unrecorded' \in {unrecorded, unrecorded \cup {stateFile.task}}
        BY <1>8, <2>3 DEF DropState, ReadFails
      <3> QED BY <1>4, <2>1, <3>1, <3>2
    <2> QED BY <2>2, <2>3
  <1>9. ASSUME NEW c \in Client, PersistOpen(c) \/ PersistContent(c) \/ PersistFails(c)
                                   \/ (Crash(c) /\ pc[c] \in {"persist", "write"})
        PROVE  [Job!PJNext]_Job!pjVars
    <2>1. pc[c] \in {"persist", "write"}
      BY <1>9 DEF PersistOpen, PersistContent, PersistFails
    <2>2. job[c] \in Task /\ server[job[c]] # "unused"
      BY <2>1, ConstantsAssumption DEF ConstantsAssumption, IInv, HasJob, Given
    <2>3. server' = server /\ unrecorded' \in {unrecorded, unrecorded \cup {job[c]}}
      BY <1>9 DEF PersistOpen, PersistContent, PersistFails, Crash
    <2> QED BY <1>4, <2>2, <2>3
  <1>10. ASSUME NEW c \in Client, Crash(c), pc[c] \notin {"persist", "write"} PROVE [Job!PJNext]_Job!pjVars
    BY <1>5, <1>10 DEF Crash
  <1>11. CASE UNCHANGED vars
    BY <1>5, <1>11 DEF vars
  <1>12. CASE BreakStaleLock
    BY <1>5, <1>12 DEF BreakStaleLock
  <1>13. ASSUME NEW c \in Client,
                \/ Invoke(c) \/ ReadState(c) \/ AcquireLock(c) \/ LockTimeout(c) \/ ListActive(c)
                \/ CreateRejected(c) \/ Poll(c) \/ Collect(c) \/ RemoveState(c) \/ GuardedRemove(c)
                \/ RemoveGone(c) \/ RemoveGoneFails(c) \/ PollGivesUp(c)
         PROVE  [Job!PJNext]_Job!pjVars
    <2>1. server' = server /\ unrecorded' = unrecorded
      BY <1>13 DEF Invoke, ReadState, Adopt, OwnRecord, NoRecord, Unparsable, AcquireLock, LockTimeout,
                   ListActive, CreateRejected, Poll, Collect, RemoveState, GuardedRemove, RemoveGone,
                   RemoveGoneFails, PollGivesUp
    <2> QED BY <1>5, <2>1
  <1> QED
    <2> HIDE DEF on, off, gone
    <2> QED
      BY <1>6, <1>7, <1>8, <1>9, <1>10, <1>11, <1>12, <1>13 DEF Next, Step

\* Whoever asks tavily or firecrawl, and whatever is lost, dies or fails: a task
\* is paid for only when every running one is lost (in firecrawl, where a young
\* crawl never is, only when none runs), an ended task never runs again, and
\* what is lost was paid for.
THEOREM ClientsImplementPaidJob == Spec /\ provider \in {"tavily", "firecrawl"} => Job!PJSpec
  <1>1. Init => Given /\ Job!PJInit
    BY ConstantsAssumption DEF ConstantsAssumption, Init, Given, Job!PJInit, Counts, Running
  <1>2. IInv /\ Given /\ [Next]_vars => Given'
    BY GivenNext DEF IInv
  <1>3. [Next]_vars => provider' = provider
    BY DEF Next, Step, vars, BreakStaleLock, Serve, Invoke, ReadState, DropState, ReadFails, AcquireLock,
           LockTimeout, ListActive, Create, CreateRejected, PersistOpen, PersistContent, PersistFails,
           Poll, Collect, RemoveState, GuardedRemove, RemoveGone, RemoveGoneFails, PollGivesUp, Crash
  <1> DEFINE Two == provider \in {"tavily", "firecrawl"}
  <1>4. Two /\ [Next]_vars => Two'
    BY <1>3
  <1>5. IInv /\ Given /\ Two /\ [Next]_vars => [Job!PJNext]_Job!pjVars
    BY StepIsAJobStep
  <1> QED BY <1>1, <1>2, <1>4, <1>5, Invariance, PTL DEF Spec, Job!PJSpec

\* PaidJob keeps its word: of the running tasks at most one was not lost.
THEOREM PaidJobKeepsOne == Job!PJSpec => []Job!OneIsKept
  <1>1. Job!PJInit => Job!OneIsKept
    BY DEF Job!PJInit, Job!OneIsKept
  <1>2. Job!OneIsKept /\ [Job!PJNext]_Job!pjVars => Job!OneIsKept'
    <2> SUFFICES ASSUME Job!OneIsKept, [Job!PJNext]_Job!pjVars PROVE Job!OneIsKept'
      OBVIOUS
    <2> QED BY DEF Job!OneIsKept, Job!PJNext, Job!pjVars, Job!Pay, Job!Finish, Job!Lose
  <1> QED BY <1>1, <1>2, PTL DEF Job!PJSpec
=============================================================================
