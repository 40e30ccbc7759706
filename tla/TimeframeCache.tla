---------------------------- MODULE TimeframeCache ----------------------------
(***************************************************************************)
(* BudgetKeyTimeframeManager as a cache: a timeframe group is loaded from  *)
(* the database by one of the commands that ask for it, changed through    *)
(* Update, and stored and removed by the garbage collector of the map, all *)
(* of it journalled. The commands here take the group through the phases   *)
(* of one consumption each: lock the frame, then take the tokens or give   *)
(* the lock back.                                                          *)
(*                                                                         *)
(* A command context lives for 90 seconds and an entry for 300 from its    *)
(* last access: the entry does not expire while a command is between an    *)
(* access and the next one.                                                *)
(***************************************************************************)
EXTENDS Integers, FiniteSets, ExpiringMap

CONSTANTS
    Commands,      \* the commands, each of which takes one token
    NoCommand,     \* kZeroUuid
    FullBudget,    \* kMaxToken
    MaxGroups,     \* bound: group objects made in a behaviour
    MaxFaults,     \* bound: errors of the database and of the journal
    MaxRestarts,   \* bound: restarts
    RefusedLoads,  \* the database client may refuse a request at once
    UnsureWrites   \* a failed write of the removal may be in the journal

ASSUME TimeframeCacheAssumption ==
    /\ NoCommand \notin Commands
    /\ {FullBudget, MaxGroups, MaxFaults, MaxRestarts} \subseteq Nat
    /\ {RefusedLoads, UnsureWrites} \subseteq BOOLEAN

VARIABLES
    groupEntry,   \* the entry of the group in the map
    current,      \* the group object in the entry
    groupObj,     \* the group objects that commands may hold pointers to
    groupLog,     \* the group that a replay of the journal gives
    groupDb,      \* token_count in the database
    command,      \* the phase of each command and where it is
    collector,    \* RunGarbageCollector and its callbacks
    taken,        \* history: the commands whose consumption is journalled
    faults, restarts

cacheVars == <<groupEntry, current, groupObj, groupLog, groupDb, command, collector, taken,
               faults, restarts>>

Frame(tokens, active, owner) == [tokens |-> tokens, active |-> active, owner |-> owner]

FrameType == [tokens : 0..FullBudget, active : 0..FullBudget,
              owner : Commands \cup {NoCommand}]

NoFrame == Frame(0, 0, NoCommand)

\* A LoadableObject with its frame, if it has one.
NewGroup == [is_loaded |-> FALSE, needs_loader |-> FALSE, filled |-> FALSE, frame |-> NoFrame]

CacheTypeOK ==
    /\ groupEntry \in EntryType
    /\ current \in 0..MaxGroups
    /\ groupObj \in [1..MaxGroups -> [is_loaded : BOOLEAN, needs_loader : BOOLEAN,
                                      filled : BOOLEAN, frame : FrameType]]
    /\ groupLog \in [present : BOOLEAN, frame : FrameType]
    /\ groupDb \in 0..FullBudget
    /\ command \in [Commands -> [phase : {"Commit", "Notify", "Abort", "Committed", "Aborted"},
                                 pc : {"load", "get", "loadlog", "frame", "updatelog"},
                                 group : 0..MaxGroups, update : FrameType]]
    /\ collector \in [pc : {"scheduled", "check", "read", "store", "log", "stopped"},
                      tokens : 0..FullBudget]
    /\ taken \subseteq Commands
    /\ faults \in 0..MaxFaults /\ restarts \in 0..MaxRestarts

CacheInit ==
    /\ groupEntry = NoEntry
    /\ current = 0
    /\ groupObj = [g \in 1..MaxGroups |-> NewGroup]
    /\ groupLog = [present |-> FALSE, frame |-> NoFrame]
    /\ groupDb = FullBudget
    /\ command = [c \in Commands |-> [phase |-> "Commit", pc |-> "load", group |-> 0,
                                      update |-> NoFrame]]
    /\ collector = [pc |-> "scheduled", tokens |-> 0]
    /\ taken = {}
    /\ faults = 0
    /\ restarts = 0

AFault == faults < MaxFaults /\ faults' = faults + 1

\* The objects made so far are 1..n: the next one.
Made == {g \in 1..MaxGroups : groupObj[g] # NewGroup} \cup {current}
        \cup {command[c].group : c \in Commands}
NextGroup == CHOOSE n \in 1..(MaxGroups + 1) :
                /\ n \notin Made
                /\ \A g \in Made : g < n

Running(c) == command[c].phase \in {"Commit", "Notify", "Abort"}

\* A command that fails aborts if it was committing; otherwise the engine
\* executes the phase again.
Failed(cmd) == [cmd EXCEPT !.pc = "load", !.group = 0, !.update = NoFrame,
                           !.phase = IF @ = "Commit" THEN "Abort" ELSE @]

Succeeded(cmd) == [cmd EXCEPT !.pc = "load", !.group = 0, !.update = NoFrame,
                              !.phase = CASE @ = "Commit" -> "Notify"
                                          [] @ = "Notify" -> "Committed"
                                          [] @ = "Abort" -> "Aborted"]

-----------------------------------------------------------------------------
(* Load.                                                                    *)

At(c, pc) == Running(c) /\ command[c].pc = pc

\* The group is in the cache, loaded: the command gets its frame.
LoadFromCache(c) ==
    /\ At(c, "load")
    /\ InsertResult(groupEntry) = "AlreadyExists"
    /\ ~groupObj[current].needs_loader /\ groupObj[current].is_loaded
    /\ groupEntry' = Inserted(groupEntry)
    /\ command' = [command EXCEPT ![c].pc = "frame", ![c].group = current]
    /\ UNCHANGED <<current, groupObj, groupLog, groupDb, collector, taken, faults, restarts>>

\* The command has inserted the group, or finds it without a loader: it sends
\* the request to the database with the eviction disabled. If the client of the
\* database refuses the request, the role of the loader is gone with it.
LoadTimeframeGroupFromDB(c) ==
    /\ At(c, "load")
    /\ \/ /\ InsertResult(groupEntry) = "Success" /\ NextGroup <= MaxGroups
          /\ current' = NextGroup
          /\ UNCHANGED groupObj
       \/ /\ InsertResult(groupEntry) = "AlreadyExists"
          /\ groupObj[current].needs_loader
          /\ groupObj' = [groupObj EXCEPT ![current].needs_loader = FALSE]
          /\ UNCHANGED current
    /\ groupEntry' = EvictionDisabled(Inserted(groupEntry))
    /\ \/ /\ command' = [command EXCEPT ![c].pc = "get", ![c].group = current']
          /\ UNCHANGED faults
       \/ /\ RefusedLoads /\ AFault
          /\ command' = [command EXCEPT ![c] = Failed(@)]
    /\ UNCHANGED <<groupLog, groupDb, collector, taken, restarts>>

GaveUp(g) == [groupObj[g] EXCEPT !.needs_loader = TRUE]

\* The database has answered. The eviction is enabled before anything else.
OnLoadTimeframeGroupFromDBCallback(c) ==
    LET g == command[c].group IN
    /\ At(c, "get")
    /\ groupEntry' = EvictionEnabled(groupEntry)
    /\ \/ /\ groupObj' = [groupObj EXCEPT ![g].filled = TRUE,
                                          ![g].frame = Frame(groupDb, 0, NoCommand)]
          /\ command' = [command EXCEPT ![c].pc = "loadlog"]
          /\ UNCHANGED faults
       \/ /\ AFault
          /\ groupObj' = [groupObj EXCEPT ![g] = GaveUp(g)]
          /\ command' = [command EXCEPT ![c] = Failed(@)]
    /\ UNCHANGED <<current, groupLog, groupDb, collector, taken, restarts>>

OnLogLoadCallback(c) ==
    LET g == command[c].group IN
    /\ At(c, "loadlog")
    /\ \/ /\ groupLog' = [present |-> TRUE, frame |-> groupObj[g].frame]
          /\ groupObj' = [groupObj EXCEPT ![g].needs_loader = FALSE, ![g].is_loaded = TRUE]
          /\ command' = [command EXCEPT ![c].pc = "frame"]
          /\ UNCHANGED faults
       \/ /\ AFault
          /\ groupLog' = [present |-> TRUE, frame |-> groupObj[g].frame] \/ UNCHANGED groupLog
          /\ groupObj' = [groupObj EXCEPT ![g] = GaveUp(g)]
          /\ command' = [command EXCEPT ![c] = Failed(@)]
    /\ UNCHANGED <<groupEntry, current, groupDb, collector, taken, restarts>>

-----------------------------------------------------------------------------
(* The phases of a command on the frame it has got, and Update.              *)

Owner(c) == groupObj[command[c].group].frame.owner
TokensSeen(c) == groupObj[command[c].group].frame.tokens

\* There is nothing to write: a Commit that ran before, or a Notify or Abort
\* whose lock is gone.
NothingToDo(c) ==
    /\ At(c, "frame")
    /\ IF command[c].phase = "Commit" THEN Owner(c) = c ELSE Owner(c) # c
    /\ command' = [command EXCEPT ![c] = Succeeded(@)]
    /\ UNCHANGED <<groupEntry, current, groupObj, groupLog, groupDb, collector, taken, faults,
                   restarts>>

\* Another command has the frame: try again, or give up.
FrameTaken(c) ==
    /\ At(c, "frame") /\ command[c].phase = "Commit" /\ Owner(c) \notin {c, NoCommand}
    /\ \/ command' = [command EXCEPT ![c].pc = "load", ![c].group = 0]
       \/ command' = [command EXCEPT ![c] = Failed(@)]
    /\ UNCHANGED <<groupEntry, current, groupObj, groupLog, groupDb, collector, taken, faults,
                   restarts>>

\* What the phase writes.
NewFrame(c) ==
    LET f == groupObj[command[c].group].frame IN
    CASE command[c].phase = "Commit" -> Frame(f.tokens, f.tokens - 1, c)
      [] command[c].phase = "Notify" -> Frame(f.active, 0, NoCommand)
      [] command[c].phase = "Abort"  -> Frame(f.tokens, 0, NoCommand)

Locks(c) == IF command[c].phase = "Commit"
            THEN [groupObj EXCEPT ![command[c].group].frame.owner = c] ELSE groupObj

MayWrite(c) == Owner(c) = IF command[c].phase = "Commit" THEN NoCommand ELSE c

\* The lock is taken; the budget is short. A single Commit keeps the lock until
\* it is aborted.
BudgetShort(c) ==
    /\ At(c, "frame") /\ command[c].phase = "Commit" /\ MayWrite(c) /\ TokensSeen(c) = 0
    /\ groupObj' = Locks(c)
    /\ command' = [command EXCEPT ![c] = Failed(@)]
    /\ UNCHANGED <<groupEntry, current, groupLog, groupDb, collector, taken, faults, restarts>>

\* Update up to its request to the journal. It looks for the group again: the
\* one in the map is written, whatever the command has seen.
UpdateTimeframe(c) ==
    /\ At(c, "frame") /\ MayWrite(c)
    /\ command[c].phase = "Commit" => TokensSeen(c) > 0
    /\ groupObj' = Locks(c)
    /\ groupEntry' = EvictionDisabled(Found(groupEntry))
    /\ \/ /\ FindResult(groupEntry) = "Success" /\ groupObj[current].filled
          /\ command' = [command EXCEPT ![c].pc = "updatelog", ![c].group = current,
                                        ![c].update = NewFrame(c)]
       \/ /\ ~(FindResult(groupEntry) = "Success" /\ groupObj[current].filled)
          /\ command' = [command EXCEPT ![c] = Failed(@)]
    /\ UNCHANGED <<current, groupLog, groupDb, collector, taken, faults, restarts>>

Journalled(c) ==
    /\ groupLog' = [groupLog EXCEPT !.frame = command[c].update]
    /\ taken' = IF command[c].phase = "Notify" THEN taken \cup {c} ELSE taken

OnUpdateLogged(c) ==
    LET g == command[c].group IN
    /\ At(c, "updatelog")
    /\ groupEntry' = EvictionEnabled(groupEntry)
    /\ \/ /\ Journalled(c)
          /\ groupObj' = [groupObj EXCEPT ![g].frame = command[c].update]
          /\ command' = [command EXCEPT ![c] = Succeeded(@)]
          /\ UNCHANGED faults
       \/ /\ AFault
          /\ Journalled(c) \/ UNCHANGED <<groupLog, taken>>
          /\ command' = [command EXCEPT ![c] = Failed(@)]
          /\ UNCHANGED groupObj
    /\ UNCHANGED <<current, groupDb, collector, restarts>>

-----------------------------------------------------------------------------
(* Time, the garbage collector and restarts.                                *)

\* Nothing has used the entry for its lifetime.
GroupExpires ==
    /\ groupEntry.present /\ ~groupEntry.expired
    /\ \A c \in Commands : command[c].pc \notin {"loadlog", "frame"}
    /\ groupEntry' = EntryExpires(groupEntry)
    /\ UNCHANGED <<current, groupObj, groupLog, groupDb, command, collector, taken, faults,
                   restarts>>

RunGarbageCollector ==
    /\ collector.pc = "scheduled"
    /\ Collects(groupEntry)
    /\ groupEntry' = BeingEvicted(groupEntry)
    /\ collector' = [collector EXCEPT !.pc = "check"]
    /\ UNCHANGED <<current, groupObj, groupLog, groupDb, command, taken, faults, restarts>>

\* should_delete_entry(false): the entry stays, and the next round is scheduled.
Keep ==
    /\ groupEntry' = EntryRemoved(groupEntry, FALSE)
    /\ collector' = [collector EXCEPT !.pc = "scheduled"]

\* Mutant: the lock of the frame is not looked at.
LockIgnored(frame) == TRUE

Unlocked(frame) == frame.owner = NoCommand

\* OnBeforeGarbageCollection, first the locks and then the tokens of the
\* frames. A group without frames cannot be serialized and stays.
OnBeforeGarbageCollection ==
    /\ collector.pc = "check"
    /\ \/ /\ Unlocked(groupObj[current].frame) /\ groupObj[current].filled
          /\ collector' = [collector EXCEPT !.pc = "read"]
          /\ UNCHANGED groupEntry
       \/ /\ ~(Unlocked(groupObj[current].frame) /\ groupObj[current].filled)
          /\ Keep
    /\ UNCHANGED <<current, groupObj, groupLog, groupDb, command, taken, faults, restarts>>

ReadsTokens ==
    /\ collector.pc = "read"
    /\ collector' = [pc |-> "store", tokens |-> groupObj[current].frame.tokens]
    /\ UNCHANGED <<groupEntry, current, groupObj, groupLog, groupDb, command, taken, faults,
                   restarts>>

\* A request that failed may have changed the database.
OnStoreTimeframeGroupToDBCallback ==
    /\ collector.pc = "store"
    /\ \/ /\ groupDb' = collector.tokens
          /\ collector' = [collector EXCEPT !.pc = "log"]
          /\ UNCHANGED <<groupEntry, faults>>
       \/ /\ AFault
          /\ groupDb' \in {groupDb, collector.tokens}
          /\ Keep
    /\ UNCHANGED <<current, groupObj, groupLog, command, taken, restarts>>

Removed == [present |-> FALSE, frame |-> NoFrame]

OnGroupRemovalLogged ==
    /\ collector.pc = "log"
    /\ \/ /\ groupLog' = Removed
          /\ groupEntry' = EntryRemoved(groupEntry, TRUE)
          /\ current' = 0
          /\ collector' = [pc |-> "scheduled", tokens |-> 0]
          /\ UNCHANGED faults
       \/ /\ AFault
          /\ (UnsureWrites /\ groupLog' = Removed) \/ UNCHANGED groupLog
          /\ Keep
          /\ UNCHANGED current
    /\ UNCHANGED <<groupObj, groupDb, command, taken, restarts>>

\* Memory is lost; the map has what a replay of the journal gives, and the
\* engine executes the phases again.
RestartCache ==
    /\ restarts < MaxRestarts
    /\ restarts' = restarts + 1
    /\ groupLog.present => NextGroup <= MaxGroups
    /\ \/ /\ groupLog.present
          /\ current' = NextGroup
          /\ groupEntry' = NewEntry
          /\ groupObj' = [groupObj EXCEPT ![NextGroup] =
                            [is_loaded |-> TRUE, needs_loader |-> FALSE, filled |-> TRUE,
                             frame |-> groupLog.frame]]
       \/ /\ ~groupLog.present
          /\ current' = 0
          /\ groupEntry' = NoEntry
          /\ UNCHANGED groupObj
    /\ command' = [c \in Commands |-> IF Running(c)
                                      THEN [command[c] EXCEPT !.pc = "load", !.group = 0,
                                                              !.update = NoFrame]
                                      ELSE command[c]]
    /\ collector' = [pc |-> "scheduled", tokens |-> 0]
    /\ UNCHANGED <<groupLog, groupDb, taken, faults>>

-----------------------------------------------------------------------------

CommandStep(c) ==
    \/ LoadFromCache(c)
    \/ LoadTimeframeGroupFromDB(c)
    \/ OnLoadTimeframeGroupFromDBCallback(c)
    \/ OnLogLoadCallback(c)
    \/ NothingToDo(c)
    \/ FrameTaken(c)
    \/ BudgetShort(c)
    \/ UpdateTimeframe(c)
    \/ OnUpdateLogged(c)

CollectorStep ==
    \/ RunGarbageCollector
    \/ OnBeforeGarbageCollection
    \/ ReadsTokens
    \/ OnStoreTimeframeGroupToDBCallback
    \/ OnGroupRemovalLogged

CacheNext ==
    \/ \E c \in Commands : CommandStep(c)
    \/ GroupExpires
    \/ CollectorStep
    \/ RestartCache

CacheSpec == CacheInit /\ [][CacheNext]_cacheVars

-----------------------------------------------------------------------------
(* Properties.                                                              *)

\* However loads, updates, evictions and restarts interleave, the tokens that
\* the next load or the next recovery finds are the ones nobody has taken: a
\* group is never stored with a value that an update has overtaken.
CacheConservesTokens ==
    (IF groupLog.present THEN groupLog.frame.tokens ELSE groupDb)
        = FullBudget - Cardinality(taken)

\* A replay of the journal succeeds: no update is written for a group whose
\* removal is the last the journal has heard of it (Find fails in
\* OnJournalServiceRecoverCallback then). And the collector takes no group
\* away from a command that has reserved tokens in it.
UpdatesFollowLoads ==
    \A c \in Commands :
        /\ command[c].pc = "updatelog" => groupLog.present
        /\ command[c].phase = "Notify" /\ c \notin taken => groupLog.present /\ groupLog.frame.owner = c

=============================================================================
