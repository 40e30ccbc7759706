---------------------------- MODULE BudgetKeyCache ----------------------------
(***************************************************************************)
(* BudgetKeyProvider: the cache of budget keys above the cache of each     *)
(* key's timeframe groups (TimeframeCache). A key object is made by the    *)
(* first caller that asks for it, under an id of its own; two journal      *)
(* entries load it, LOAD_INTO_CACHE of the provider and then the key's own *)
(* entry with its timeframe manager, and DELETE_FROM_CACHE unloads it when *)
(* its manager has no groups left.                                         *)
(*                                                                         *)
(* As in TimeframeCache an entry does not expire while a caller is between *)
(* getting the key and using it.                                           *)
(***************************************************************************)
EXTENDS Integers, ExpiringMap

CONSTANTS
    Callers,       \* threads of commands that use the key
    MaxKeys,       \* bound: key objects made in a behaviour
    MaxKeyFaults,  \* bound: errors of the journal and of Run
    MaxKeyRestarts

ASSUME BudgetKeyCacheAssumption == {MaxKeys, MaxKeyFaults, MaxKeyRestarts} \subseteq Nat

VARIABLES
    keyEntry,     \* the entry of the key in budget_keys_
    keyCurrent,   \* the object in the entry, which is also its id
    keyObj,       \* BudgetKeyProviderPair: the objects callers may hold
    keyLog,       \* the key a replay of the journal gives: its id and manager
    caller,
    remover,      \* the garbage collector
    replayable,   \* history: no entry was written that a replay refuses
    keyFaults, keyRestarts

keyVars == <<keyEntry, keyCurrent, keyObj, keyLog, caller, remover, replayable, keyFaults,
             keyRestarts>>

NewKey == [is_loaded |-> FALSE, needs_loader |-> FALSE, manager |-> FALSE, groups |-> FALSE]

KeyTypeOK ==
    /\ keyEntry \in EntryType
    /\ keyCurrent \in 0..MaxKeys
    /\ keyObj \in [1..MaxKeys -> [is_loaded : BOOLEAN, needs_loader : BOOLEAN,
                                  manager : BOOLEAN, groups : BOOLEAN]]
    /\ keyLog \in [id : 0..MaxKeys, manager : BOOLEAN]
    /\ caller \in [Callers -> [pc : {"get", "loadlog", "keylog", "key"}, key : 0..MaxKeys]]
    /\ remover \in {"scheduled", "check", "log"}
    /\ replayable \in BOOLEAN
    /\ keyFaults \in 0..MaxKeyFaults /\ keyRestarts \in 0..MaxKeyRestarts

KeyInit ==
    /\ keyEntry = NoEntry
    /\ keyCurrent = 0
    /\ keyObj = [k \in 1..MaxKeys |-> NewKey]
    /\ keyLog = [id |-> 0, manager |-> FALSE]
    /\ caller = [u \in Callers |-> [pc |-> "get", key |-> 0]]
    /\ remover = "scheduled"
    /\ replayable = TRUE
    /\ keyFaults = 0
    /\ keyRestarts = 0

AKeyFault == keyFaults < MaxKeyFaults /\ keyFaults' = keyFaults + 1

\* Ids are never used again: the next one.
FreshKey == CHOOSE n \in 1..(MaxKeys + 1) :
               LET used == {k \in 1..MaxKeys : keyObj[k] # NewKey}
                           \cup {keyCurrent, keyLog.id} \cup {caller[u].key : u \in Callers}
               IN n \notin used /\ \A k \in used : k < n

Unanswered == [pc |-> "get", key |-> 0]

-----------------------------------------------------------------------------

\* The key is in the cache: the caller gets it.
GetCachedKey(u) ==
    /\ caller[u].pc = "get"
    /\ InsertResult(keyEntry) = "AlreadyExists"
    /\ ~keyObj[keyCurrent].needs_loader /\ keyObj[keyCurrent].is_loaded
    /\ keyEntry' = Inserted(keyEntry)
    /\ caller' = [caller EXCEPT ![u] = [pc |-> "key", key |-> keyCurrent]]
    /\ UNCHANGED <<keyCurrent, keyObj, keyLog, remover, replayable, keyFaults, keyRestarts>>

\* The caller has inserted the key, or finds it without a loader.
GetBudgetKey(u) ==
    /\ caller[u].pc = "get"
    /\ \/ /\ InsertResult(keyEntry) = "Success" /\ FreshKey <= MaxKeys
          /\ keyCurrent' = FreshKey
          /\ UNCHANGED keyObj
       \/ /\ InsertResult(keyEntry) = "AlreadyExists"
          /\ keyObj[keyCurrent].needs_loader
          /\ keyObj' = [keyObj EXCEPT ![keyCurrent].needs_loader = FALSE]
          /\ UNCHANGED keyCurrent
    /\ keyEntry' = EvictionDisabled(Inserted(keyEntry))
    /\ caller' = [caller EXCEPT ![u] = [pc |-> "loadlog", key |-> keyCurrent']]
    /\ UNCHANGED <<keyLog, remover, replayable, keyFaults, keyRestarts>>

\* LOAD_INTO_CACHE is in the journal. A replay makes the key anew, without its
\* manager, and refuses the entry if it has the key under another id.
LoadLogged(k) ==
    /\ keyLog' = IF keyLog.id \in {0, k} THEN [id |-> k, manager |-> FALSE] ELSE keyLog
    /\ replayable' = (replayable /\ keyLog.id \in {0, k})

NeedsLoader(k) == [keyObj EXCEPT ![k].needs_loader = TRUE]

OnLogLoadBudgetKeyIntoCacheCallback(u) ==
    LET k == caller[u].key IN
    /\ caller[u].pc = "loadlog"
    /\ \/ /\ LoadLogged(k)
          /\ caller' = [caller EXCEPT ![u].pc = "keylog"]
          /\ UNCHANGED <<keyEntry, keyObj, keyFaults>>
       \/ /\ AKeyFault
          /\ LoadLogged(k) \/ UNCHANGED <<keyLog, replayable>>
          /\ keyObj' = NeedsLoader(k)
          /\ keyEntry' = EvictionEnabled(keyEntry)
          /\ caller' = [caller EXCEPT ![u] = Unanswered]
    /\ UNCHANGED <<keyCurrent, remover, keyRestarts>>

\* BudgetKey::LoadBudgetKey has journalled the timeframe manager, the manager
\* is built and run.
OnLoadBudgetKeyCallback(u) ==
    LET k == caller[u].key
        recorded == [keyLog EXCEPT !.manager = TRUE] IN
    /\ caller[u].pc = "keylog"
    /\ keyEntry' = EvictionEnabled(keyEntry)
    /\ \/ /\ keyLog' = recorded
          /\ keyObj' = [keyObj EXCEPT ![k].manager = TRUE, ![k].is_loaded = TRUE]
          /\ caller' = [caller EXCEPT ![u].pc = "key"]
          /\ UNCHANGED keyFaults
       \/ /\ AKeyFault
          /\ keyLog' \in {keyLog, recorded}
          /\ \E built \in BOOLEAN :
                /\ built => keyLog' = recorded
                /\ keyObj' = [NeedsLoader(k) EXCEPT ![k].manager = built]
          /\ caller' = [caller EXCEPT ![u] = Unanswered]
    /\ UNCHANGED <<keyCurrent, remover, replayable, keyRestarts>>

\* The caller loads a timeframe group into the manager of the key it has got.
UseKey(u) ==
    /\ caller[u].pc = "key"
    /\ keyObj' = [keyObj EXCEPT ![caller[u].key].groups = TRUE]
    /\ caller' = [caller EXCEPT ![u] = Unanswered]
    /\ UNCHANGED <<keyEntry, keyCurrent, keyLog, remover, replayable, keyFaults, keyRestarts>>

\* The manager's own collector has removed its last group.
GroupsUnloaded(k) ==
    /\ keyObj[k].groups
    /\ keyObj' = [keyObj EXCEPT ![k].groups = FALSE]
    /\ UNCHANGED <<keyEntry, keyCurrent, keyLog, caller, remover, replayable, keyFaults,
                   keyRestarts>>

-----------------------------------------------------------------------------

KeyExpires ==
    /\ keyEntry.present /\ ~keyEntry.expired
    /\ \A u \in Callers : caller[u].pc # "key"
    /\ keyEntry' = EntryExpires(keyEntry)
    /\ UNCHANGED <<keyCurrent, keyObj, keyLog, caller, remover, replayable, keyFaults,
                   keyRestarts>>

CollectKeys ==
    /\ remover = "scheduled"
    /\ Collects(keyEntry)
    /\ keyEntry' = BeingEvicted(keyEntry)
    /\ remover' = "check"
    /\ UNCHANGED <<keyCurrent, keyObj, keyLog, caller, replayable, keyFaults, keyRestarts>>

KeepKey ==
    /\ keyEntry' = EntryRemoved(keyEntry, FALSE)
    /\ remover' = "scheduled"

\* Mutant: the groups of the key are not looked at.
CanAlwaysUnload(key) == TRUE

CanUnload(key) == key.manager => ~key.groups

OnBeforeKeyCollection ==
    /\ remover = "check"
    /\ \/ /\ CanUnload(keyObj[keyCurrent])
          /\ remover' = "log"
          /\ UNCHANGED keyEntry
       \/ /\ ~CanUnload(keyObj[keyCurrent])
          /\ KeepKey
    /\ UNCHANGED <<keyCurrent, keyObj, keyLog, caller, replayable, keyFaults, keyRestarts>>

Unlogged == [id |-> 0, manager |-> FALSE]

\* DELETE_FROM_CACHE is journalled, the key is stopped and its entry erased.
OnKeyRemovalLogged ==
    /\ remover = "log"
    /\ \/ /\ keyLog' = Unlogged
          /\ keyEntry' = EntryRemoved(keyEntry, TRUE)
          /\ keyCurrent' = 0
          /\ remover' = "scheduled"
          /\ UNCHANGED keyFaults
       \/ /\ AKeyFault
          /\ KeepKey
          /\ UNCHANGED <<keyCurrent, keyLog>>
    /\ UNCHANGED <<keyObj, caller, replayable, keyRestarts>>

\* A replay of the journal; then Run makes the keys with a manager available
\* and leaves the others to the next caller.
RunRecoveredKeys ==
    /\ keyRestarts < MaxKeyRestarts
    /\ keyRestarts' = keyRestarts + 1
    /\ keyCurrent' = keyLog.id
    /\ keyEntry' = IF keyLog.id = 0 THEN NoEntry ELSE NewEntry
    /\ keyObj' = [k \in 1..MaxKeys |->
                    IF k = keyLog.id
                    THEN [is_loaded |-> keyLog.manager, needs_loader |-> ~keyLog.manager,
                          manager |-> keyLog.manager, groups |-> keyObj[k].groups]
                    ELSE [keyObj[k] EXCEPT !.groups = FALSE]]
    /\ caller' = [u \in Callers |-> Unanswered]
    /\ remover' = "scheduled"
    /\ UNCHANGED <<keyLog, replayable, keyFaults>>

KeyNext ==
    \/ \E u \in Callers :
        \/ GetCachedKey(u)
        \/ GetBudgetKey(u)
        \/ OnLogLoadBudgetKeyIntoCacheCallback(u)
        \/ OnLoadBudgetKeyCallback(u)
        \/ UseKey(u)
    \/ \E k \in 1..MaxKeys : GroupsUnloaded(k)
    \/ KeyExpires
    \/ CollectKeys
    \/ OnBeforeKeyCollection
    \/ OnKeyRemovalLogged
    \/ RunRecoveredKeys

KeySpec == KeyInit /\ [][KeyNext]_keyVars

-----------------------------------------------------------------------------
(* Properties.                                                              *)

\* The budget of a key is in one cache at a time: an object of the key that
\* has groups loaded is the one in the map, so nobody spends from a copy. And
\* the journal can always be replayed: the provider never loads a key under a
\* new id before the removal of the old one is journalled.
OneLiveKey ==
    /\ \A k \in 1..MaxKeys : keyObj[k].groups => k = keyCurrent
    /\ replayable

=============================================================================
