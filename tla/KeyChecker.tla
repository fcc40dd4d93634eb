----------------------------- MODULE KeyChecker -----------------------------
(***************************************************************************)
(* ChaosKeyValueChecker of the chaos test (chaos_check_service.py): it     *)
(* writes keys through the cluster client, remembers those it knows to be  *)
(* set or deleted, and logs INCONSISTENT when a read says otherwise.  What *)
(* it logs is the verdict on the whole system, so it must blame the store  *)
(* for nothing but the store's faults, although calls time out before,     *)
(* during and after their effect.                                          *)
(*                                                                         *)
(* A round of checker_key_value gathers two coroutines: single-key calls   *)
(* that run together, and multi-key calls, one for each group of keys with *)
(* the same slot, one after the other.  The ten keys of a SET, MSET or DEL *)
(* round are any number of keys here, and all keys fit in one of the       *)
(* groups of ten that group_list makes for single-key calls.               *)
(***************************************************************************)
EXTENDS Integers, FiniteSets

CONSTANTS
    Keys,            \* the keys one checker may ever write
    MAX_KVS,         \* tracked keys after which the checker starts again
    MaxCorrupted     \* keys the store may lose or bring back by itself

ASSUME KeysAssumption == IsFiniteSet(Keys)
ASSUME MaxKvsAssumption == MAX_KVS \in Nat \ {0}
ASSUME CorruptedAssumption == MaxCorrupted \in Nat

VARIABLES
    store,           \* the keys the cluster holds
    late,            \* writes the client gave up, and the cluster may still do
    kvs,             \* keys known to be set
    deleted_kvs,     \* keys known to be deleted
    round,           \* what checker_key_value is doing
    calls,           \* the calls that are awaited
    coroutine,       \* what the coroutine of multi-key calls is doing
    todo,            \* its keys of the groups still to come
    used,            \* keys written so far: a key holds the time of its write
    corrupted,       \* keys the store changed by itself
    reported,        \* keys logged as INCONSISTENT
    due              \* tracked keys that were wrong when the reads started

storeVars == <<store, late>>
roundVars == <<round, coroutine, todo>>
vars == <<storeVars, kvs, deleted_kvs, roundVars, calls, used, corrupted,
          reported, due>>

MultiOps == {"mget", "mget_deleted", "del_multi"}
Ops == {"set", "mset", "get", "del"} \union MultiOps
WriteOps == {"set", "mset", "del", "del_multi"}

(* An awaited call, and what its keys held if it was a read and is done.   *)
Call(op, ks) == [op |-> op, keys |-> ks, done |-> FALSE, found |-> {}]

Singles(op, ks) == {Call(op, {k}) : k \in ks}

Init ==
    /\ store = {} /\ late = {}
    /\ kvs = {} /\ deleted_kvs = {}
    /\ round = "idle" /\ coroutine = "none" /\ todo = {}
    /\ calls = {}
    /\ used = {} /\ corrupted = {} /\ reported = {} /\ due = {}

-----------------------------------------------------------------------------
(* The cluster *)

Effect(op, ks) ==
    CASE op \in {"set", "mset"} -> store \union ks
      [] op \in {"del", "del_multi"} -> store \ ks
      [] OTHER -> store

Serve(c) ==
    /\ ~c.done
    /\ calls' = (calls \ {c}) \union
                  {[c EXCEPT !.done = TRUE, !.found = c.keys \intersect store]}
    /\ store' = Effect(c.op, c.keys)
    /\ UNCHANGED <<late, kvs, deleted_kvs, roundVars, used, corrupted, reported, due>>

ServeLate(c) ==
    /\ store' = Effect(c.op, c.keys)
    /\ late' = late \ {c}
    /\ UNCHANGED <<kvs, deleted_kvs, roundVars, calls, used, corrupted, reported, due>>

(* A lost or a resurrected key: what the chaos test is there to find.      *)
Corrupt(k) ==
    /\ k \in used \ corrupted
    /\ Cardinality(corrupted) < MaxCorrupted
    /\ corrupted' = corrupted \union {k}
    /\ store' = IF k \in store THEN store \ {k} ELSE store \union {k}
    /\ UNCHANGED <<late, kvs, deleted_kvs, roundVars, calls, used, reported, due>>

-----------------------------------------------------------------------------
(* checker_key_value and loop_check *)

Full == Cardinality(kvs) >= MAX_KVS \/ Cardinality(deleted_kvs) >= MAX_KVS

(* check_set and check_mset *)
StartWrites(ks, ms) ==
    /\ round = "idle" /\ ~Full
    /\ ks # {} /\ ms # {} /\ ks \intersect ms = {}
    /\ (ks \union ms) \intersect used = {}
    /\ round' = "writes"
    /\ calls' = Singles("set", ks) \union {Call("mset", ms)}
    /\ used' = used \union ks \union ms
    /\ UNCHANGED <<storeVars, kvs, deleted_kvs, coroutine, todo, corrupted, reported, due>>

(* check_get and check_mget *)
StartReads ==
    /\ round = "idle" /\ ~Full
    /\ round' = "reads"
    /\ calls' = Singles("get", kvs)
    /\ coroutine' = "mget"
    /\ todo' = kvs
    /\ due' = (kvs \ store) \union (deleted_kvs \intersect store)
    /\ UNCHANGED <<storeVars, kvs, deleted_kvs, used, corrupted, reported>>

(* Mutant: deletes keys that stay in kvs, without pop. *)
StartDeletesUnpopped(ks, ms) ==
    /\ round = "idle" /\ ~Full
    /\ ks \intersect ms = {} /\ ks \union ms \subseteq kvs
    /\ round' = "deletes"
    /\ calls' = Singles("del", ks)
    /\ coroutine' = "del_multi"
    /\ todo' = ms
    /\ UNCHANGED <<storeVars, kvs, deleted_kvs, used, corrupted, reported, due>>

(* Keys are popped from kvs, for check_del_keys and check_del_multi_keys.  *)
StartDeletes(ks, ms) ==
    /\ round = "idle" /\ ~Full
    /\ ks \intersect ms = {} /\ ks \union ms \subseteq kvs
    /\ round' = "deletes"
    /\ kvs' = kvs \ (ks \union ms)
    /\ calls' = Singles("del", ks)
    /\ coroutine' = "del_multi"
    /\ todo' = ms
    /\ UNCHANGED <<storeVars, deleted_kvs, used, corrupted, reported, due>>

(* loop_check: too many keys, it deletes those it knows.                   *)
StartLastDeletes ==
    /\ round = "idle" /\ Full
    /\ round' = "last"
    /\ calls' = Singles("del", kvs)
    /\ UNCHANGED <<storeVars, kvs, deleted_kvs, coroutine, todo, used, corrupted, reported, due>>

(* Both coroutines have ended.  run_one_checker starts a new checker after *)
(* the last deletes.                                                       *)
RoundEnds ==
    /\ round # "idle" /\ calls = {} /\ coroutine = "none"
    /\ round' = "idle"
    /\ kvs' = IF round = "last" THEN {} ELSE kvs
    /\ deleted_kvs' = IF round = "last" THEN {} ELSE deleted_kvs
    /\ UNCHANGED <<storeVars, coroutine, todo, calls, used, corrupted, reported, due>>

-----------------------------------------------------------------------------
(* check_mget and check_del_multi_keys *)

Between == coroutine # "none" /\ \A c \in calls : c.op \notin MultiOps

(* group_by_slot yields the next group.                                    *)
NextGroup(ks) ==
    /\ Between
    /\ ks # {} /\ ks \subseteq todo
    /\ calls' = calls \union {Call(coroutine, ks)}
    /\ todo' = todo \ ks
    /\ UNCHANGED <<storeVars, kvs, deleted_kvs, round, coroutine, used, corrupted, reported, due>>

(* check_mget turns to the deleted keys; a coroutine without keys ends.    *)
GroupsDone ==
    /\ Between
    /\ todo = {}
    /\ coroutine' = IF coroutine = "mget" THEN "mget_deleted" ELSE "none"
    /\ todo' = IF coroutine = "mget" THEN deleted_kvs ELSE {}
    /\ UNCHANGED <<storeVars, kvs, deleted_kvs, round, calls, used, corrupted, reported, due>>

-----------------------------------------------------------------------------
(* The end of a call *)

Return(c) == c.done /\ calls' = calls \ {c}

Report(ks) ==
    /\ reported' = reported \union ks
    /\ due' = due \ ks

(* check_set_single_key and check_mset *)
SetReturns(c) ==
    /\ c.op \in {"set", "mset"} /\ Return(c)
    /\ kvs' = kvs \union c.keys
    /\ deleted_kvs' = deleted_kvs \ c.keys
    /\ UNCHANGED <<storeVars, roundVars, used, corrupted, reported, due>>

(* check_get_single_key and the first loop of check_mget *)
GetReturns(c) ==
    /\ c.op \in {"get", "mget"} /\ Return(c)
    /\ Report(c.keys \ c.found)
    /\ kvs' = kvs \ (c.keys \ c.found)
    /\ UNCHANGED <<storeVars, deleted_kvs, roundVars, used, corrupted>>

(* Mutant: a deleted key that is back stays among the deleted ones, too. *)
DeletedReturnsKept(c) ==
    /\ c.op = "mget_deleted" /\ Return(c)
    /\ Report(c.found)
    /\ kvs' = kvs \union c.found
    /\ UNCHANGED <<storeVars, deleted_kvs, roundVars, used, corrupted>>

(* The second loop of check_mget: a deleted key that is back is tracked as *)
(* a key.                                                                  *)
DeletedReturns(c) ==
    /\ c.op = "mget_deleted" /\ Return(c)
    /\ Report(c.found)
    /\ deleted_kvs' = deleted_kvs \ c.found
    /\ kvs' = kvs \union c.found
    /\ UNCHANGED <<storeVars, roundVars, used, corrupted>>

(* check_del_multi_keys *)
DelReturns(c) ==
    /\ c.op \in {"del", "del_multi"} /\ Return(c)
    /\ kvs' = kvs \ c.keys
    /\ deleted_kvs' = deleted_kvs \union c.keys
    /\ UNCHANGED <<storeVars, roundVars, used, corrupted, reported, due>>

(* Mutant: a failed mget is the end of check_mget. *)
CallFailsEndsReads(c) ==
    /\ calls' = calls \ {c}
    /\ late' = IF c.op \in WriteOps /\ ~c.done THEN late \union {c} ELSE late
    /\ due' = due \ c.keys
    /\ todo' = IF c.op = "mget" THEN {} ELSE todo
    /\ coroutine' = IF c.op = "mget" THEN "none" ELSE coroutine
    /\ UNCHANGED <<store, kvs, deleted_kvs, round, used, corrupted, reported>>

(* Mutant: a write whose outcome is unknown is taken for done. *)
CallFailsTracked(c) ==
    /\ calls' = calls \ {c}
    /\ late' = IF c.op \in WriteOps /\ ~c.done THEN late \union {c} ELSE late
    /\ due' = due \ c.keys
    /\ kvs' = IF c.op \in {"set", "mset"} THEN kvs \union c.keys ELSE kvs
    /\ UNCHANGED <<store, deleted_kvs, roundVars, used, corrupted, reported>>

(* A time-out or an error, with the write done, still to come or lost: it  *)
(* is counted and the keys are left as they are.                           *)
CallFails(c) ==
    /\ calls' = calls \ {c}
    /\ late' = IF c.op \in WriteOps /\ ~c.done THEN late \union {c} ELSE late
    /\ due' = due \ c.keys
    /\ UNCHANGED <<store, kvs, deleted_kvs, roundVars, used, corrupted, reported>>

-----------------------------------------------------------------------------
Cluster ==
    \/ \E c \in calls : Serve(c)
    \/ \E c \in late : ServeLate(c)
    \/ \E k \in Keys : Corrupt(k)

StartRound ==
    \/ \E ks, ms \in SUBSET Keys : StartWrites(ks, ms) \/ StartDeletes(ks, ms)
    \/ StartReads
    \/ StartLastDeletes

CallEnds(c) ==
    \/ SetReturns(c)
    \/ GetReturns(c)
    \/ DeletedReturns(c)
    \/ DelReturns(c)
    \/ CallFails(c)

Next ==
    \/ Cluster
    \/ StartRound
    \/ \E ks \in SUBSET Keys : NextGroup(ks)
    \/ GroupsDone
    \/ \E c \in calls : CallEnds(c)
    \/ RoundEnds

Spec == Init /\ [][Next]_vars

-----------------------------------------------------------------------------
(* Properties *)

CallType == [op : Ops, keys : SUBSET Keys, done : BOOLEAN, found : SUBSET Keys]

(* The types of the variables. *)
TypeOK ==
    /\ store \subseteq Keys
    /\ late \subseteq CallType
    /\ kvs \subseteq used
    /\ deleted_kvs \subseteq used \ kvs
    /\ round \in {"idle", "writes", "reads", "deletes", "last"}
    /\ calls \subseteq CallType
    /\ coroutine \in MultiOps \union {"none"}
    /\ todo \subseteq Keys
    /\ used \subseteq Keys
    /\ corrupted \subseteq Keys
    /\ reported \subseteq Keys
    /\ due \subseteq Keys

(* checker_key_value logs INCONSISTENT only for keys the store changed by  *)
(* itself: no time-out, lost reply or late effect of a SET, MSET or DEL,   *)
(* and no order of the concurrent calls, makes a false alarm.              *)
NoFalseAlarm == reported \subseteq corrupted

(* A round of check_get and check_mget logs every tracked key that was     *)
(* wrong when it started, unless a call for that very key failed: the      *)
(* failure of one group does not hide what other groups would show.        *)
ReadsMissNothing == round = "idle" => due = {}
=============================================================================
