-------------------------- MODULE KeyCheckerProofs --------------------------
(* TLAPS proofs about KeyChecker, for any keys and bounds.                 *)
EXTENDS KeyChecker, TLAPS

SetOps == {"set", "mset"}
GetOps == {"get", "mget"}
DelOps == {"del", "del_multi"}

(* What a round awaits.                                                    *)
RoundInv ==
    /\ round = "idle" => calls = {} /\ coroutine = "none"
    /\ round = "writes" => coroutine = "none" /\ \A c \in calls : c.op \in SetOps
    /\ round = "reads" =>
         /\ coroutine \in {"mget", "mget_deleted", "none"}
         /\ \A c \in calls : c.op \in GetOps \union {"mget_deleted"}
    /\ round = "deletes" =>
         /\ coroutine \in {"del_multi", "none"}
         /\ \A c \in calls : c.op \in DelOps
    /\ round = "last" => coroutine = "none" /\ \A c \in calls : c.op \in DelOps
    /\ coroutine = "none" => todo = {}

(* Only keys written before are tracked, awaited or still to be written.   *)
UsedInv ==
    /\ todo \subseteq used
    /\ \A c \in calls : c.keys \subseteq used /\ c.found \subseteq c.keys
    /\ \A w \in late : w.keys \subseteq used

(* What the checker believes of its keys is right but for the store's own  *)
(* faults, and no write that is late concerns a key it has a belief about. *)
TrackInv ==
    /\ kvs \ corrupted \subseteq store
    /\ deleted_kvs \intersect store \subseteq corrupted
    /\ \A w \in late : w.keys \intersect (kvs \union deleted_kvs \union todo) = {}
    /\ \A w \in late, c \in calls : w.keys \intersect c.keys = {}

(* What a call finds and has done is right.                                *)
CallInv(c) ==
    /\ c.op \in GetOps =>
         /\ c.keys \ corrupted \subseteq store
         /\ c.done => c.keys \ c.found \subseteq corrupted
    /\ c.op = "mget_deleted" =>
         /\ c.keys \intersect store \subseteq corrupted
         /\ c.done => c.found \subseteq corrupted
    /\ c.op \in SetOps /\ c.done => c.keys \ corrupted \subseteq store
    /\ c.op \in DelOps /\ c.done => c.keys \intersect store \subseteq corrupted

TodoInv ==
    /\ coroutine = "mget" => todo \ corrupted \subseteq store
    /\ coroutine = "mget_deleted" => todo \intersect store \subseteq corrupted

(* Keys that are being written are in one call, and not tracked.           *)
WritesInv ==
    round \in {"writes", "deletes"} =>
        /\ \A c, d \in calls : c # d => c.keys \intersect d.keys = {}
        /\ \A c \in calls : c.keys \intersect (kvs \union deleted_kvs \union todo) = {}
        /\ todo \intersect (kvs \union deleted_kvs) = {}

(* The last deletes do not pop their keys, but nothing is read any more.   *)
KnownInv ==
    round # "last" =>
        /\ TrackInv
        /\ \A c \in calls : CallInv(c)
        /\ TodoInv
        /\ WritesInv

(* A key that was wrong when the reads started stays so, and the read that *)
(* will show it is still to come or awaited: the GET of a key that is      *)
(* gone, the second loop of check_mget for a deleted one that is back.     *)
DueInv ==
    /\ round # "reads" => due = {}
    /\ due \subseteq corrupted
    /\ \A k \in due :
          \/ /\ k \notin store
             /\ \E c \in calls : c.op = "get" /\ c.keys = {k} /\ k \notin c.found
          \/ /\ k \in deleted_kvs \intersect store
             /\ \/ coroutine = "mget"
                \/ coroutine = "mget_deleted" /\ k \in todo
                \/ \E c \in calls : /\ c.op = "mget_deleted" /\ k \in c.keys
                                    /\ c.done => k \in c.found

CheckerInv == TypeOK /\ RoundInv /\ UsedInv /\ KnownInv /\ NoFalseAlarm /\ DueInv

USE DEF SetOps, GetOps, DelOps, MultiOps, WriteOps

(* The invariant holds when the checker starts. *)
LEMMA CheckerInit == Init => CheckerInv
  BY DEF Init, CheckerInv, TypeOK, RoundInv, UsedInv, KnownInv, TrackInv,
         CallInv, TodoInv, WritesInv, NoFalseAlarm, DueInv, CallType

(* The calls of check_get, check_set and check_del_keys, one for each key. *)
LEMMA SingleCall ==
    \A op \in Ops : \A ks \in SUBSET Keys :
        /\ Singles(op, ks) \subseteq CallType
        /\ \A c \in Singles(op, ks) :
              /\ c.op = op /\ c.done = FALSE /\ c.found = {}
              /\ \E k \in ks : c.keys = {k}
        /\ \A c, d \in Singles(op, ks) : c # d => c.keys \intersect d.keys = {}
<1> TAKE op \in Ops
<1> TAKE ks \in SUBSET Keys
<1> DEFINE cs == Singles(op, ks)
           R(k) == [op |-> op, keys |-> {k}, done |-> FALSE, found |-> {}]
<1>1. \A c \in cs : \E k \in ks : c = R(k)
  BY DEF Singles, Call
<1> HIDE DEF cs
<1>2. ASSUME NEW c \in cs
      PROVE  /\ c \in CallType
             /\ c.op = op /\ c.done = FALSE /\ c.found = {}
             /\ \E k \in ks : c.keys = {k}
  <2>1. PICK k \in ks : c = R(k)
    BY <1>1
  <2> QED
    BY <2>1 DEF CallType
<1>3. ASSUME NEW c \in cs, NEW d \in cs, c # d
      PROVE  c.keys \intersect d.keys = {}
  <2>1. PICK k \in ks : c = R(k)
    BY <1>1
  <2>2. PICK l \in ks : d = R(l)
    BY <1>1
  <2>3. k # l
    BY <1>3, <2>1, <2>2
  <2> QED
    BY <2>1, <2>2, <2>3
<1> QED
  BY <1>2, <1>3 DEF cs

(* The calls that check_set and check_mset send. *)
LEMMA WriteCalls ==
    ASSUME NEW ks \in SUBSET Keys, NEW ms \in SUBSET Keys, StartWrites(ks, ms)
    PROVE  /\ calls' \subseteq CallType
           /\ \A c \in calls' : /\ c.op \in SetOps /\ c.done = FALSE /\ c.found = {}
                                /\ c.keys \subseteq ks \union ms
           /\ \A c, d \in calls' : c # d => c.keys \intersect d.keys = {}
<1> DEFINE cs == Singles("set", ks)
           g == Call("mset", ms)
<1>1. "set" \in Ops
  BY DEF Ops
<1>2. /\ cs \subseteq CallType
      /\ \A c \in cs : /\ c.op = "set" /\ c.done = FALSE /\ c.found = {}
                        /\ \E k \in ks : c.keys = {k}
      /\ \A c, d \in cs : c # d => c.keys \intersect d.keys = {}
  BY <1>1, SingleCall, Zenon
<1>3. g \in CallType /\ g.op = "mset" /\ g.done = FALSE /\ g.found = {} /\ g.keys = ms
  BY DEF Call, CallType, Ops
<1>4. calls' = cs \union {g} /\ ks \intersect ms = {}
  BY DEF StartWrites
<1> HIDE DEF cs, g
<1> QED
  BY <1>2, <1>3, <1>4

(* The calls that check_del_keys sends. *)
LEMMA DeleteCalls ==
    ASSUME NEW ks \in SUBSET Keys, NEW ms \in SUBSET Keys, StartDeletes(ks, ms)
    PROVE  /\ calls' \subseteq CallType
           /\ \A c \in calls' : /\ c.op = "del" /\ c.done = FALSE /\ c.found = {}
                                /\ c.keys \subseteq ks
           /\ \A c, d \in calls' : c # d => c.keys \intersect d.keys = {}
<1>1. "del" \in Ops /\ calls' = Singles("del", ks)
  BY DEF StartDeletes, Ops
<1> DEFINE cs == Singles("del", ks)
<1>2. /\ cs \subseteq CallType
      /\ \A c \in cs : /\ c.op = "del" /\ c.done = FALSE /\ c.found = {}
                        /\ \E k \in ks : c.keys = {k}
      /\ \A c, d \in cs : c # d => c.keys \intersect d.keys = {}
  BY <1>1, SingleCall, Zenon
<1>3. calls' = cs
  BY <1>1
<1> HIDE DEF cs
<1> QED
  BY <1>2, <1>3

(* The calls that check_get sends. *)
LEMMA ReadCalls ==
    ASSUME TypeOK, StartReads
    PROVE  /\ calls' \subseteq CallType
           /\ \A c \in calls' : /\ c.op = "get" /\ c.done = FALSE /\ c.found = {}
                                /\ c.keys \subseteq kvs
<1>1. "get" \in Ops /\ kvs \in SUBSET Keys /\ calls' = Singles("get", kvs)
  BY DEF TypeOK, StartReads, Ops
<1> DEFINE cs == Singles("get", kvs)
<1>2. /\ cs \subseteq CallType
      /\ \A c \in cs : /\ c.op = "get" /\ c.done = FALSE /\ c.found = {}
                        /\ \E k \in kvs : c.keys = {k}
      /\ \A c, d \in cs : c # d => c.keys \intersect d.keys = {}
  BY <1>1, SingleCall, Zenon
<1>3. calls' = cs
  BY <1>1
<1> HIDE DEF cs
<1> QED
  BY <1>2, <1>3

(* Every key that should be there is read by a GET of its own. *)
LEMMA ReadCallOf ==
    ASSUME StartReads, NEW k \in kvs
    PROVE  \E c \in calls' : c.op = "get" /\ c.keys = {k} /\ c.found = {}
<1>1. Call("get", {k}) \in calls'
  BY DEF StartReads, Singles
<1> QED
  BY <1>1 DEF Call

(* The calls that loop_check sends at its end. *)
LEMMA LastCalls ==
    ASSUME TypeOK, StartLastDeletes
    PROVE  /\ calls' \subseteq CallType
           /\ \A c \in calls' : /\ c.op = "del" /\ c.done = FALSE /\ c.found = {}
                                /\ c.keys \subseteq kvs
<1>1. "del" \in Ops /\ kvs \in SUBSET Keys /\ calls' = Singles("del", kvs)
  BY DEF TypeOK, StartLastDeletes, Ops
<1> DEFINE cs == Singles("del", kvs)
<1>2. /\ cs \subseteq CallType
      /\ \A c \in cs : /\ c.op = "del" /\ c.done = FALSE /\ c.found = {}
                        /\ \E k \in kvs : c.keys = {k}
      /\ \A c, d \in cs : c # d => c.keys \intersect d.keys = {}
  BY <1>1, SingleCall, Zenon
<1>3. calls' = cs
  BY <1>1
<1> HIDE DEF cs
<1> QED
  BY <1>2, <1>3

(* The call for the next group of keys. *)
LEMMA GroupCall ==
    ASSUME TypeOK, NEW ks \in SUBSET Keys, NextGroup(ks)
    PROVE  \E g \in CallType :
              /\ calls' = calls \union {g}
              /\ g.op = coroutine /\ g.done = FALSE /\ g.found = {} /\ g.keys = ks
<1>1. coroutine \in Ops
  BY DEF TypeOK, NextGroup, Between, Ops
<1>2. Call(coroutine, ks) \in CallType
  BY <1>1 DEF Call, CallType
<1>3. /\ Call(coroutine, ks).op = coroutine
      /\ Call(coroutine, ks).done = FALSE
      /\ Call(coroutine, ks).found = {}
      /\ Call(coroutine, ks).keys = ks
  BY DEF Call
<1>4. calls' = calls \union {Call(coroutine, ks)}
  BY DEF NextGroup
<1> QED
  BY <1>2, <1>3, <1>4, Zenon

(* A call that is served stays the same call, with what it found. *)
LEMMA ServedCall ==
    ASSUME TypeOK, NEW c \in calls, Serve(c)
    PROVE  \E e \in CallType :
              /\ calls' = (calls \ {c}) \union {e}
              /\ e.op = c.op /\ e.keys = c.keys /\ e.done = TRUE
              /\ e.found = c.keys \intersect store
<1> DEFINE e == [c EXCEPT !.done = TRUE, !.found = c.keys \intersect store]
<1>1. c \in CallType
  BY DEF TypeOK
<1>2. e \in CallType /\ e.op = c.op /\ e.keys = c.keys /\ e.done = TRUE
        /\ e.found = c.keys \intersect store
  BY <1>1, Zenon DEF CallType
<1>3. calls' = (calls \ {c}) \union {e}
  BY DEF Serve
<1> HIDE DEF e
<1> QED
  BY <1>2, <1>3

(* Types are kept, given that awaited keys were used. *)
LEMMA TypeStep == TypeOK /\ UsedInv /\ [Next]_vars => TypeOK'
<1> SUFFICES ASSUME TypeOK, UsedInv, [Next]_vars PROVE TypeOK'
  OBVIOUS
<1> USE DEF TypeOK, UsedInv, CallType, storeVars, roundVars
<1>1. ASSUME NEW c \in calls, Serve(c)
      PROVE  TypeOK'
  <2>1. PICK e \in CallType :
            /\ calls' = (calls \ {c}) \union {e}
            /\ e.op = c.op /\ e.keys = c.keys /\ e.done = TRUE
            /\ e.found = c.keys \intersect store
    BY <1>1, ServedCall
  <2> QED
    BY <1>1, <2>1 DEF Serve, Effect
<1>2. ASSUME NEW c \in late, ServeLate(c)
      PROVE  TypeOK'
  BY <1>2 DEF ServeLate, Effect
<1>3. ASSUME NEW k \in Keys, Corrupt(k)
      PROVE  TypeOK'
  BY <1>3 DEF Corrupt
<1>4. ASSUME NEW ks \in SUBSET Keys, NEW ms \in SUBSET Keys, StartWrites(ks, ms)
      PROVE  TypeOK'
  BY <1>4, WriteCalls DEF StartWrites
<1>5. ASSUME NEW ks \in SUBSET Keys, NEW ms \in SUBSET Keys, StartDeletes(ks, ms)
      PROVE  TypeOK'
  BY <1>5, DeleteCalls DEF StartDeletes
<1>6. CASE StartReads
  BY <1>6, ReadCalls DEF StartReads
<1>7. CASE StartLastDeletes
  BY <1>7, LastCalls DEF StartLastDeletes
<1>8. ASSUME NEW ks \in SUBSET Keys, NextGroup(ks)
      PROVE  TypeOK'
  <2>1. PICK g \in CallType :
            /\ calls' = calls \union {g}
            /\ g.op = coroutine /\ g.done = FALSE /\ g.found = {} /\ g.keys = ks
    BY <1>8, GroupCall
  <2> QED
    BY <1>8, <2>1 DEF NextGroup, Between
<1>9. CASE GroupsDone
  BY <1>9 DEF GroupsDone, Between
<1>10. CASE RoundEnds
  BY <1>10 DEF RoundEnds
<1>11. ASSUME NEW c \in calls, SetReturns(c)
      PROVE  TypeOK'
  BY <1>11 DEF SetReturns, Return
<1>12. ASSUME NEW c \in calls, GetReturns(c)
      PROVE  TypeOK'
  BY <1>12 DEF GetReturns, Return, Report
<1>13. ASSUME NEW c \in calls, DeletedReturns(c)
      PROVE  TypeOK'
  BY <1>13 DEF DeletedReturns, Return, Report
<1>14. ASSUME NEW c \in calls, DelReturns(c)
      PROVE  TypeOK'
  BY <1>14 DEF DelReturns, Return
<1>15. ASSUME NEW c \in calls, CallFails(c)
      PROVE  TypeOK'
  BY <1>15 DEF CallFails
<1>16. CASE UNCHANGED vars
  BY <1>16 DEF vars
<1> QED
  BY <1>1, <1>2, <1>3, <1>4, <1>5, <1>6, <1>7, <1>8, <1>9, <1>10, <1>11, <1>12, <1>13, <1>14, <1>15, <1>16
  DEF Next, Cluster, StartRound, CallEnds

(* Each round keeps to its own kind of calls. *)
LEMMA RoundStep == TypeOK /\ RoundInv /\ [Next]_vars => RoundInv'
<1> SUFFICES ASSUME TypeOK, RoundInv, [Next]_vars PROVE RoundInv'
  OBVIOUS
<1> USE DEF TypeOK, RoundInv, CallType, storeVars, roundVars
<1>1. ASSUME NEW c \in calls, Serve(c)
      PROVE  RoundInv'
  <2>1. PICK e \in CallType :
            /\ calls' = (calls \ {c}) \union {e}
            /\ e.op = c.op /\ e.keys = c.keys /\ e.done = TRUE
            /\ e.found = c.keys \intersect store
    BY <1>1, ServedCall
  <2> QED
    BY <1>1, <2>1 DEF Serve, Effect
<1>2. ASSUME NEW c \in late, ServeLate(c)
      PROVE  RoundInv'
  BY <1>2 DEF ServeLate, Effect
<1>3. ASSUME NEW k \in Keys, Corrupt(k)
      PROVE  RoundInv'
  BY <1>3 DEF Corrupt
<1>4. ASSUME NEW ks \in SUBSET Keys, NEW ms \in SUBSET Keys, StartWrites(ks, ms)
      PROVE  RoundInv'
  BY <1>4, WriteCalls DEF StartWrites
<1>5. ASSUME NEW ks \in SUBSET Keys, NEW ms \in SUBSET Keys, StartDeletes(ks, ms)
      PROVE  RoundInv'
  BY <1>5, DeleteCalls DEF StartDeletes
<1>6. CASE StartReads
  BY <1>6, ReadCalls DEF StartReads
<1>7. CASE StartLastDeletes
  BY <1>7, LastCalls DEF StartLastDeletes
<1>8. ASSUME NEW ks \in SUBSET Keys, NextGroup(ks)
      PROVE  RoundInv'
  <2>1. PICK g \in CallType :
            /\ calls' = calls \union {g}
            /\ g.op = coroutine /\ g.done = FALSE /\ g.found = {} /\ g.keys = ks
    BY <1>8, GroupCall
  <2> QED
    BY <1>8, <2>1 DEF NextGroup, Between
<1>9. CASE GroupsDone
  BY <1>9 DEF GroupsDone, Between
<1>10. CASE RoundEnds
  BY <1>10 DEF RoundEnds
<1>11. ASSUME NEW c \in calls, SetReturns(c)
      PROVE  RoundInv'
  BY <1>11 DEF SetReturns, Return
<1>12. ASSUME NEW c \in calls, GetReturns(c)
      PROVE  RoundInv'
  BY <1>12 DEF GetReturns, Return, Report
<1>13. ASSUME NEW c \in calls, DeletedReturns(c)
      PROVE  RoundInv'
  BY <1>13 DEF DeletedReturns, Return, Report
<1>14. ASSUME NEW c \in calls, DelReturns(c)
      PROVE  RoundInv'
  BY <1>14 DEF DelReturns, Return
<1>15. ASSUME NEW c \in calls, CallFails(c)
      PROVE  RoundInv'
  BY <1>15 DEF CallFails
<1>16. CASE UNCHANGED vars
  BY <1>16 DEF vars
<1> QED
  BY <1>1, <1>2, <1>3, <1>4, <1>5, <1>6, <1>7, <1>8, <1>9, <1>10, <1>11, <1>12, <1>13, <1>14, <1>15, <1>16
  DEF Next, Cluster, StartRound, CallEnds

(* Only keys written before are awaited. *)
LEMMA UsedStep == TypeOK /\ RoundInv /\ UsedInv /\ [Next]_vars => UsedInv'
<1> SUFFICES ASSUME TypeOK, RoundInv, UsedInv, [Next]_vars PROVE UsedInv'
  OBVIOUS
<1> USE DEF TypeOK, RoundInv, UsedInv, CallType, storeVars, roundVars
<1>1. ASSUME NEW c \in calls, Serve(c)
      PROVE  UsedInv'
  <2>1. PICK e \in CallType :
            /\ calls' = (calls \ {c}) \union {e}
            /\ e.op = c.op /\ e.keys = c.keys /\ e.done = TRUE
            /\ e.found = c.keys \intersect store
    BY <1>1, ServedCall
  <2> QED
    BY <1>1, <2>1 DEF Serve, Effect
<1>2. ASSUME NEW c \in late, ServeLate(c)
      PROVE  UsedInv'
  BY <1>2 DEF ServeLate, Effect
<1>3. ASSUME NEW k \in Keys, Corrupt(k)
      PROVE  UsedInv'
  BY <1>3 DEF Corrupt
<1>4. ASSUME NEW ks \in SUBSET Keys, NEW ms \in SUBSET Keys, StartWrites(ks, ms)
      PROVE  UsedInv'
  <2>1. \A c \in calls' : c.found = {} /\ c.keys \subseteq ks \union ms
    BY <1>4, WriteCalls
  <2>2. /\ used' = used \union ks \union ms
        /\ todo' = todo
        /\ late' = late
    BY <1>4 DEF StartWrites
  <2>3. todo' \subseteq used'
    BY <2>2
  <2>4. \A c \in calls' : c.keys \subseteq used' /\ c.found \subseteq c.keys
    BY <2>1, <2>2
  <2>5. \A w \in late' : w.keys \subseteq used'
    BY <2>2
  <2> QED
    BY <2>3, <2>4, <2>5
<1>5. ASSUME NEW ks \in SUBSET Keys, NEW ms \in SUBSET Keys, StartDeletes(ks, ms)
      PROVE  UsedInv'
  BY <1>5, DeleteCalls DEF StartDeletes
<1>6. CASE StartReads
  BY <1>6, ReadCalls DEF StartReads
<1>7. CASE StartLastDeletes
  BY <1>7, LastCalls DEF StartLastDeletes
<1>8. ASSUME NEW ks \in SUBSET Keys, NextGroup(ks)
      PROVE  UsedInv'
  <2>1. PICK g \in CallType :
            /\ calls' = calls \union {g}
            /\ g.op = coroutine /\ g.done = FALSE /\ g.found = {} /\ g.keys = ks
    BY <1>8, GroupCall
  <2> QED
    BY <1>8, <2>1 DEF NextGroup, Between
<1>9. CASE GroupsDone
  BY <1>9 DEF GroupsDone, Between
<1>10. CASE RoundEnds
  BY <1>10 DEF RoundEnds
<1>11. ASSUME NEW c \in calls, SetReturns(c)
      PROVE  UsedInv'
  BY <1>11 DEF SetReturns, Return
<1>12. ASSUME NEW c \in calls, GetReturns(c)
      PROVE  UsedInv'
  BY <1>12 DEF GetReturns, Return, Report
<1>13. ASSUME NEW c \in calls, DeletedReturns(c)
      PROVE  UsedInv'
  BY <1>13 DEF DeletedReturns, Return, Report
<1>14. ASSUME NEW c \in calls, DelReturns(c)
      PROVE  UsedInv'
  BY <1>14 DEF DelReturns, Return
<1>15. ASSUME NEW c \in calls, CallFails(c)
      PROVE  UsedInv'
  BY <1>15 DEF CallFails
<1>16. CASE UNCHANGED vars
  BY <1>16 DEF vars
<1> QED
  BY <1>1, <1>2, <1>3, <1>4, <1>5, <1>6, <1>7, <1>8, <1>9, <1>10, <1>11, <1>12, <1>13, <1>14, <1>15, <1>16
  DEF Next, Cluster, StartRound, CallEnds

(* What a call does to the store: only its own keys change. *)
LEMMA EffectOf ==
    ASSUME NEW op, NEW ks
    PROVE  /\ op \in SetOps => Effect(op, ks) = store \union ks
           /\ op \in DelOps => Effect(op, ks) = store \ ks
           /\ op \in GetOps \union {"mget_deleted"} => Effect(op, ks) = store
           /\ \A k : k \notin ks => (k \in Effect(op, ks) <=> k \in store)
<1>1. CASE op \in SetOps
  BY <1>1, Zenon DEF Effect
<1>2. CASE op \in DelOps /\ op \notin SetOps
  BY <1>2 DEF Effect
<1>3. CASE op \notin SetOps \union DelOps
  BY <1>3 DEF Effect
<1> QED
  BY <1>1, <1>2, <1>3

(* What the checker knows stays right: one case for each action, and under *)
(* it one step for each part. *)
LEMMA KnownStep ==
    TypeOK /\ RoundInv /\ UsedInv /\ KnownInv /\ [Next]_vars => KnownInv'
<1> SUFFICES ASSUME TypeOK, RoundInv, UsedInv, KnownInv, [Next]_vars, round' # "last"
             PROVE  TrackInv' /\ (\A d \in calls : CallInv(d))' /\ TodoInv' /\ WritesInv'
  BY DEF KnownInv
<1> USE DEF TypeOK, RoundInv, UsedInv, storeVars, roundVars
<1>1. ASSUME NEW c \in calls, Serve(c)
      PROVE  TrackInv' /\ (\A d \in calls : CallInv(d))' /\ TodoInv' /\ WritesInv'
  <2>1. TrackInv /\ (\A d \in calls : CallInv(d)) /\ TodoInv /\ WritesInv
    BY <1>1 DEF KnownInv, Serve, Effect
  <2>2. PICK e \in CallType :
            /\ calls' = (calls \ {c}) \union {e}
            /\ e.op = c.op /\ e.keys = c.keys /\ e.done = TRUE
            /\ e.found = c.keys \intersect store
    BY <1>1, ServedCall
  <2>3. /\ c.op \in SetOps => store' = store \union c.keys
        /\ c.op \in DelOps => store' = store \ c.keys
        /\ c.op \in GetOps \union {"mget_deleted"} => store' = store
    BY <1>1, EffectOf DEF Serve
  <2>4. TrackInv'
    BY <1>1, <2>1, <2>2, <2>3 DEF Serve, TrackInv, WritesInv
  <2>5. (\A d \in calls : CallInv(d))'
    BY <1>1, <2>1, <2>2, <2>3 DEF Serve, CallInv
  <2>6. TodoInv'
    BY <1>1, <2>1, <2>2, <2>3 DEF Serve, TodoInv
  <2>7. WritesInv'
    BY <1>1, <2>1, <2>2, <2>3 DEF Serve, WritesInv
  <2> QED
    BY <2>4, <2>5, <2>6, <2>7
<1>2. ASSUME NEW c \in late, ServeLate(c)
      PROVE  TrackInv' /\ (\A d \in calls : CallInv(d))' /\ TodoInv' /\ WritesInv'
  <2>1. TrackInv /\ (\A d \in calls : CallInv(d)) /\ TodoInv /\ WritesInv
    BY <1>2 DEF KnownInv, ServeLate, Effect
  <2>2. \A k : k \notin c.keys => (k \in store' <=> k \in store)
    BY <1>2, EffectOf DEF ServeLate
  <2>3. TrackInv'
    BY <1>2, <2>1, <2>2 DEF ServeLate, TrackInv
  <2>4. (\A d \in calls : CallInv(d))'
    BY <1>2, <2>1, <2>2 DEF ServeLate, TrackInv, CallInv
  <2>5. TodoInv'
    BY <1>2, <2>1, <2>2 DEF ServeLate, TrackInv, TodoInv
  <2>6. WritesInv'
    BY <1>2, <2>1, <2>2 DEF ServeLate, WritesInv
  <2> QED
    BY <2>3, <2>4, <2>5, <2>6
<1>3. ASSUME NEW k \in Keys, Corrupt(k)
      PROVE  TrackInv' /\ (\A d \in calls : CallInv(d))' /\ TodoInv' /\ WritesInv'
  <2>1. TrackInv /\ (\A d \in calls : CallInv(d)) /\ TodoInv /\ WritesInv
    BY <1>3 DEF KnownInv, Corrupt
  <2>2. TrackInv'
    BY <1>3, <2>1 DEF Corrupt, TrackInv
  <2>3. (\A d \in calls : CallInv(d))'
    BY <1>3, <2>1 DEF Corrupt, CallInv
  <2>4. TodoInv'
    BY <1>3, <2>1 DEF Corrupt, TodoInv
  <2>5. WritesInv'
    BY <1>3, <2>1 DEF Corrupt, WritesInv
  <2> QED
    BY <2>2, <2>3, <2>4, <2>5
<1>4. ASSUME NEW ks \in SUBSET Keys, NEW ms \in SUBSET Keys, StartWrites(ks, ms)
      PROVE  TrackInv' /\ (\A d \in calls : CallInv(d))' /\ TodoInv' /\ WritesInv'
  <2>1. TrackInv /\ (\A d \in calls : CallInv(d)) /\ TodoInv /\ WritesInv
    BY <1>4 DEF KnownInv, StartWrites
  <2>2. \A c \in calls' : c.op \in SetOps /\ c.done = FALSE /\ c.keys \subseteq ks \union ms
    BY <1>4, WriteCalls
  <2>3. \A c, d \in calls' : c # d => c.keys \intersect d.keys = {}
    BY <1>4, WriteCalls
  <2>4. TrackInv'
    BY <1>4, <2>1, <2>2, <2>3 DEF StartWrites, TrackInv
  <2>5. (\A d \in calls : CallInv(d))'
    BY <1>4, <2>1, <2>2, <2>3 DEF StartWrites, CallInv
  <2>6. TodoInv'
    BY <1>4, <2>1, <2>2, <2>3 DEF StartWrites, TodoInv
  <2>7. WritesInv'
    BY <1>4, <2>1, <2>2, <2>3 DEF StartWrites, WritesInv
  <2> QED
    BY <2>4, <2>5, <2>6, <2>7
<1>5. ASSUME NEW ks \in SUBSET Keys, NEW ms \in SUBSET Keys, StartDeletes(ks, ms)
      PROVE  TrackInv' /\ (\A d \in calls : CallInv(d))' /\ TodoInv' /\ WritesInv'
  <2>1. TrackInv /\ (\A d \in calls : CallInv(d)) /\ TodoInv /\ WritesInv
    BY <1>5 DEF KnownInv, StartDeletes
  <2>2. \A c \in calls' : c.op = "del" /\ c.done = FALSE /\ c.keys \subseteq ks
    BY <1>5, DeleteCalls
  <2>3. \A c, d \in calls' : c # d => c.keys \intersect d.keys = {}
    BY <1>5, DeleteCalls
  <2>4. TrackInv'
    BY <1>5, <2>1, <2>2, <2>3 DEF StartDeletes, TrackInv
  <2>5. (\A d \in calls : CallInv(d))'
    BY <1>5, <2>1, <2>2, <2>3 DEF StartDeletes, CallInv
  <2>6. TodoInv'
    BY <1>5, <2>1, <2>2, <2>3 DEF StartDeletes, TodoInv
  <2>7. WritesInv'
    BY <1>5, <2>1, <2>2, <2>3 DEF StartDeletes, WritesInv
  <2> QED
    BY <2>4, <2>5, <2>6, <2>7
<1>6. CASE StartReads
  <2>1. TrackInv /\ (\A d \in calls : CallInv(d)) /\ TodoInv /\ WritesInv
    BY <1>6 DEF KnownInv, StartReads
  <2>2. \A c \in calls' : c.op = "get" /\ c.done = FALSE /\ c.keys \subseteq kvs
    BY <1>6, ReadCalls
  <2>3. TrackInv'
    BY <1>6, <2>1, <2>2 DEF StartReads, TrackInv
  <2>4. (\A d \in calls : CallInv(d))'
    BY <1>6, <2>1, <2>2 DEF StartReads, TrackInv, CallInv
  <2>5. TodoInv'
    BY <1>6, <2>1, <2>2 DEF StartReads, TrackInv, TodoInv
  <2>6. WritesInv'
    BY <1>6, <2>1, <2>2 DEF StartReads, WritesInv
  <2> QED
    BY <2>3, <2>4, <2>5, <2>6
<1>7. CASE StartLastDeletes
  BY <1>7 DEF StartLastDeletes
<1>8. ASSUME NEW ks \in SUBSET Keys, NextGroup(ks)
      PROVE  TrackInv' /\ (\A d \in calls : CallInv(d))' /\ TodoInv' /\ WritesInv'
  <2>1. TrackInv /\ (\A d \in calls : CallInv(d)) /\ TodoInv /\ WritesInv
    BY <1>8 DEF KnownInv, NextGroup, Between
  <2>2. PICK g \in CallType :
            /\ calls' = calls \union {g}
            /\ g.op = coroutine /\ g.done = FALSE /\ g.found = {} /\ g.keys = ks
    BY <1>8, GroupCall
  <2>3. TrackInv'
    BY <1>8, <2>1, <2>2 DEF NextGroup, Between, TrackInv
  <2>4. (\A d \in calls : CallInv(d))'
    BY <1>8, <2>1, <2>2 DEF NextGroup, Between, CallInv, TodoInv
  <2>5. TodoInv'
    BY <1>8, <2>1, <2>2 DEF NextGroup, Between, TodoInv
  <2>6. WritesInv'
    BY <1>8, <2>1, <2>2 DEF NextGroup, Between, WritesInv
  <2> QED
    BY <2>3, <2>4, <2>5, <2>6
<1>9. CASE GroupsDone
  <2>1. TrackInv /\ (\A d \in calls : CallInv(d)) /\ TodoInv /\ WritesInv
    BY <1>9 DEF KnownInv, GroupsDone, Between
  <2>2. TrackInv'
    BY <1>9, <2>1 DEF GroupsDone, Between, TrackInv
  <2>3. (\A d \in calls : CallInv(d))'
    BY <1>9, <2>1 DEF GroupsDone, Between, CallInv
  <2>4. TodoInv'
    BY <1>9, <2>1 DEF GroupsDone, Between, TrackInv, TodoInv
  <2>5. WritesInv'
    BY <1>9, <2>1 DEF GroupsDone, Between, WritesInv
  <2> QED
    BY <2>2, <2>3, <2>4, <2>5
<1>10. CASE RoundEnds
  <2>1. CASE round = "last"
    BY <1>10, <2>1 DEF RoundEnds, TrackInv, CallInv, TodoInv, WritesInv
  <2>2. CASE round # "last"
    BY <1>10, <2>2 DEF RoundEnds, KnownInv, TrackInv, CallInv, TodoInv, WritesInv
  <2> QED
    BY <2>1, <2>2
<1>11. ASSUME NEW c \in calls, SetReturns(c)
      PROVE  TrackInv' /\ (\A d \in calls : CallInv(d))' /\ TodoInv' /\ WritesInv'
  <2>1. TrackInv /\ (\A d \in calls : CallInv(d)) /\ TodoInv /\ WritesInv
    BY <1>11 DEF KnownInv, SetReturns, Return
  <2>2. TrackInv'
    BY <1>11, <2>1 DEF SetReturns, Return, TrackInv, CallInv
  <2>3. (\A d \in calls : CallInv(d))'
    BY <1>11, <2>1 DEF SetReturns, Return, CallInv
  <2>4. TodoInv'
    BY <1>11, <2>1 DEF SetReturns, Return, TodoInv
  <2>5. WritesInv'
    BY <1>11, <2>1 DEF SetReturns, Return, WritesInv
  <2> QED
    BY <2>2, <2>3, <2>4, <2>5
<1>12. ASSUME NEW c \in calls, GetReturns(c)
      PROVE  TrackInv' /\ (\A d \in calls : CallInv(d))' /\ TodoInv' /\ WritesInv'
  <2>1. TrackInv /\ (\A d \in calls : CallInv(d)) /\ TodoInv /\ WritesInv
    BY <1>12 DEF KnownInv, GetReturns, Return, Report
  <2>2. TrackInv'
    BY <1>12, <2>1 DEF GetReturns, Return, Report, TrackInv
  <2>3. (\A d \in calls : CallInv(d))'
    BY <1>12, <2>1 DEF GetReturns, Return, Report, CallInv
  <2>4. TodoInv'
    BY <1>12, <2>1 DEF GetReturns, Return, Report, TodoInv
  <2>5. WritesInv'
    BY <1>12, <2>1 DEF GetReturns, Return, Report, WritesInv
  <2> QED
    BY <2>2, <2>3, <2>4, <2>5
<1>13. ASSUME NEW c \in calls, DeletedReturns(c)
      PROVE  TrackInv' /\ (\A d \in calls : CallInv(d))' /\ TodoInv' /\ WritesInv'
  <2>1. TrackInv /\ (\A d \in calls : CallInv(d)) /\ TodoInv /\ WritesInv
    BY <1>13 DEF KnownInv, DeletedReturns, Return, Report
  <2>2. TrackInv'
    BY <1>13, <2>1 DEF DeletedReturns, Return, Report, TrackInv, CallInv
  <2>3. (\A d \in calls : CallInv(d))'
    BY <1>13, <2>1 DEF DeletedReturns, Return, Report, CallInv
  <2>4. TodoInv'
    BY <1>13, <2>1 DEF DeletedReturns, Return, Report, TodoInv
  <2>5. WritesInv'
    BY <1>13, <2>1 DEF DeletedReturns, Return, Report, WritesInv
  <2> QED
    BY <2>2, <2>3, <2>4, <2>5
<1>14. ASSUME NEW c \in calls, DelReturns(c)
      PROVE  TrackInv' /\ (\A d \in calls : CallInv(d))' /\ TodoInv' /\ WritesInv'
  <2>1. TrackInv /\ (\A d \in calls : CallInv(d)) /\ TodoInv /\ WritesInv
    BY <1>14 DEF KnownInv, DelReturns, Return
  <2>2. TrackInv'
    BY <1>14, <2>1 DEF DelReturns, Return, TrackInv, CallInv
  <2>3. (\A d \in calls : CallInv(d))'
    BY <1>14, <2>1 DEF DelReturns, Return, CallInv
  <2>4. TodoInv'
    BY <1>14, <2>1 DEF DelReturns, Return, TodoInv
  <2>5. WritesInv'
    BY <1>14, <2>1 DEF DelReturns, Return, WritesInv
  <2> QED
    BY <2>2, <2>3, <2>4, <2>5
<1>15. ASSUME NEW c \in calls, CallFails(c)
      PROVE  TrackInv' /\ (\A d \in calls : CallInv(d))' /\ TodoInv' /\ WritesInv'
  <2>1. TrackInv /\ (\A d \in calls : CallInv(d)) /\ TodoInv /\ WritesInv
    BY <1>15 DEF KnownInv, CallFails
  <2>2. TrackInv'
    BY <1>15, <2>1 DEF CallFails, TrackInv, WritesInv
  <2>3. (\A d \in calls : CallInv(d))'
    BY <1>15, <2>1 DEF CallFails, CallInv
  <2>4. TodoInv'
    BY <1>15, <2>1 DEF CallFails, TodoInv
  <2>5. WritesInv'
    BY <1>15, <2>1 DEF CallFails, WritesInv
  <2> QED
    BY <2>2, <2>3, <2>4, <2>5
<1>16. CASE UNCHANGED vars
  BY <1>16 DEF vars, KnownInv, TrackInv, CallInv, TodoInv, WritesInv
<1> QED
  BY <1>1, <1>2, <1>3, <1>4, <1>5, <1>6, <1>7, <1>8, <1>9, <1>10, <1>11, <1>12, <1>13, <1>14, <1>15, <1>16
  DEF Next, Cluster, StartRound, CallEnds

(* INCONSISTENT is logged only for corrupted keys. *)
LEMMA AlarmStep ==
    RoundInv /\ KnownInv /\ NoFalseAlarm /\ [Next]_vars => NoFalseAlarm'
<1> SUFFICES ASSUME RoundInv, KnownInv, NoFalseAlarm, [Next]_vars
             PROVE  NoFalseAlarm'
  OBVIOUS
<1> USE DEF NoFalseAlarm, storeVars, roundVars
<1>1. ASSUME NEW c \in calls, GetReturns(c) \/ DeletedReturns(c) PROVE NoFalseAlarm'
  <2>1. CallInv(c)
    BY <1>1 DEF RoundInv, KnownInv, GetReturns, DeletedReturns
  <2> QED
    BY <1>1, <2>1 DEF GetReturns, DeletedReturns, Return, Report, CallInv
<1>2. ASSUME NEW k \in Keys, Corrupt(k) PROVE NoFalseAlarm'
  BY <1>2 DEF Corrupt
<1>3. CASE UNCHANGED <<reported, corrupted>>
  BY <1>3
<1>4. \/ UNCHANGED <<reported, corrupted>>
      \/ \E k \in Keys : Corrupt(k)
      \/ \E c \in calls : GetReturns(c) \/ DeletedReturns(c)
  BY DEF Next, Cluster, StartRound, CallEnds, Serve, ServeLate, StartWrites,
         StartReads, StartDeletes, StartLastDeletes, NextGroup, GroupsDone,
         SetReturns, DelReturns, CallFails, RoundEnds, vars
<1> QED
  BY <1>1, <1>2, <1>3, <1>4

(* No key that is due is forgotten before it is reported or its own call   *)
(* fails.                                                                  *)
LEMMA DueStep ==
    TypeOK /\ RoundInv /\ UsedInv /\ KnownInv /\ DueInv /\ [Next]_vars => DueInv'
<1> SUFFICES ASSUME TypeOK, RoundInv, UsedInv, KnownInv, DueInv, [Next]_vars
             PROVE  DueInv'
  OBVIOUS
<1> USE DEF RoundInv, storeVars, roundVars
<1> DEFINE Get(c, k) == c.op = "get" /\ c.keys = {k} /\ k \notin c.found
           Deleted(c, k) == /\ c.op = "mget_deleted" /\ k \in c.keys
                            /\ c.done => k \in c.found
           Due(k) == \/ k \notin store /\ \E c \in calls : Get(c, k)
                     \/ /\ k \in deleted_kvs \intersect store
                        /\ \/ coroutine = "mget"
                           \/ coroutine = "mget_deleted" /\ k \in todo
                           \/ \E c \in calls : Deleted(c, k)
<1>a. /\ round # "reads" => due = {}
      /\ due \subseteq corrupted
      /\ \A k \in due : Due(k)
  BY DEF DueInv
<1>b. ASSUME round' # "reads" => due' = {}, due' \subseteq corrupted',
             \A k \in due' : Due(k)'
      PROVE  DueInv'
  BY <1>b DEF DueInv
<1>1. ASSUME NEW c \in calls, Serve(c)
      PROVE  DueInv'
  <2>1. PICK e \in CallType :
            /\ calls' = (calls \ {c}) \union {e}
            /\ e.op = c.op /\ e.keys = c.keys /\ e.done = TRUE
            /\ e.found = c.keys \intersect store
    BY <1>1, ServedCall
  <2>2. UNCHANGED <<round, due, corrupted, deleted_kvs, coroutine, todo>>
    BY <1>1 DEF Serve
  <2>3. ASSUME NEW k \in due
        PROVE  Due(k)'
    <3>1. store' = store
      BY <1>1, <1>a, <2>3, EffectOf DEF Serve
    <3>2. CASE k \notin store
      <4>1. PICK d \in calls : Get(d, k)
        BY <1>a, <2>3, <3>2
      <4>2. d = c => Get(e, k)
        BY <2>1, <3>2, <4>1
      <4> QED
        BY <2>1, <3>1, <3>2, <4>1, <4>2
    <3>3. CASE k \in store
      <4>1. \A d \in calls : Deleted(d, k) => d # c \/ Deleted(e, k)
        BY <2>1, <3>3
      <4> QED
        BY <1>a, <2>1, <2>2, <2>3, <3>1, <3>3, <4>1
    <3> QED
      BY <3>2, <3>3
  <2> QED
    BY <1>a, <1>b, <2>2, <2>3
<1>2. ASSUME NEW w \in late, ServeLate(w)
      PROVE  DueInv'
  <2>1. UNCHANGED <<round, due, corrupted, deleted_kvs, coroutine, todo, calls>>
    BY <1>2 DEF ServeLate
  <2>2. ASSUME NEW k \in due
        PROVE  k \in store' <=> k \in store
    <3>1. TrackInv
      BY <1>a, <2>2 DEF KnownInv
    <3>2. k \notin w.keys
      BY <1>a, <2>2, <3>1 DEF TrackInv
    <3> QED
      BY <1>2, <3>2, EffectOf DEF ServeLate
  <2>3. ASSUME NEW k \in due
        PROVE  Due(k)'
    BY <1>a, <2>1, <2>2, <2>3
  <2> QED
    BY <1>a, <1>b, <2>1, <2>3
<1>3. ASSUME NEW l \in Keys, Corrupt(l)
      PROVE  DueInv'
  <2>1. /\ UNCHANGED <<round, due, deleted_kvs, coroutine, todo, calls>>
        /\ corrupted' = corrupted \union {l}
        /\ l \notin due
    BY <1>3, <1>a DEF Corrupt
  <2>2. \A k \in due : k \in store' <=> k \in store
    BY <1>3, <2>1 DEF Corrupt
  <2>3. ASSUME NEW k \in due
        PROVE  Due(k)'
    BY <1>a, <2>1, <2>2, <2>3
  <2> QED
    BY <1>a, <1>b, <2>1, <2>3
<1>4. CASE StartReads
  <2>1. /\ round' = "reads" /\ coroutine' = "mget"
        /\ due' = (kvs \ store) \union (deleted_kvs \intersect store)
        /\ UNCHANGED <<store, deleted_kvs, corrupted>>
    BY <1>4 DEF StartReads
  <2>2. due' \subseteq corrupted
    BY <1>4, <2>1 DEF StartReads, KnownInv, TrackInv
  <2>3. ASSUME NEW k \in due'
        PROVE  Due(k)'
    <3>1. CASE k \in kvs \ store
      <4>1. \E c \in calls' : Get(c, k)
        BY <1>4, <3>1, ReadCallOf
      <4> QED
        BY <2>1, <3>1, <4>1
    <3>2. CASE k \in deleted_kvs \intersect store
      BY <2>1, <3>2
    <3> QED
      BY <2>1, <2>3, <3>1, <3>2
  <2> QED
    BY <1>b, <2>1, <2>2, <2>3
<1>5. ASSUME NEW ks \in SUBSET Keys, NextGroup(ks)
      PROVE  DueInv'
  <2>1. PICK g \in CallType :
            /\ calls' = calls \union {g}
            /\ g.op = coroutine /\ g.done = FALSE /\ g.found = {} /\ g.keys = ks
    BY <1>5, GroupCall
  <2>2. /\ UNCHANGED <<round, due, corrupted, store, deleted_kvs, coroutine>>
        /\ todo' = todo \ ks
    BY <1>5 DEF NextGroup
  <2>3. ASSUME NEW k \in due
        PROVE  Due(k)'
    <3>1. coroutine = "mget_deleted" /\ k \in ks => Deleted(g, k)
      BY <2>1
    <3> QED
      BY <1>a, <2>1, <2>2, <2>3, <3>1
  <2> QED
    BY <1>a, <1>b, <2>2, <2>3
<1>6. CASE GroupsDone
  <2>1. /\ UNCHANGED <<round, due, corrupted, store, deleted_kvs, calls>>
        /\ coroutine' = IF coroutine = "mget" THEN "mget_deleted" ELSE "none"
        /\ todo' = IF coroutine = "mget" THEN deleted_kvs ELSE {}
        /\ todo = {}
        /\ \A c \in calls : c.op # "mget_deleted"
    BY <1>6 DEF GroupsDone, Between
  <2>2. ASSUME NEW k \in due
        PROVE  Due(k)'
    BY <1>a, <2>1, <2>2
  <2> QED
    BY <1>a, <1>b, <2>1, <2>2
<1>7. ASSUME NEW c \in calls, GetReturns(c) \/ DeletedReturns(c)
      PROVE  DueInv'
  <2>a. /\ UNCHANGED <<round, corrupted, store, coroutine, todo>>
        /\ calls' = calls \ {c} /\ c.done
    BY <1>7 DEF GetReturns, DeletedReturns, Return
  <2>1. ASSUME NEW k \in due'
        PROVE  k \in due /\ Due(k)'
    <3>1. k \in due
      BY <1>7, <2>1 DEF GetReturns, DeletedReturns, Report
    <3>2. ~Get(c, k) /\ ~Deleted(c, k)
      BY <1>7, <2>a, <2>1 DEF GetReturns, DeletedReturns, Report
    <3>3. k \in deleted_kvs => k \in deleted_kvs'
      BY <1>7, <2>1 DEF GetReturns, DeletedReturns, Report
    <3> QED
      BY <1>a, <2>a, <3>1, <3>2, <3>3
  <2> QED
    BY <1>a, <1>b, <2>a, <2>1
<1>8. ASSUME NEW c \in calls, CallFails(c)
      PROVE  DueInv'
  <2>1. /\ UNCHANGED <<round, corrupted, store, deleted_kvs, coroutine, todo>>
        /\ calls' = calls \ {c} /\ due' = due \ c.keys
    BY <1>8 DEF CallFails
  <2>2. ASSUME NEW k \in due'
        PROVE  Due(k)'
    BY <1>a, <2>1, <2>2
  <2> QED
    BY <1>a, <1>b, <2>1, <2>2
<1>9. CASE RoundEnds
  <2>1. due' = {}
    BY <1>9, <1>a DEF RoundEnds
  <2> QED
    BY <1>b, <2>1
<1>10. ASSUME NEW ks \in SUBSET Keys, NEW ms \in SUBSET Keys,
              StartWrites(ks, ms) \/ StartDeletes(ks, ms) \/ StartLastDeletes
       PROVE  DueInv'
  <2>1. due' = {}
    BY <1>10, <1>a DEF StartWrites, StartDeletes, StartLastDeletes
  <2> QED
    BY <1>b, <2>1
<1>11. ASSUME NEW c \in calls, SetReturns(c) \/ DelReturns(c)
       PROVE  DueInv'
  <2>1. due' = {}
    BY <1>11, <1>a DEF SetReturns, DelReturns
  <2> QED
    BY <1>b, <2>1
<1>12. CASE UNCHANGED vars
  BY <1>12 DEF vars, DueInv
<1> QED
  BY <1>1, <1>2, <1>3, <1>4, <1>5, <1>6, <1>7, <1>8, <1>9, <1>10, <1>11, <1>12
  DEF Next, Cluster, StartRound, CallEnds

(* The inductive invariant of the checker. *)
LEMMA CheckerInvariant == Spec => []CheckerInv
<1>1. CheckerInv /\ [Next]_vars => CheckerInv'
  BY TypeStep, RoundStep, UsedStep, KnownStep, AlarmStep, DueStep DEF CheckerInv
<1> QED
  BY <1>1, CheckerInit, PTL DEF Spec

(* The variables keep their types: in particular a key is never tracked as *)
(* set and as deleted at the same time.                                    *)
THEOREM TypeCorrect == Spec => []TypeOK
<1>1. CheckerInv => TypeOK
  BY DEF CheckerInv
<1> QED
  BY <1>1, CheckerInvariant, PTL

(* The checker logs INCONSISTENT only for keys that the store changed by   *)
(* itself, for any number of keys and whatever calls fail or come late.    *)
THEOREM NoFalseAlarmEver == Spec => []NoFalseAlarm
<1>1. CheckerInv => NoFalseAlarm
  BY DEF CheckerInv
<1> QED
  BY <1>1, CheckerInvariant, PTL

(* The reads of a round miss no key that was wrong when they started, for  *)
(* any number of keys and whatever other calls fail.                       *)
THEOREM ReadsMissNothingEver == Spec => []ReadsMissNothing
<1>1. CheckerInv => ReadsMissNothing
  BY DEF CheckerInv, DueInv, ReadsMissNothing
<1> QED
  BY <1>1, CheckerInvariant, PTL
=============================================================================
