------------------------------ MODULE EnvFlash ------------------------------
(***************************************************************************)
(* The store the tracker keeps its settings in: EasyFlash's environment    *)
(* variables on NOR flash (src/mcu/module/nv/easyflash/src/ef_env.c).      *)
(*                                                                         *)
(* The flash is a row of sectors, each a header and a log of nodes.  A     *)
(* node's status only goes forward, one written word at a time; a sector   *)
(* is erased whole.  A variable is changed by preparing its old node for   *)
(* deletion, writing a new node, committing it and deleting the old one.   *)
(* When the last empty sector but one is used up the live nodes of the     *)
(* dirty sectors are moved and those sectors erased.                       *)
(*                                                                         *)
(* Every step below is at most one write or one erase, and the power may   *)
(* fail between any two of them: RAM is lost, ef_load_env repairs the      *)
(* flash at the next start.  ef_port_env_lock makes each operation run     *)
(* alone, so one program counter is enough.                                *)
(***************************************************************************)
EXTENDS Naturals, Sequences, FiniteSets

CONSTANTS Keys,       \* names of variables
          Vals,       \* their values
          Absent,     \* what reading a variable that is not there gives
          NumSectors, \* SECTOR_NUM
          Cap,        \* nodes a sector has room for
          MaxFailures \* bound on the power failures of a behaviour

ASSUME EnvAssumption == /\ Absent \notin Keys \union Vals
                        /\ NumSectors \in Nat \ {0, 1}
                        /\ Cap \in Nat \ {0, 1}
                        /\ MaxFailures \in Nat

VARIABLES flash,      \* the sectors
          pc,         \* what the processor does next
          loading,    \* in_recovery_check
          request,    \* arguments of set_env, and whether it collected
          work,       \* the node being written and the one it replaces
          gc,         \* where gc_collect is and whom it returns to
          gc_request,
          env_cache,  \* env_cache_table: where a variable was last found
          last_is_complete_del, \* del_env's static: a node was just prepared
          may,        \* history: the values each variable may have
          cut,        \* history: variables a recovery did not come to
          dropped,    \* history: variables a collection found no room for
          failures    \* power failures so far

vars == <<flash, pc, loading, request, work, gc, gc_request, env_cache,
          last_is_complete_del, may, cut, dropped, failures>>

ghosts == <<may, cut, dropped, failures>>

Sectors == 1..NumSectors
NoAddr == <<0, 0>>
Threshold == 1        \* EF_GC_EMPTY_SEC_THRESHOLD

Statuses == {"PRE_WRITE", "WRITE", "PRE_DELETE", "DELETED", "ERR_HDR"}

\* body: "none" before the header is written, "header" until the value is,
\* "whole" when the checksum fits (crc_is_ok).
Node == [status: Statuses, body: {"none", "header", "whole"},
         key: Keys, val: Vals]

Sector == [ok: BOOLEAN, store: {"EMPTY", "USING", "FULL"},
           dirty: {"FALSE", "TRUE", "GC"},
           nodes: {q \in Seq(Node) : Len(q) <= Cap}]

Erased == [ok |-> FALSE, store |-> "EMPTY", dirty |-> "FALSE",
           nodes |-> <<>>]
Formatted == [Erased EXCEPT !.ok = TRUE]

NoRequest == [key |-> Absent, val |-> Absent, collected |-> FALSE]
NoWork == [key |-> Absent, val |-> Absent, sec |-> 0, full |-> FALSE,
           old |-> NoAddr]
NoGC == [sec |-> 0, pos |-> 0, back |-> "none"]

-----------------------------------------------------------------------------
(* Reading the flash.                                                      *)

Least(S) == CHOOSE x \in S : \A y \in S : x <= y

Addrs == UNION {{<<s, i>> : i \in 1..Len(flash[s].nodes)} : s \in Sectors}

At(a) == flash[a[1]].nodes[a[2]]

\* env_iterator's order: by sector, then along the log.
FirstAddr(A) ==
    LET s == Least({a[1] : a \in A})
    IN  <<s, Least({a[2] : a \in {b \in A : b[1] = s}})>>

Whole(a) == At(a).body = "whole"

Live(a) == Whole(a) /\ At(a).status \in {"WRITE", "PRE_DELETE"}

Prepared == {a \in Addrs : Whole(a) /\ At(a).status = "PRE_DELETE"}

Nodes(k, st) == {a \in Addrs : Whole(a) /\ At(a).key = k /\ At(a).status = st}

find_env_no_cache(k) ==
    IF Nodes(k, "WRITE") = {} THEN NoAddr ELSE FirstAddr(Nodes(k, "WRITE"))

\* A cached address is believed when the name there is right: neither the
\* status nor the checksum of the node is looked at.
CacheHit(k) == /\ env_cache[k] \in Addrs
               /\ At(env_cache[k]).body # "none"
               /\ At(env_cache[k]).key = k

find_env(k) == IF CacheHit(k) THEN env_cache[k] ELSE find_env_no_cache(k)

get_env(k) == IF find_env(k) = NoAddr THEN Absent ELSE At(find_env(k)).val

SetStatus(a, st) ==
    [flash EXCEPT ![a[1]].nodes[a[2]].status = st]

EmptySectors == {s \in Sectors : flash[s].ok /\ flash[s].store = "EMPTY"}

\* Mutant of Allocatable: neither the status nor the room is looked at.
AllocatableAny(store) ==
    {s \in Sectors : /\ flash[s].ok
                     /\ \/ flash[s].dirty = "FALSE"
                        \/ flash[s].dirty = "TRUE" /\ ~gc_request}

\* alloc_env_cb on the sectors of one store status.
Allocatable(store) ==
    {s \in Sectors : /\ flash[s].ok
                     /\ flash[s].store = store
                     /\ Len(flash[s].nodes) < Cap
                     /\ \/ flash[s].dirty = "FALSE"
                        \/ flash[s].dirty = "TRUE" /\ ~gc_request}

\* The sector a new node goes to, 0 for FAILED_ADDR, and gc_request after.
alloc_env ==
    LET using == Allocatable("USING")
        empty == Allocatable("EMPTY")
        spare == Cardinality(EmptySectors) > Threshold \/ gc_request
    IN  IF using # {}
        THEN [sec |-> Least(using), request |-> gc_request]
        ELSE IF empty # {} /\ spare
        THEN [sec |-> Least(empty), request |-> gc_request]
        ELSE [sec |-> 0, request |-> gc_request \/ EmptySectors # {}]

-----------------------------------------------------------------------------
(* set_env: from the call to the allocation of the new node.               *)

idle == pc = "idle"

Init == /\ flash = [s \in Sectors |-> Formatted]
        /\ pc = "idle"
        /\ loading = FALSE
        /\ request = NoRequest
        /\ work = NoWork
        /\ gc = NoGC
        /\ gc_request = FALSE
        /\ env_cache = [k \in Keys |-> NoAddr]
        /\ last_is_complete_del = FALSE
        /\ may = [k \in Keys |-> {Absent}]
        /\ cut = {}
        /\ dropped = {}
        /\ failures = 0

\* ef_get_env_blob: what is found is remembered.
Get(k) ==
    /\ idle
    /\ env_cache' = [env_cache EXCEPT ![k] = find_env(k)]
    /\ UNCHANGED <<flash, pc, loading, request, work, gc, gc_request,
                   last_is_complete_del, ghosts>>

Set(k, v) ==
    /\ idle
    /\ pc' = "new_env"
    /\ request' = [key |-> k, val |-> v, collected |-> FALSE]
    /\ may' = [may EXCEPT ![k] = @ \union {v}]
    /\ UNCHANGED <<flash, loading, work, gc, gc_request, env_cache>>
    /\ UNCHANGED <<last_is_complete_del, cut, dropped, failures>>

\* new_env_by_kv, one collection when it fails, then find_env.
new_env ==
    /\ pc = "new_env"
    /\ gc_request' = alloc_env.request
    /\ IF alloc_env.sec # 0
       THEN LET old == find_env(request.key)
            IN  /\ work' = [key |-> request.key, val |-> request.val,
                            sec |-> alloc_env.sec, full |-> FALSE,
                            old |-> old]
                /\ pc' = IF old = NoAddr THEN "sector" ELSE "prepare"
                /\ UNCHANGED <<request, gc>>
       ELSE IF alloc_env.request /\ ~request.collected
       THEN /\ request' = [request EXCEPT !.collected = TRUE]
            /\ gc' = [NoGC EXCEPT !.back = "new_env"]
            /\ pc' = "gc"
            /\ UNCHANGED work
       ELSE /\ request' = NoRequest        \* EF_ENV_FULL
            /\ pc' = "idle"
            /\ UNCHANGED <<work, gc>>
    /\ UNCHANGED <<flash, loading, env_cache, last_is_complete_del, ghosts>>

\* Mutant of prepare: the old node is deleted before there is a new one.
PrepareDeletes ==
    /\ pc = "prepare"
    /\ flash' = SetStatus(work.old, "DELETED")
    /\ pc' = IF flash[work.old[1]].dirty = "FALSE" THEN "dirty" ELSE "sector"
    /\ last_is_complete_del' = TRUE
    /\ UNCHANGED <<loading, request, work, gc, gc_request, env_cache, ghosts>>

\* del_env(key, &env, false): the old node's status, then its sector's.
prepare ==
    /\ pc = "prepare"
    /\ flash' = SetStatus(work.old, "PRE_DELETE")
    /\ pc' = IF flash[work.old[1]].dirty = "FALSE" THEN "dirty" ELSE "sector"
    /\ last_is_complete_del' = TRUE
    /\ UNCHANGED <<loading, request, work, gc, gc_request, env_cache, ghosts>>

dirty ==
    /\ pc \in {"dirty", "dirty_moved"}
    /\ flash' = [flash EXCEPT ![work.old[1]].dirty = "TRUE"]
    /\ pc' = IF pc = "dirty" THEN "sector" ELSE "recover"
    /\ UNCHANGED <<loading, request, work, gc, gc_request, env_cache,
                   last_is_complete_del, ghosts>>

-----------------------------------------------------------------------------
(* Writing a node: create_env_blob and the copy in move_env.               *)

moving == loading \/ gc.sec # 0

Last == <<work.sec, Len(flash[work.sec].nodes)>>

update_sec_status ==
    LET s == flash[work.sec]
        fills == s.store = "USING" /\ Len(s.nodes) + 1 = Cap
    IN  /\ pc = "sector"
        /\ flash' = [flash EXCEPT ![work.sec].store =
                        IF fills THEN "FULL" ELSE "USING"]
        /\ work' = [work EXCEPT !.full = fills]
        /\ pc' = "pre_write"
        /\ UNCHANGED <<loading, request, gc, gc_request, env_cache,
                       last_is_complete_del, ghosts>>

pre_write ==
    /\ pc = "pre_write"
    /\ flash' = [flash EXCEPT ![work.sec].nodes =
                    Append(@, [status |-> "PRE_WRITE", body |-> "none",
                               key |-> work.key, val |-> work.val])]
    /\ pc' = "header"
    /\ UNCHANGED <<loading, request, work, gc, gc_request, env_cache,
                   last_is_complete_del, ghosts>>

\* Mutant of write_header: a set leaves the table of found variables alone.
WriteHeaderForgets ==
    /\ pc = "header"
    /\ flash' = [flash EXCEPT ![Last[1]].nodes[Last[2]].body = "header"]
    /\ pc' = "value"
    /\ UNCHANGED <<loading, request, work, gc, gc_request, env_cache,
                   last_is_complete_del, ghosts>>

\* A set remembers the new node once its name is written.
write_header ==
    /\ pc = "header"
    /\ flash' = [flash EXCEPT ![Last[1]].nodes[Last[2]].body = "header"]
    /\ env_cache' = IF moving THEN env_cache
                    ELSE [env_cache EXCEPT ![work.key] = Last]
    /\ pc' = "value"
    /\ UNCHANGED <<loading, request, work, gc, gc_request,
                   last_is_complete_del, ghosts>>

write_value ==
    /\ pc = "value"
    /\ flash' = [flash EXCEPT ![Last[1]].nodes[Last[2]].body = "whole"]
    /\ pc' = "commit"
    /\ UNCHANGED <<loading, request, work, gc, gc_request, env_cache,
                   last_is_complete_del, ghosts>>

\* Mutant of commit: a moved node is not entered in the table.
CommitForgetsMove ==
    /\ pc = "commit"
    /\ flash' = SetStatus(Last, "WRITE")
    /\ gc_request' = (gc_request \/ (work.full /\ ~moving))
    /\ pc' = IF work.old = NoAddr THEN "end_set" ELSE "delete"
    /\ UNCHANGED <<loading, request, work, gc, env_cache,
                   last_is_complete_del, ghosts>>

\* A set asks for a collection when the node filled its sector; a move
\* remembers the copy.
commit ==
    /\ pc = "commit"
    /\ flash' = SetStatus(Last, "WRITE")
    /\ env_cache' = IF moving THEN [env_cache EXCEPT ![work.key] = Last]
                    ELSE env_cache
    /\ gc_request' = (gc_request \/ (work.full /\ ~moving))
    /\ pc' = IF work.old = NoAddr THEN "end_set" ELSE "delete"
    /\ UNCHANGED <<loading, request, work, gc, last_is_complete_del, ghosts>>

\* The table of found variables, or without one of them.
Forgetful == {env_cache} \union {[env_cache EXCEPT ![k] = NoAddr] : k \in Keys}

\* del_env(key, &env, true).  When no node was prepared since the last node was
\* deleted the variable leaves the table; a move passes no name, and what is
\* read at NULL may have the checksum of any variable, or of none.
delete ==
    /\ pc = "delete"
    /\ flash' = SetStatus(work.old, "DELETED")
    /\ env_cache' \in IF last_is_complete_del THEN {env_cache} ELSE Forgetful
    /\ last_is_complete_del' = FALSE
    /\ pc' = IF ~moving THEN "end_set"
             ELSE IF gc.sec # 0 THEN "gc_node"
             ELSE IF flash[work.old[1]].dirty = "FALSE" THEN "dirty_moved"
             ELSE "recover"
    /\ UNCHANGED <<loading, request, work, gc, gc_request, ghosts>>

end_set ==
    /\ pc = "end_set"
    /\ may' = [may EXCEPT ![request.key] = {request.val}]
    /\ request' = NoRequest
    /\ work' = NoWork
    /\ gc' = IF gc_request THEN [NoGC EXCEPT !.back = "idle"] ELSE NoGC
    /\ pc' = IF gc_request THEN "gc" ELSE "idle"
    /\ UNCHANGED <<flash, loading, gc_request, env_cache,
                   last_is_complete_del, cut, dropped, failures>>

-----------------------------------------------------------------------------
(* gc_collect, do_gc and move_env.                                         *)

gc_end == /\ gc_request' = FALSE
          /\ gc' = NoGC
          /\ pc' = gc.back

\* Mutant of gc_check: the threshold itself does not count as too few.
GcCheckBelow ==
    /\ pc = "gc"
    /\ IF Cardinality(EmptySectors) < Threshold
       THEN /\ gc' = [gc EXCEPT !.sec = 1]
            /\ pc' = "gc_sector"
            /\ UNCHANGED gc_request
       ELSE gc_end
    /\ UNCHANGED <<flash, loading, request, work, env_cache,
                   last_is_complete_del, ghosts>>

gc_check ==
    /\ pc = "gc"
    /\ IF Cardinality(EmptySectors) <= Threshold
       THEN /\ gc' = [gc EXCEPT !.sec = 1]
            /\ pc' = "gc_sector"
            /\ UNCHANGED gc_request
       ELSE gc_end
    /\ UNCHANGED <<flash, loading, request, work, env_cache,
                   last_is_complete_del, ghosts>>

gc_sector ==
    /\ pc = "gc_sector"
    /\ IF gc.sec > NumSectors
       THEN gc_end /\ UNCHANGED flash
       ELSE /\ IF flash[gc.sec].ok /\ flash[gc.sec].dirty # "FALSE"
               THEN /\ flash' = [flash EXCEPT ![gc.sec].dirty = "GC"]
                    /\ gc' = [gc EXCEPT !.pos = 1]
                    /\ pc' = "gc_node"
               ELSE /\ gc' = [gc EXCEPT !.sec = @ + 1]
                    /\ UNCHANGED <<flash, pc>>
            /\ UNCHANGED gc_request
    /\ UNCHANGED <<loading, request, work, env_cache,
                   last_is_complete_del, ghosts>>

\* The next live node of the sector is prepared for deletion and moved.
gc_node ==
    LET rest == {i \in gc.pos .. Len(flash[gc.sec].nodes) : Live(<<gc.sec, i>>)}
        a == <<gc.sec, Least(rest)>>
    IN  /\ pc = "gc_node"
        /\ IF rest = {}
           THEN /\ pc' = "erase"
                /\ UNCHANGED <<flash, work, gc, last_is_complete_del>>
           ELSE /\ gc' = [gc EXCEPT !.pos = a[2] + 1]
                /\ work' = [NoWork EXCEPT !.key = At(a).key, !.val = At(a).val,
                                          !.old = a]
                /\ flash' = SetStatus(a, "PRE_DELETE")
                /\ last_is_complete_del' =
                       (last_is_complete_del \/ At(a).status = "WRITE")
                /\ pc' = "move"
        /\ UNCHANGED <<loading, request, gc_request, env_cache, ghosts>>

\* In a recovery a node whose variable has a committed node is not copied.
is_copied == ~loading \/ find_env_no_cache(work.key) = NoAddr

\* A collection that finds no room for a node says so in the log and goes on.
move_env ==
    /\ pc = "move"
    /\ gc_request' = alloc_env.request
    /\ dropped' = IF alloc_env.sec = 0 /\ gc.sec # 0
                  THEN dropped \union {work.key} ELSE dropped
    /\ IF alloc_env.sec = 0
       THEN /\ pc' = IF gc.sec # 0 THEN "gc_node" ELSE "recovered"
            /\ UNCHANGED work
       ELSE IF is_copied
       THEN /\ work' = [work EXCEPT !.sec = alloc_env.sec]
            /\ pc' = "sector"
       ELSE pc' = "delete" /\ UNCHANGED work
    /\ UNCHANGED <<flash, loading, request, gc, env_cache,
                   last_is_complete_del, may, cut, failures>>

\* format_sector erases, then writes the header.
erase ==
    /\ pc = "erase"
    /\ flash' = [flash EXCEPT ![gc.sec] = Erased]
    /\ pc' = "format"
    /\ UNCHANGED <<loading, request, work, gc, gc_request, env_cache,
                   last_is_complete_del, ghosts>>

format ==
    /\ pc = "format"
    /\ flash' = [flash EXCEPT ![gc.sec] = Formatted]
    /\ gc' = [gc EXCEPT !.sec = @ + 1]
    /\ pc' = "gc_sector"
    /\ UNCHANGED <<loading, request, work, gc_request, env_cache,
                   last_is_complete_del, ghosts>>

-----------------------------------------------------------------------------
(* Power failure and ef_load_env.                                          *)

PowerFails ==
    /\ pc # "off"
    /\ failures < MaxFailures
    /\ failures' = failures + 1
    /\ pc' = "off"
    /\ loading' = FALSE
    /\ request' = NoRequest
    /\ work' = NoWork
    /\ gc' = NoGC
    /\ gc_request' = FALSE
    /\ env_cache' = [k \in Keys |-> NoAddr]
    /\ last_is_complete_del' = FALSE
    /\ UNCHANGED <<flash, may, cut, dropped>>

ef_load_env ==
    /\ pc = "off"
    /\ pc' = "headers"
    /\ loading' = TRUE
    /\ UNCHANGED <<flash, request, work, gc, gc_request, env_cache,
                   last_is_complete_del, ghosts>>

\* Sectors without a header are formatted; then a collection that was
\* under way is resumed.
check_headers ==
    LET bad == {s \in Sectors : ~flash[s].ok}
        collected == {s \in Sectors : flash[s].dirty = "GC"}
    IN  /\ pc = "headers"
        /\ IF bad # {}
           THEN /\ flash' = [flash EXCEPT ![Least(bad)] = Formatted]
                /\ UNCHANGED <<pc, gc, gc_request>>
           ELSE IF collected # {}
           THEN /\ gc_request' = TRUE
                /\ gc' = [NoGC EXCEPT !.back = "recover"]
                /\ pc' = "gc"
                /\ UNCHANGED flash
           ELSE /\ pc' = "recover"
                /\ UNCHANGED <<flash, gc, gc_request>>
        /\ UNCHANGED <<loading, request, work, env_cache,
                       last_is_complete_del, ghosts>>

\* Mutant of recover: an unfinished node is passed over unmarked.
RecoverUnmarked ==
    LET pending == Prepared \union {a \in Addrs : At(a).status = "PRE_WRITE"}
        a == FirstAddr(pending)
    IN  /\ pc = "recover"
        /\ IF pending = {}
           THEN pc' = "recovered" /\ UNCHANGED work
           ELSE IF At(a).status = "PRE_DELETE"
           THEN /\ work' = [NoWork EXCEPT !.key = At(a).key,
                                          !.val = At(a).val, !.old = a]
                /\ pc' = "move"
           ELSE UNCHANGED <<pc, work>>
        /\ UNCHANGED <<flash, loading, request, gc, gc_request, env_cache,
                       last_is_complete_del, ghosts>>

\* check_and_recovery_env_cb: the first node that needs something done.
\* A node prepared for deletion is moved.  An unfinished one is given up,
\* and that ends the iteration; only one without a length, which read_env
\* itself has marked, does not.
recover ==
    LET pending == Prepared \union {a \in Addrs : At(a).status = "PRE_WRITE"}
        a == FirstAddr(pending)
    IN  /\ pc = "recover"
        /\ IF pending = {}
           THEN pc' = "recovered" /\ UNCHANGED <<flash, work>>
           ELSE IF At(a).status = "PRE_DELETE"
           THEN /\ work' = [NoWork EXCEPT !.key = At(a).key,
                                          !.val = At(a).val, !.old = a]
                /\ pc' = "move"
                /\ UNCHANGED flash
           ELSE /\ flash' = SetStatus(a, "ERR_HDR")
                /\ pc' = IF At(a).body = "none" THEN "recover"
                         ELSE "recovered"
                /\ UNCHANGED work
        /\ UNCHANGED <<loading, request, gc, gc_request, env_cache,
                       last_is_complete_del, ghosts>>

\* __retry, or the end of the recovery.  A variable that reads as one of
\* the values it may have has that value from now on.
recovered ==
    /\ pc = "recovered"
    /\ IF gc_request
       THEN /\ gc' = [NoGC EXCEPT !.back = "recover"]
            /\ pc' = "gc"
            /\ UNCHANGED <<loading, may, cut>>
       ELSE /\ loading' = FALSE
            /\ pc' = "idle"
            /\ may' = [k \in Keys |-> IF get_env(k) \in may[k]
                                      THEN {get_env(k)} ELSE may[k]]
            /\ cut' = cut \union {At(a).key : a \in Prepared}
            /\ UNCHANGED gc
    /\ UNCHANGED <<flash, request, work, gc_request, env_cache>>
    /\ UNCHANGED <<last_is_complete_del, dropped, failures>>

-----------------------------------------------------------------------------

Step == \/ new_env \/ prepare \/ dirty
        \/ update_sec_status \/ pre_write \/ write_header \/ write_value
        \/ commit \/ delete \/ end_set
        \/ gc_check \/ gc_sector \/ gc_node \/ move_env \/ erase \/ format
        \/ ef_load_env \/ check_headers \/ recover \/ recovered

Next == \/ \E k \in Keys : Get(k)
        \/ \E k \in Keys, v \in Vals : Set(k, v)
        \/ Step
        \/ PowerFails

\* The processor runs: power failures and calls come as they like.
Spec == Init /\ [][Next]_vars /\ WF_vars(Step)

-----------------------------------------------------------------------------
(* What the flash holds, as a store whose variables change in one step.    *)

\* The committed node counts, else the first that is prepared for deletion.
stored(k) ==
    IF Nodes(k, "WRITE") # {} THEN At(FirstAddr(Nodes(k, "WRITE"))).val
    ELSE IF Nodes(k, "PRE_DELETE") # {}
    THEN At(FirstAddr(Nodes(k, "PRE_DELETE"))).val
    ELSE Absent

Lost == cut \union dropped

\* The set under way takes effect when its node is committed.
taken == pc \in {"delete", "end_set"} /\ ~moving

asked ==
    IF request.key \in Keys
    THEN [key |-> request.key, val |-> request.val, taken |-> taken]
    ELSE [key |-> Absent, val |-> Absent, taken |-> FALSE]

shown == [k \in Keys |-> IF k \in Lost THEN Absent ELSE stored(k)]

Store == INSTANCE VarStore
         WITH store <- shown, setting <- asked, lost <- Lost

-----------------------------------------------------------------------------
(* Properties.                                                             *)

Addresses == (0..NumSectors) \X (0..Cap)

TypeOK ==
    /\ flash \in [Sectors -> Sector]
    /\ pc \in {"idle", "new_env", "prepare", "dirty", "dirty_moved", "sector",
               "pre_write", "header", "value", "commit", "delete", "end_set",
               "gc", "gc_sector", "gc_node", "move", "erase", "format", "off",
               "headers", "recover", "recovered"}
    /\ loading \in BOOLEAN /\ gc_request \in BOOLEAN
    /\ last_is_complete_del \in BOOLEAN
    /\ request \in [key: Keys \union {Absent}, val: Vals \union {Absent},
                    collected: BOOLEAN]
    /\ work \in [key: Keys \union {Absent}, val: Vals \union {Absent},
                 sec: 0..NumSectors, full: BOOLEAN, old: Addresses]
    /\ gc \in [sec: 0..NumSectors + 1, pos: 0..Cap + 1,
               back: {"none", "new_env", "idle", "recover"}]
    /\ env_cache \in [Keys -> Addresses]
    /\ may \in [Keys -> SUBSET (Vals \union {Absent})]
    /\ cut \subseteq Keys /\ dropped \subseteq Keys
    /\ failures \in 0..MaxFailures

\* Whatever moment the power failed at, a variable reads as the value it
\* was last set to, or as the one before when that set was cut off,
\* unless a recovery stopped before it came to the variable's old node or
\* a collection found no room for it (ef_env.c: set_env, move_env,
\* ef_load_env).
ReadsTellTheLastSet ==
    idle => \A k \in Keys \ Lost : get_env(k) \in may[k]

\* A variable reads as what the flash holds of it.
ReadsTellTheStore == idle => \A k \in Keys \ Lost : get_env(k) = stored(k)

\* A set changes its variable in one step, the write that commits the new
\* node, and no other variable; a power failure, a recovery and a collection
\* change none that is not lost (ef_env.c: del_env's two phases, move_env).
ImplementsStore == Store!Spec

\* What the table of found variables points at is the committed node of the
\* variable: neither deleted nor moved nor erased since (update_env_cache).
CacheTellsFlash ==
    idle => \A k \in Keys \ dropped : env_cache[k] # NoAddr =>
                /\ env_cache[k] \in Addrs
                /\ Whole(env_cache[k])
                /\ At(env_cache[k]).status = "WRITE"
                /\ At(env_cache[k]).key = k

\* Between operations there is an empty sector to move live nodes to, and no
\* collection loses a variable for want of room (ef_cfg.h: at least one empty
\* sector for GC).
ReserveIsKept == (idle => EmptySectors # {}) /\ dropped = {}

\* Every start and every operation comes to its end, collections and
\* the retry loop of the recovery included, unless the power fails.
WorkEnds == (pc \notin {"idle", "off"}) ~> (pc \in {"idle", "off"})
=============================================================================
