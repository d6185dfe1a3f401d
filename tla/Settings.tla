------------------------------ MODULE Settings ------------------------------
(***************************************************************************)
(* The settings of the tracker (src/board/evb/tracker, module/nv/hal): four *)
(* groups, each a record in RAM, g_btlink_config, and an item of the flash   *)
(* store.  app_main loads them once, with defaults for an item that is not  *)
(* there; the command task changes a group field by field, stores it whole   *)
(* and answers.  Nothing orders the two tasks: a command typed early meets  *)
(* settings that are not loaded yet.  Power may fail between any two steps. *)
(*                                                                          *)
(* The store itself is EnvFlash.  What it promises is used here: an item is *)
(* read as it was last stored, a set cut by a power failure leaves the old  *)
(* value or the new one (EnvFlash's cut names an exception that is left out *)
(* here), and os_mutex makes each call atomic but for the caller's buffer,  *)
(* which a set reads twice: for the checksum and to copy.                   *)
(*                                                                          *)
(* A group is a record of one field of each kind its fields are of: numbers *)
(* and servers are resolved when the frame is parsed, strings when it is    *)
(* executed.                                                                *)
(***************************************************************************)
EXTENDS Naturals, Sequences

CONSTANTS
    Groups,      \* the groups in the order they are loaded in
    Numbers,     \* values of a number
    Strings,     \* values of a string
    Addresses,   \* IP addresses: the first three octets, and the last
    Hosts,       \* domain names
    Nil,         \* what zeroed memory holds, as a number, a string or a name
    Usual,       \* the number of a group's defaults
    Empty,       \* a field left out of a command
    Missing,     \* an item the store does not have
    MaxFailures, \* bound of the model: power failures
    MaxCommands  \* bound of the model: commands

ASSUME GroupsAssumption == Groups \in Seq({"ips", "apn", "scs", "lss"}) \ {<< >>}
ASSUME UsualAssumption == Usual \in Numbers
ASSUME AddressesAssumption == Addresses \subseteq Nat \X Nat
ASSUME EmptyAssumption == Empty \notin Numbers \cup Strings
ASSUME BoundsAssumption == MaxFailures \in Nat /\ MaxCommands \in Nat

VARIABLES
    nv,        \* the items of the store
    init_ok,   \* ef_env.c: the store is up
    ram,       \* g_btlink_config
    boot,      \* where app_main is: init, read, default, reread, copy, done
    loading,   \* groups it has still to load
    buf,       \* the buffer of nv_item_read
    cmd,       \* where the command task is: idle, exec, save, data, answer
    group,     \* the group of its command
    arg,       \* dn_frame->arg: the fields as parsed
    next,      \* the fields it has still to execute
    need_save, \* one of them changed the group
    sum,       \* the group as its checksum was computed
    failures,  \* power failures so far
    commands,  \* commands so far
    early,     \* groups a command came for before they were loaded
    goal,      \* the group as the command asked for it
    asked      \* values a group may rightly be stored with

bootVars == <<boot, loading, buf>>
cmdVars == <<cmd, group, arg, next, need_save, sum>>
bounds == <<failures, commands>>
ghosts == <<early, goal, asked>>
vars == <<nv, init_ok, ram, bootVars, cmdVars, bounds, ghosts>>

-----------------------------------------------------------------------------
Names == {Groups[i] : i \in 1..Len(Groups)}

Kind == [report_mode |-> "number", pri |-> "server",
         apn_quantity |-> "number", apn_name |-> "string",
         dev_password |-> "string", data_zone_mask |-> "number",
         mode_selection |-> "number", spec_time_of_day |-> "string"]

\* The fields of a group, in the order of its btlink_cmd_exec function.
Fields == [ips |-> <<"report_mode", "pri">>,
           apn |-> <<"apn_quantity", "apn_name">>,
           scs |-> <<"dev_password", "data_zone_mask">>,
           lss |-> <<"mode_selection", "spec_time_of_day">>]

FieldsOf(g) == {Fields[g][i] : i \in 1..Len(Fields[g])}

NoAddress == <<0, 0>>
Servers == [mode : {"ip", "dn"}, addr : Addresses \cup {NoAddress}, host : Hosts \cup {Nil}]

Values(f) == CASE Kind[f] = "number" -> Numbers \cup {Nil}
               [] Kind[f] = "string" -> Strings \cup {Nil}
               [] Kind[f] = "server" -> Servers

Records(g) == {r \in [FieldsOf(g) -> UNION {Values(f) : f \in FieldsOf(g)}] :
                  \A f \in FieldsOf(g) : r[f] \in Values(f)}

\* A group as memory is zeroed, and its defaults: 0 is the mode of an address.
Zero(g) == [f \in FieldsOf(g) |->
              IF Kind[f] = "server" THEN [mode |-> "ip", addr |-> NoAddress, host |-> Nil]
              ELSE Nil]
Default(g) == [f \in FieldsOf(g) |-> IF Kind[f] = "number" THEN Usual ELSE Zero(g)[f]]

ASSUME DefaultsAssumption == \A g \in Names : Default(g) # Missing

\* What a command says of a field: nothing, or a value that parses.
Given(f) == {Empty} \cup
    CASE Kind[f] = "number" -> Numbers
      [] Kind[f] = "string" -> Strings
      [] Kind[f] = "server" -> [mode : {"ip"}, addr : Addresses, host : {Nil}] \cup
                               [mode : {"dn"}, addr : {NoAddress}, host : Hosts]

Commands(g) == {c \in [FieldsOf(g) -> UNION {Given(f) : f \in FieldsOf(g)}] :
                   \A f \in FieldsOf(g) : c[f] \in Given(f)}

\* What a command asks of a group: the fields given are as given, the others
\* as they were.  A server that moves from a name to an address loses the name.
AskedServer(old, new) ==
    IF new.mode = "dn" THEN [old EXCEPT !.mode = "dn", !.host = new.host]
    ELSE [mode |-> "ip", addr |-> new.addr,
          host |-> IF old.mode = "dn" THEN Nil ELSE old.host]
Asked(old, c) ==
    [f \in DOMAIN old |-> IF c[f] = Empty THEN old[f]
                          ELSE IF Kind[f] = "server" THEN AskedServer(old[f], c[f])
                          ELSE c[f]]

Init == /\ nv \in [Names -> {Missing}]
        /\ init_ok = FALSE
        /\ ram = [g \in Names |-> Zero(g)]
        /\ boot = "init"
        /\ loading = Groups
        /\ buf = Missing
        /\ cmd = "idle" /\ group = Groups[1] /\ arg = Missing
        /\ next = << >> /\ need_save = FALSE /\ sum = Missing
        /\ failures = 0 /\ commands = 0
        /\ early = {}
        /\ goal = Missing
        /\ asked = [g \in Names |-> {Missing}]

-----------------------------------------------------------------------------
(* app_main: nv_item_init, then btlink_pro_nv_init group by group.          *)

\* A command that is being stored holds the mutex of the store.
MutexFree == cmd # "data"

NvItemInit == /\ boot = "init"
              /\ init_ok' = TRUE
              /\ boot' = "read"
              /\ UNCHANGED <<nv, ram, loading, buf, cmdVars, bounds, ghosts>>

NextGroup == /\ loading' = Tail(loading)
             /\ boot' = IF Len(loading) = 1 THEN "done" ELSE "read"

\* nv_item_read, up to the memcpy of what it found.
BootRead ==
    /\ boot \in {"read", "reread"}
    /\ MutexFree
    /\ buf' = nv[Head(loading)]
    /\ IF buf' # Missing THEN boot' = "copy" /\ UNCHANGED loading
       ELSE IF boot = "read" THEN boot' = "default" /\ UNCHANGED loading
       ELSE NextGroup
    /\ UNCHANGED <<nv, init_ok, ram, cmdVars, bounds, ghosts>>

\* Mutant of BootDefault: the defaults are never stored, and read for ever.
BootDefaultAgain ==
    /\ boot = "default"
    /\ boot' = "read"
    /\ UNCHANGED <<nv, init_ok, ram, loading, buf, cmdVars, bounds, ghosts>>

\* An item that is not there is stored with its defaults.
BootDefault ==
    /\ boot = "default"
    /\ MutexFree
    /\ nv' = [nv EXCEPT ![Head(loading)] = Default(Head(loading))]
    /\ asked' = [asked EXCEPT ![Head(loading)] = {Default(Head(loading))}]
    /\ boot' = "reread"
    /\ UNCHANGED <<init_ok, ram, loading, buf, cmdVars, bounds, early, goal>>

BootCopy ==
    /\ boot = "copy"
    /\ ram' = [ram EXCEPT ![Head(loading)] = buf]
    /\ buf' = Missing
    /\ asked' = [asked EXCEPT ![Head(loading)] =
                   IF Head(loading) \in early THEN @ ELSE {buf}]
    /\ NextGroup
    /\ UNCHANGED <<nv, init_ok, cmdVars, bounds, early, goal>>

-----------------------------------------------------------------------------
(* The command task.                                                        *)

\* Mutant of Resolve: a server that was left out is parsed as none.
ResolveNoServer(f, v, old) ==
    IF v # Empty THEN v ELSE IF Kind[f] = "server" THEN Zero("ips")[f]
    ELSE IF Kind[f] = "number" THEN old ELSE v

\* The btlink_get_dnlnk_frame_arg functions: numbers and servers left out are
\* taken from the settings.
Resolve(f, v, old) ==
    IF v = Empty /\ Kind[f] \in {"number", "server"} THEN old ELSE v

\* btlink_parse_dnlnk_frame found a command whose password is right.
Parse(g, c) ==
    /\ cmd = "idle"
    /\ commands < MaxCommands
    /\ commands' = commands + 1
    /\ cmd' = "exec"
    /\ group' = g
    /\ arg' = [f \in FieldsOf(g) |-> Resolve(f, c[f], ram[g][f])]
    /\ next' = Fields[g]
    /\ need_save' = FALSE
    /\ early' = early \cup ({g} \cap {loading[i] : i \in 1..Len(loading)})
    /\ goal' = Asked(ram[g], c)
    /\ asked' = [asked EXCEPT ![g] = @ \cup {goal'}]
    /\ UNCHANGED <<nv, init_ok, ram, bootVars, sum, failures>>

\* The macro leaves the last octet out: a[3] ^ a[3].
IP_ALL_MATCH(a, b) == a[1] = b[1]

\* The main server in btlink_cmd_exec_ips.
ExecServer(old, new) ==
    IF old.mode # new.mode
    THEN IF new.mode = "ip" THEN [mode |-> "ip", addr |-> new.addr, host |-> Nil]
         ELSE [old EXCEPT !.mode = "dn", !.host = new.host]
    ELSE IF new.mode = "ip" /\ ~IP_ALL_MATCH(new.addr, old.addr)
         THEN [old EXCEPT !.addr = new.addr]
    ELSE IF new.mode = "dn" THEN [old EXCEPT !.host = new.host]
    ELSE old

\* Mutant of ExecValue: a string left out is copied as well.
ExecValueAny(f, old, new) == IF Kind[f] = "server" THEN ExecServer(old, new) ELSE new

\* A field after its part of the btlink_cmd_exec function.
ExecValue(f, old, new) ==
    CASE Kind[f] = "number" -> new
      [] Kind[f] = "string" -> IF new = Empty THEN old ELSE new
      [] Kind[f] = "server" -> ExecServer(old, new)

\* Mutant of ExecField: the last field that is the same takes back the save.
ExecFieldLast ==
    /\ cmd = "exec"
    /\ LET f == Head(next)
           new == ExecValue(f, ram[group][f], arg[f])
       IN /\ ram' = [ram EXCEPT ![group][f] = new]
          /\ need_save' = (new # ram[group][f])
    /\ next' = Tail(next)
    /\ cmd' = IF Len(next) > 1 THEN "exec" ELSE IF need_save' THEN "save" ELSE "answer"
    /\ UNCHANGED <<nv, init_ok, bootVars, group, arg, sum, bounds, ghosts>>

ExecField ==
    /\ cmd = "exec"
    /\ LET f == Head(next)
           new == ExecValue(f, ram[group][f], arg[f])
       IN /\ ram' = [ram EXCEPT ![group][f] = new]
          /\ need_save' = (need_save \/ new # ram[group][f])
    /\ next' = Tail(next)
    /\ cmd' = IF Len(next) > 1 THEN "exec" ELSE IF need_save' THEN "save" ELSE "answer"
    /\ UNCHANGED <<nv, init_ok, bootVars, group, arg, sum, bounds, ghosts>>

\* nv_item_write; a store that is not up refuses, and nobody looks.
Save == /\ cmd = "save"
        /\ IF init_ok THEN cmd' = "data" /\ sum' = ram[group]
           ELSE cmd' = "answer" /\ UNCHANGED sum
        /\ UNCHANGED <<nv, init_ok, ram, bootVars, group, arg, next, need_save,
                       bounds, ghosts>>

\* create_env_blob copies the caller's record and drops the older item; one
\* that does not match its checksum is never read.
SaveData ==
    /\ cmd = "data"
    /\ nv' = [nv EXCEPT ![group] = IF ram[group] = sum THEN sum ELSE Missing]
    /\ sum' = Missing
    /\ cmd' = "answer"
    /\ UNCHANGED <<init_ok, ram, bootVars, group, arg, next, need_save, bounds, ghosts>>

\* OK, and the frame that acknowledges: what the group may be stored with is
\* what the command asked for.
Answer ==
    /\ cmd = "answer"
    /\ cmd' = "idle" /\ group' = Groups[1] /\ arg' = Missing /\ need_save' = FALSE
    /\ goal' = Missing
    /\ asked' = [asked EXCEPT ![group] = {goal}]
    /\ UNCHANGED <<nv, init_ok, ram, bootVars, next, sum, bounds, early>>

-----------------------------------------------------------------------------
\* The device loses power and starts again; the store and what is known of it
\* last.  Of a group that was touched early nothing is claimed.
PowerFails ==
    /\ failures < MaxFailures
    /\ failures' = failures + 1
    /\ init_ok' = FALSE
    /\ ram' = [g \in Names |-> Zero(g)]
    /\ boot' = "init" /\ loading' = Groups /\ buf' = Missing
    /\ cmd' = "idle" /\ group' = Groups[1] /\ arg' = Missing /\ next' = << >>
    /\ need_save' = FALSE /\ sum' = Missing
    /\ early' = {}
    /\ goal' = Missing
    /\ asked' = [g \in Names |-> IF g \in early THEN {nv[g]} ELSE asked[g]]
    /\ UNCHANGED <<nv, commands>>

BootStep == NvItemInit \/ BootRead \/ BootDefault \/ BootCopy

CommandStep == ExecField \/ Save \/ SaveData \/ Answer

Next == \/ BootStep
        \/ CommandStep
        \/ \E g \in Names : \E c \in Commands(g) : Parse(g, c)
        \/ PowerFails

Spec == Init /\ [][Next]_vars

\* Both tasks go on; one that waits for the mutex of the store gets it, however
\* often the other takes it.
FairSpec == Spec /\ SF_vars(BootStep) /\ WF_vars(CommandStep)

-----------------------------------------------------------------------------
TypeOK ==
    /\ \A g \in Names : nv[g] \in Records(g) \cup {Missing}
    /\ init_ok \in BOOLEAN
    /\ \A g \in Names : ram[g] \in Records(g)
    /\ boot \in {"init", "read", "default", "reread", "copy", "done"}
    /\ loading = SubSeq(Groups, Len(Groups) - Len(loading) + 1, Len(Groups))
    /\ buf # Missing => loading # << >> /\ buf \in Records(Head(loading))
    /\ cmd \in {"idle", "exec", "save", "data", "answer"}
    /\ group \in Names
    /\ next \in Seq(FieldsOf(group))
    /\ need_save \in BOOLEAN
    /\ sum \in Records(group) \cup {Missing}
    /\ failures \in 0..MaxFailures /\ commands \in 0..MaxCommands
    /\ early \subseteq Names

Loaded(g) == \A i \in 1..Len(loading) : loading[i] # g

\* btlink_nv.c:168-213, btlink_protocol_cmd.c:50-425.  Between commands a group
\* that was loaded before the first of them is in RAM as it is stored.
ShownIsStored ==
    \A g \in Names : Loaded(g) /\ g \notin early /\ (cmd = "idle" \/ group # g)
                      => ram[g] = nv[g]

\* btlink_protocol_cmd.c:50-425.  However power fails, a group is stored as the
\* last answered command asked for, or as a whole as a command did that the
\* failure cut: no mixture of two commands, nothing answered and lost.
StoredIsAsked == \A g \in Names \ early : nv[g] \in asked[g]

\* The settings come up, and every command comes to its answer.
Serves == []<>(boot = "done" /\ cmd = "idle")

\* btlink_protocol_enums.h:102.  A command that sets the server by its address,
\* to settings that are loaded, leaves the server at that address.
ServerIsSetByAddress ==
    cmd = "answer" /\ group = "ips" /\ "ips" \notin early =>
        \A f \in FieldsOf("ips") :
            Kind[f] = "server" /\ arg[f].mode = "ip" => ram["ips"][f].addr = arg[f].addr
=============================================================================
