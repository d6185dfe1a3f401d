--------------------------- MODULE SettingsProofs ---------------------------
(***************************************************************************)
(* The settings shown are the settings stored, and those are what was asked *)
(* for, for every choice of groups, values, commands and power failures, if  *)
(* no two addresses differ in the last octet alone.                         *)
(*                                                                          *)
(* The inductive invariant follows the command in progress: each field has  *)
(* the value asked for or is still to get it, and without need_save nothing *)
(* differs from what is stored.                                             *)
(***************************************************************************)
EXTENDS Settings, SequenceTheorems, TLAPS

\* What IP_ALL_MATCH cannot tell apart does not occur.
AddressesApart ==
    \A a, b \in Addresses \cup {NoAddress} : a[1] = b[1] => a = b

\* Fields as parsed: only a string may still be left out.
Parsed(f) == CASE Kind[f] = "number" -> Numbers \cup {Nil}
               [] Kind[f] = "string" -> Strings \cup {Empty}
               [] Kind[f] = "server" -> Servers

\* nv, ram, asked and buf hold records of their groups.
Held == /\ nv = [g \in Names |-> nv[g]]
        /\ \A g \in Names : nv[g] \in Records(g) \cup {Missing}
        /\ ram = [g \in Names |-> ram[g]]
        /\ \A g \in Names : ram[g] \in Records(g)
        /\ asked = [g \in Names |-> asked[g]]

\* Where app_main is.
Booting ==
    /\ loading \in Seq(Names)
    /\ boot # "done" => loading # << >>
    /\ boot = "init" => loading = Groups
    /\ boot # "init" => init_ok = TRUE
    /\ boot = "reread" /\ Head(loading) \notin early => nv[Head(loading)] # Missing
    /\ boot = "copy" => buf \in Records(Head(loading))
    /\ boot = "copy" /\ Head(loading) \notin early => buf = nv[Head(loading)]

\* What the command has still to execute: from its first field or its second.
Left == next = Fields[group] \/ next = <<Fields[group][2]>>

Pending(f) == f = Fields[group][2] \/ next = Fields[group]

\* Where the command task is, with a command for any group.
Commanding ==
    /\ cmd \in {"idle", "exec", "save", "data", "answer"}
    /\ group \in Names
    /\ cmd # "idle" => goal \in Records(group)
    /\ cmd = "exec" => /\ Left
                       /\ need_save \in BOOLEAN
                       /\ \A f \in FieldsOf(group) : arg[f] \in Parsed(f)
    /\ cmd = "data" => sum \in Records(group)

\* And with one for a group that was loaded.
Settled ==
    cmd # "idle" /\ group \notin early =>
        /\ Loaded(group)
        /\ goal \in asked[group]
        /\ cmd = "exec" =>
             /\ \A f \in FieldsOf(group) :
                   IF Pending(f) THEN ExecValue(f, ram[group][f], arg[f]) = goal[f]
                                 ELSE ram[group][f] = goal[f]
             /\ ~need_save => ram[group] = nv[group]
        /\ cmd \in {"save", "data", "answer"} => ram[group] = goal
        /\ cmd = "data" => sum = goal
        /\ cmd = "answer" => nv[group] = goal

SettingsInv == Held /\ Booting /\ Commanding /\ Settled /\ ShownIsStored /\ StoredIsAsked

-----------------------------------------------------------------------------
AllNames == {"ips", "apn", "scs", "lss"}

LEMMA TwoFields ==
    ASSUME NEW g \in AllNames
    PROVE  /\ Fields[g] = <<Fields[g][1], Fields[g][2]>>
           /\ Fields[g][1] # Fields[g][2]
           /\ FieldsOf(g) = {Fields[g][1], Fields[g][2]}
           /\ \A f \in FieldsOf(g) : Kind[f] \in {"number", "string", "server"}
<1>1. CASE g = "ips"
    BY <1>1 DEF Fields, FieldsOf, Kind
<1>2. CASE g = "apn"
    BY <1>2 DEF Fields, FieldsOf, Kind
<1>3. CASE g = "scs"
    BY <1>3 DEF Fields, FieldsOf, Kind
<1>4. CASE g = "lss"
    BY <1>4 DEF Fields, FieldsOf, Kind
<1>. QED
    BY <1>1, <1>2, <1>3, <1>4 DEF AllNames

LEMMA NamesAre ==
    /\ Names \subseteq AllNames
    /\ Groups \in Seq(Names) /\ Groups # << >> /\ Groups[1] \in Names
    /\ \A g \in Names : \E i \in 1..Len(Groups) : Groups[i] = g
BY GroupsAssumption DEF Names, AllNames

\* A record of a group has its fields and no others, each with a value of its kind.
LEMMA RecordsAre ==
    ASSUME NEW g \in Names, NEW r
    PROVE  r \in Records(g) <=> /\ r = [f \in FieldsOf(g) |-> r[f]]
                                /\ \A f \in FieldsOf(g) : r[f] \in Values(f)
<1>. DEFINE U == UNION {Values(f) : f \in FieldsOf(g)}
<1>1. r \in Records(g) <=> /\ r \in [FieldsOf(g) -> U]
                           /\ \A f \in FieldsOf(g) : r[f] \in Values(f)
    BY DEF Records
<1>2. ASSUME r = [f \in FieldsOf(g) |-> r[f]], \A f \in FieldsOf(g) : r[f] \in Values(f)
      PROVE  r \in [FieldsOf(g) -> U]
  <2>1. \A f \in FieldsOf(g) : r[f] \in U
      BY <1>2
  <2>. HIDE DEF U
  <2>. QED
      BY <2>1, <1>2
<1>3. ASSUME r \in [FieldsOf(g) -> U] PROVE r = [f \in FieldsOf(g) |-> r[f]]
  <2>. HIDE DEF U
  <2>. QED
      BY <1>3
<1>. QED
    BY <1>1, <1>2, <1>3

LEMMA KindsAre ==
    ASSUME NEW g \in Names, NEW f \in FieldsOf(g)
    PROVE  Kind[f] \in {"number", "string", "server"}
BY NamesAre, TwoFields

LEMMA ZeroAndDefault ==
    ASSUME NEW g \in Names
    PROVE  Zero(g) \in Records(g) /\ Default(g) \in Records(g) /\ Default(g) # Missing
<1>1. Default(g) # Missing
    BY DefaultsAssumption
<1>2. [mode |-> "ip", addr |-> NoAddress, host |-> Nil] \in Servers
    BY DEF Servers
<1>3. \A f \in FieldsOf(g) : Zero(g)[f] \in Values(f)
    BY <1>2, KindsAre DEF Zero, Values
<1>4. \A f \in FieldsOf(g) : Default(g)[f] \in Values(f)
    BY <1>3, KindsAre, UsualAssumption DEF Default, Values
<1>5. Zero(g) = [f \in FieldsOf(g) |-> Zero(g)[f]]
    BY DEF Zero
<1>6. Default(g) = [f \in FieldsOf(g) |-> Default(g)[f]]
    BY DEF Default
<1>. QED
    BY <1>1, <1>3, <1>4, <1>5, <1>6, RecordsAre

-----------------------------------------------------------------------------
\* A server is executed as it was asked for.
LEMMA ServerIsAsked ==
    ASSUME AddressesApart, NEW old \in Servers,
           NEW v \in [mode : {"ip"}, addr : Addresses, host : {Nil}] \cup
                    [mode : {"dn"}, addr : {NoAddress}, host : Hosts]
    PROVE  /\ ExecServer(old, v) = AskedServer(old, v)
           /\ ExecServer(old, v) \in Servers
           /\ v \in Servers
<1>1. v \in Servers
    BY DEF Servers
<1>2. CASE v.mode = "dn"
    BY <1>1, <1>2 DEF ExecServer, AskedServer, Servers
<1>3. CASE v.mode = "ip" /\ old.mode = "dn"
    BY <1>1, <1>3 DEF ExecServer, AskedServer, Servers
<1>4. CASE v.mode = "ip" /\ old.mode = "ip"
  <2>1. v.addr[1] = old.addr[1] => v.addr = old.addr
      BY <1>1 DEF AddressesApart, Servers
  <2>2. AskedServer(old, v) = [old EXCEPT !.addr = v.addr]
      BY <1>4 DEF AskedServer, Servers
  <2>3. ExecServer(old, v) = [old EXCEPT !.addr = v.addr]
      BY <1>4, <2>1 DEF ExecServer, IP_ALL_MATCH, Servers
  <2>. QED
      BY <1>1, <2>2, <2>3 DEF Servers
<1>. QED
    BY <1>1, <1>2, <1>3, <1>4 DEF Servers

\* A server that was left out stays.
LEMMA ServerStays ==
    ASSUME NEW old \in Servers
    PROVE  ExecServer(old, old) = old
<1>1. CASE old.mode = "dn"
    BY <1>1 DEF ExecServer, Servers
<1>2. CASE old.mode = "ip"
    BY <1>2 DEF ExecServer, IP_ALL_MATCH, Servers
<1>. QED
    BY <1>1, <1>2 DEF Servers

LEMMA ResolveIsTyped ==
    ASSUME NEW g \in Names, NEW f \in FieldsOf(g),
           NEW old \in Values(f), NEW v \in Given(f)
    PROVE  Resolve(f, v, old) \in Parsed(f)
<1>1. CASE Kind[f] = "number"
    BY <1>1 DEF Values, Given, Resolve, Parsed
<1>2. CASE Kind[f] = "string"
    BY <1>2 DEF Values, Given, Resolve, Parsed
<1>3. CASE Kind[f] = "server"
    BY <1>3 DEF Values, Given, Resolve, Parsed, Servers
<1>. QED
    BY <1>1, <1>2, <1>3, KindsAre

\* Parsing and executing a field gives it the value asked for.
LEMMA FieldIsAsked ==
    ASSUME AddressesApart, NEW g \in Names, NEW f \in FieldsOf(g),
           NEW old \in Values(f), NEW v \in Given(f)
    PROVE  /\ Resolve(f, v, old) \in Parsed(f)
           /\ ExecValue(f, old, Resolve(f, v, old)) =
                 IF v = Empty THEN old
                 ELSE IF Kind[f] = "server" THEN AskedServer(old, v) ELSE v
           /\ ExecValue(f, old, Resolve(f, v, old)) \in Values(f)
<1>1. CASE Kind[f] = "number"
    BY <1>1, EmptyAssumption DEF Values, Given, Resolve, Parsed, ExecValue
<1>2. CASE Kind[f] = "string"
    BY <1>2, EmptyAssumption DEF Values, Given, Resolve, Parsed, ExecValue
<1>3. CASE Kind[f] = "server"
  <2>1. old \in Servers
      BY <1>3 DEF Values
  <2>2. CASE v = Empty
      BY <1>3, <2>1, <2>2, ServerStays DEF Values, Resolve, Parsed, ExecValue
  <2>3. CASE v # Empty
    <3>1. v \in [mode : {"ip"}, addr : Addresses, host : {Nil}] \cup
               [mode : {"dn"}, addr : {NoAddress}, host : Hosts]
        BY <1>3, <2>3 DEF Given
    <3>. QED
        BY <1>3, <2>1, <2>3, <3>1, ServerIsAsked DEF Values, Resolve, Parsed, ExecValue
  <2>. QED
      BY <2>2, <2>3
<1>. QED
    BY <1>1, <1>2, <1>3, KindsAre

\* Whatever a group has become meanwhile, executing a field keeps it a record.
LEMMA FieldIsTyped ==
    ASSUME NEW g \in Names, NEW f \in FieldsOf(g),
           NEW old \in Values(f), NEW new \in Parsed(f)
    PROVE  ExecValue(f, old, new) \in Values(f)
<1>1. CASE Kind[f] = "number"
    BY <1>1 DEF Values, Parsed, ExecValue
<1>2. CASE Kind[f] = "string"
    BY <1>2 DEF Values, Parsed, ExecValue
<1>3. CASE Kind[f] = "server"
  <2>1. old \in Servers /\ new \in Servers
      BY <1>3 DEF Values, Parsed
  <2>2. ExecServer(old, new) \in Servers
      BY <2>1 DEF ExecServer, Servers
  <2>. QED
      BY <1>3, <2>2 DEF Values, ExecValue
<1>. QED
    BY <1>1, <1>2, <1>3, KindsAre

\* What is asked of a group is a record of it.
LEMMA GoalIsTyped ==
    ASSUME AddressesApart, NEW g \in Names, NEW old \in Records(g), NEW c \in Commands(g)
    PROVE  /\ Asked(old, c) \in Records(g)
           /\ \A f \in FieldsOf(g) : /\ Resolve(f, c[f], old[f]) \in Parsed(f)
                                    /\ ExecValue(f, old[f], Resolve(f, c[f], old[f]))
                                         = Asked(old, c)[f]
<1>1. old = [f \in FieldsOf(g) |-> old[f]] /\ \A f \in FieldsOf(g) : old[f] \in Values(f)
    BY RecordsAre
<1>2. \A f \in FieldsOf(g) : c[f] \in Given(f)
    BY DEF Commands
<1>3. DOMAIN old = FieldsOf(g)
    BY <1>1
<1>4. \A f \in FieldsOf(g) :
        Asked(old, c)[f] = IF c[f] = Empty THEN old[f]
                           ELSE IF Kind[f] = "server" THEN AskedServer(old[f], c[f])
                           ELSE c[f]
    BY <1>3 DEF Asked
<1>5. ASSUME NEW f \in FieldsOf(g)
      PROVE  /\ Resolve(f, c[f], old[f]) \in Parsed(f)
             /\ ExecValue(f, old[f], Resolve(f, c[f], old[f])) = Asked(old, c)[f]
             /\ Asked(old, c)[f] \in Values(f)
  <2>1. Kind[f] = "string" => Empty \in Parsed(f)
      BY DEF Parsed
  <2>. QED
      BY <1>1, <1>2, <1>4, <2>1, FieldIsAsked
<1>6. Asked(old, c) = [f \in FieldsOf(g) |-> Asked(old, c)[f]]
    BY <1>3 DEF Asked
<1>. QED
    BY <1>5, <1>6, RecordsAre

-----------------------------------------------------------------------------
\* A group that has been loaded is not one that is still to be.
LEMMA LoadedIsNotHead ==
    ASSUME NEW g \in Names, Loaded(g), loading \in Seq(Names), loading # << >>
    PROVE  g # Head(loading)
BY DEF Loaded

\* When a group has been loaded, or passed over, the others stay as they were.
LEMMA NextGroupIs ==
    ASSUME loading \in Seq(Names), loading # << >>, NextGroup
    PROVE  /\ loading' \in Seq(Names)
           /\ boot' \in {"read", "done"}
           /\ boot' # "done" => loading' # << >>
           /\ \A g \in Names : Loaded(g)' /\ g # Head(loading) => Loaded(g)
           /\ \A g \in Names : Loaded(g) => Loaded(g)'
<1>1. loading' = Tail(loading) /\ Len(loading) \in Nat \ {0}
      /\ boot' = IF Len(loading) = 1 THEN "done" ELSE "read"
    BY DEF NextGroup
<1>2. loading' \in Seq(Names) /\ Len(loading') = Len(loading) - 1
    BY <1>1
<1>3. \A i \in 1..Len(loading') : loading'[i] = loading[i+1]
    BY <1>1, <1>2
<1>4. ASSUME NEW g \in Names, Loaded(g)', g # Head(loading)
      PROVE  Loaded(g)
  <2>1. ASSUME NEW i \in 1..Len(loading) PROVE loading[i] # g
    <3>1. CASE i = 1
        BY <3>1, <1>4
    <3>2. CASE i # 1
      <4>1. i - 1 \in 1..Len(loading') /\ loading'[i-1] = loading[i]
          BY <3>2, <1>1, <1>2, <1>3
      <4>. QED
          BY <4>1, <1>4 DEF Loaded
    <3>. QED
        BY <3>1, <3>2
  <2>. QED
      BY <2>1 DEF Loaded
<1>5. \A g \in Names : Loaded(g) => Loaded(g)'
    BY <1>1, <1>2, <1>3 DEF Loaded
<1>6. loading' \in Seq(Names) /\ boot' \in {"read", "done"}
    BY <1>1, <1>2
<1>7. boot' # "done" => loading' # << >>
  <2>1. boot' # "done" => Len(loading') # 0
      BY <1>1, <1>2
  <2>. QED
      BY <2>1
<1>8. \A g \in Names : Loaded(g)' /\ g # Head(loading) => Loaded(g)
    BY <1>4
<1>. QED
    BY <1>5, <1>6, <1>7, <1>8

LEMMA InitSettings == Init => SettingsInv
<1>. SUFFICES ASSUME Init PROVE SettingsInv
    OBVIOUS
<1>1. Held
    BY ZeroAndDefault DEF Init, Held
<1>2. Booting
    BY NamesAre DEF Init, Booting
<1>3. Commanding /\ Settled
    BY NamesAre DEF Init, Commanding, Settled
<1>4. \A g \in Names : ~Loaded(g)
    BY NamesAre DEF Init, Loaded
<1>5. ShownIsStored /\ StoredIsAsked
    BY <1>4 DEF Init, ShownIsStored, StoredIsAsked
<1>. QED
    BY <1>1, <1>2, <1>3, <1>5 DEF SettingsInv

LEMMA NvItemInitInv == SettingsInv /\ NvItemInit => SettingsInv'
<1>. SUFFICES ASSUME SettingsInv, NvItemInit PROVE SettingsInv'
    OBVIOUS
<1>1. /\ UNCHANGED <<nv, ram, loading, buf, cmd, group, arg, next, need_save, sum,
                     early, goal, asked>>
      /\ boot = "init" /\ boot' = "read" /\ init_ok' = TRUE
    BY DEF NvItemInit, cmdVars, ghosts
<1>2. Held' /\ Commanding' /\ StoredIsAsked'
    BY <1>1 DEF SettingsInv, Held, Commanding, StoredIsAsked, Left
<1>3. Booting'
    BY <1>1 DEF SettingsInv, Booting
<1>4. Settled' /\ ShownIsStored'
    BY <1>1 DEF SettingsInv, Settled, ShownIsStored, Loaded, Pending
<1>. QED
    BY <1>2, <1>3, <1>4 DEF SettingsInv

LEMMA BootReadInv == SettingsInv /\ BootRead => SettingsInv'
<1>. SUFFICES ASSUME SettingsInv, BootRead PROVE SettingsInv'
    OBVIOUS
<1>1. /\ UNCHANGED <<nv, init_ok, ram, cmd, group, arg, next, need_save, sum,
                     early, goal, asked>>
      /\ buf' = nv[Head(loading)]
      /\ loading # << >> /\ loading \in Seq(Names) /\ init_ok = TRUE
      /\ Head(loading) \in Names
    BY DEF SettingsInv, Booting, BootRead, cmdVars, ghosts
<1>2. Held' /\ Commanding' /\ StoredIsAsked'
    BY <1>1 DEF SettingsInv, Held, Commanding, StoredIsAsked, Left
<1>3. CASE buf' # Missing
  <2>1. boot' = "copy" /\ UNCHANGED loading
      BY <1>3 DEF BootRead
  <2>2. buf' \in Records(Head(loading))
      BY <1>1, <1>3 DEF SettingsInv, Held
  <2>. QED
      BY <1>1, <1>2, <2>1, <2>2
         DEF SettingsInv, Booting, Settled, ShownIsStored, Loaded, Pending
<1>4. CASE buf' = Missing /\ boot = "read"
  <2>1. boot' = "default" /\ UNCHANGED loading
      BY <1>4 DEF BootRead
  <2>. QED
      BY <1>1, <1>2, <2>1
         DEF SettingsInv, Booting, Settled, ShownIsStored, Loaded, Pending
<1>5. CASE buf' = Missing /\ boot # "read"
  <2>1. NextGroup /\ boot = "reread"
      BY <1>5 DEF BootRead
  <2>2. Head(loading) \in early
      BY <1>1, <1>5, <2>1 DEF SettingsInv, Booting
  <2>3. Booting' /\ \A g \in Names \ early : Loaded(g) <=> Loaded(g)'
      BY <1>1, <2>1, <2>2, NextGroupIs DEF Booting
  <2>4. Settled'
      BY <1>1, <2>3 DEF SettingsInv, Commanding, Settled, Pending
  <2>5. ShownIsStored'
      BY <1>1, <2>3 DEF SettingsInv, ShownIsStored
  <2>. QED
      BY <1>2, <2>3, <2>4, <2>5 DEF SettingsInv
<1>. QED
    BY <1>3, <1>4, <1>5

LEMMA BootDefaultInv == SettingsInv /\ BootDefault => SettingsInv'
<1>. SUFFICES ASSUME SettingsInv, BootDefault PROVE SettingsInv'
    OBVIOUS
<1>. DEFINE h == Head(loading)
<1>1. /\ UNCHANGED <<init_ok, ram, loading, buf, cmd, group, arg, next, need_save,
                     sum, early, goal>>
      /\ nv' = [nv EXCEPT ![h] = Default(h)]
      /\ asked' = [asked EXCEPT ![h] = {Default(h)}]
      /\ boot' = "reread" /\ init_ok = TRUE
      /\ loading # << >> /\ loading \in Seq(Names)
    BY DEF SettingsInv, Booting, BootDefault, cmdVars
<1>2. h \in Names /\ Default(h) \in Records(h) /\ Default(h) # Missing
      /\ \A g \in Names : Loaded(g) => g # h
    BY <1>1, ZeroAndDefault, LoadedIsNotHead
<1>. HIDE DEF h
<1>3. /\ \A g \in Names : g # h => nv'[g] = nv[g] /\ asked'[g] = asked[g]
      /\ nv'[h] = Default(h) /\ asked'[h] = {Default(h)}
    BY <1>1, <1>2 DEF SettingsInv, Held
<1>4. Held'
    BY <1>1, <1>2, <1>3 DEF SettingsInv, Held
<1>5. Booting'
    BY <1>1, <1>2, <1>3 DEF SettingsInv, Booting, h
<1>6. Commanding'
    BY <1>1 DEF SettingsInv, Commanding, Left
<1>7. Settled'
    BY <1>1, <1>2, <1>3 DEF SettingsInv, Commanding, Settled, Pending, Loaded
<1>8. ShownIsStored' /\ StoredIsAsked'
    BY <1>1, <1>2, <1>3 DEF SettingsInv, ShownIsStored, StoredIsAsked, Loaded
<1>. QED
    BY <1>4, <1>5, <1>6, <1>7, <1>8 DEF SettingsInv

LEMMA BootCopyInv == SettingsInv /\ BootCopy => SettingsInv'
<1>. SUFFICES ASSUME SettingsInv, BootCopy PROVE SettingsInv'
    OBVIOUS
<1>. DEFINE h == Head(loading)
<1>1. /\ UNCHANGED <<nv, init_ok, cmd, group, arg, next, need_save, sum, early, goal>>
      /\ ram' = [ram EXCEPT ![h] = buf]
      /\ asked' = [asked EXCEPT ![h] = IF h \in early THEN asked[h] ELSE {buf}]
      /\ init_ok = TRUE /\ NextGroup
      /\ loading # << >> /\ loading \in Seq(Names)
      /\ buf \in Records(h) /\ (h \notin early => buf = nv[h])
    BY DEF SettingsInv, Booting, BootCopy, cmdVars
<1>2. h \in Names /\ \A g \in Names : Loaded(g) => g # h
    BY <1>1, LoadedIsNotHead
<1>. HIDE DEF h
<1>3. /\ \A g \in Names : g # h => ram'[g] = ram[g] /\ asked'[g] = asked[g]
      /\ ram'[h] = buf /\ (h \notin early => asked'[h] = {buf})
    BY <1>1, <1>2 DEF SettingsInv, Held
<1>4. Held'
    BY <1>1, <1>2, <1>3 DEF SettingsInv, Held
<1>5. Booting' /\ \A g \in Names : /\ Loaded(g)' /\ g # h => Loaded(g)
                                   /\ Loaded(g) => Loaded(g)'
    BY <1>1, NextGroupIs DEF Booting, h
<1>6. Commanding'
    BY <1>1 DEF SettingsInv, Commanding, Left
<1>7. Settled'
    BY <1>1, <1>2, <1>3, <1>5 DEF SettingsInv, Commanding, Settled, Pending
<1>8. ASSUME NEW g \in Names, Loaded(g)', g \notin early, cmd = "idle" \/ group # g
      PROVE  ram'[g] = nv[g]
  <2>1. CASE g = h
      BY <1>1, <1>3, <1>8, <2>1
  <2>2. CASE g # h
    <3>1. Loaded(g)
        BY <1>5, <1>8, <2>2
    <3>2. ram[g] = nv[g]
        BY <1>8, <3>1 DEF SettingsInv, ShownIsStored
    <3>. QED
        BY <1>3, <2>2, <3>2
  <2>. QED
      BY <2>1, <2>2
<1>9. ASSUME NEW g \in Names \ early
      PROVE  nv[g] \in asked'[g]
  <2>1. CASE g = h
      BY <1>1, <1>3, <2>1
  <2>2. CASE g # h
      BY <1>3, <2>2 DEF SettingsInv, StoredIsAsked
  <2>. QED
      BY <2>1, <2>2
<1>10. ShownIsStored' /\ StoredIsAsked'
    BY <1>1, <1>8, <1>9 DEF ShownIsStored, StoredIsAsked
<1>. QED
    BY <1>4, <1>5, <1>6, <1>7, <1>10 DEF SettingsInv

-----------------------------------------------------------------------------
LEMMA ParseInv ==
    ASSUME AddressesApart, NEW g \in Names, NEW c \in Commands(g), SettingsInv, Parse(g, c)
    PROVE  SettingsInv'
<1>1. /\ UNCHANGED <<nv, init_ok, ram, boot, loading, buf>>
      /\ cmd = "idle" /\ cmd' = "exec" /\ group' = g
      /\ arg' = [f \in FieldsOf(g) |-> Resolve(f, c[f], ram[g][f])]
      /\ next' = Fields[g] /\ need_save' = FALSE
      /\ early' = early \cup ({g} \cap {loading[i] : i \in 1..Len(loading)})
      /\ goal' = Asked(ram[g], c)
      /\ asked' = [asked EXCEPT ![g] = @ \cup {goal'}]
    BY DEF Parse, bootVars
<1>2. /\ early \subseteq early'
      /\ g \notin early' => g \notin early /\ Loaded(g)
    BY <1>1 DEF Loaded
<1>3. /\ ram[g] \in Records(g)
      /\ goal' \in Records(g)
      /\ \A f \in FieldsOf(g) : /\ arg'[f] \in Parsed(f)
                                /\ ExecValue(f, ram[g][f], arg'[f]) = goal'[f]
  <2>1. ram[g] \in Records(g)
      BY DEF SettingsInv, Held
  <2>. QED
      BY <1>1, <2>1, GoalIsTyped
<1>4. /\ asked' = [h \in Names |-> asked'[h]]
      /\ \A h \in Names : asked[h] \subseteq asked'[h]
      /\ goal' \in asked'[g]
  <2>1. asked = [h \in Names |-> asked[h]]
      BY DEF SettingsInv, Held
  <2>. QED
      BY <1>1, <2>1
<1>5. Held'
    BY <1>1, <1>4 DEF SettingsInv, Held
<1>6. Booting'
    BY <1>1, <1>2 DEF SettingsInv, Booting
<1>7. Commanding'
    BY <1>1, <1>3 DEF Commanding, Left
<1>8. ASSUME g \notin early'
      PROVE  ram[g] = nv[g] /\ Loaded(g)'
    BY <1>1, <1>2, <1>8 DEF SettingsInv, ShownIsStored, Loaded
<1>9. Settled'
    BY <1>1, <1>3, <1>4, <1>8 DEF Settled, Pending
<1>10. ShownIsStored' /\ StoredIsAsked'
    BY <1>1, <1>2, <1>4 DEF SettingsInv, ShownIsStored, StoredIsAsked, Loaded
<1>. QED
    BY <1>5, <1>6, <1>7, <1>9, <1>10 DEF SettingsInv

LEMMA ExecFieldInv == SettingsInv /\ ExecField => SettingsInv'
<1>. SUFFICES ASSUME SettingsInv, ExecField PROVE SettingsInv'
    OBVIOUS
<1>. DEFINE f == Head(next)
            new == ExecValue(f, ram[group][f], arg[f])
            f1 == Fields[group][1]
            f2 == Fields[group][2]
<1>1. /\ UNCHANGED <<nv, init_ok, boot, loading, buf, group, arg, sum, early, goal, asked>>
      /\ cmd = "exec"
      /\ ram' = [ram EXCEPT ![group][f] = new]
      /\ need_save' = (need_save \/ new # ram[group][f])
      /\ next' = Tail(next)
      /\ cmd' = IF Len(next) > 1 THEN "exec" ELSE IF need_save' THEN "save" ELSE "answer"
    BY DEF ExecField, bootVars, ghosts
<1>2. /\ group \in Names /\ goal \in Records(group) /\ need_save \in BOOLEAN
      /\ \A e \in FieldsOf(group) : arg[e] \in Parsed(e)
      /\ next = Fields[group] \/ next = <<f2>>
    BY <1>1 DEF SettingsInv, Commanding, Left
<1>3. Fields[group] = <<f1, f2>> /\ f1 # f2 /\ FieldsOf(group) = {f1, f2}
    BY <1>2, NamesAre, TwoFields
<1>. HIDE DEF f1, f2
<1>4. \/ next = <<f1, f2>> /\ f = f1 /\ next' = <<f2>> /\ cmd' = "exec"
      \/ /\ next = <<f2>> /\ f = f2
         /\ cmd' = IF need_save' THEN "save" ELSE "answer"
  <2>1. CASE next = <<f1, f2>>
    <3>1. Head(next) = f1 /\ Tail(next) = <<f2>> /\ Len(next) = 2
        BY <2>1
    <3>. QED
        BY <1>1, <2>1, <3>1
  <2>2. CASE next = <<f2>>
    <3>1. Head(next) = f2 /\ Len(next) = 1
        BY <2>2
    <3>. QED
        BY <1>1, <2>2, <3>1
  <2>. QED
      BY <1>2, <1>3, <2>1, <2>2
<1>. HIDE DEF f, new
<1>5. f \in FieldsOf(group) /\ new \in Values(f) /\ ram[group] \in Records(group)
  <2>1. f \in FieldsOf(group)
      BY <1>3, <1>4
  <2>2. ram[group] \in Records(group)
      BY <1>2 DEF SettingsInv, Held
  <2>3. ram[group][f] \in Values(f) /\ arg[f] \in Parsed(f)
      BY <1>2, <2>1, <2>2, RecordsAre
  <2>. QED
      BY <1>2, <2>1, <2>2, <2>3, FieldIsTyped DEF new
<1>6. ram[group] = [e \in FieldsOf(group) |-> ram[group][e]]
      /\ \A e \in FieldsOf(group) : ram[group][e] \in Values(e)
    BY <1>2, <1>5, RecordsAre
<1>7. ram = [g \in Names |-> ram[g]] /\ \A g \in Names : ram[g] \in Records(g)
    BY DEF SettingsInv, Held
<1>8. /\ ram' = [g \in Names |-> ram'[g]]
      /\ \A g \in Names : g # group => ram'[g] = ram[g]
      /\ ram'[group] = [ram[group] EXCEPT ![f] = new]
    BY <1>1, <1>2, <1>7
<1>9. /\ ram'[group] = [e \in FieldsOf(group) |-> ram'[group][e]]
      /\ ram'[group][f] = new
      /\ \A e \in FieldsOf(group) : e # f => ram'[group][e] = ram[group][e]
    BY <1>5, <1>6, <1>8
<1>10. ram'[group] \in Records(group)
    BY <1>2, <1>5, <1>6, <1>9, RecordsAre
<1>11. Held'
    BY <1>1, <1>7, <1>8, <1>10 DEF SettingsInv, Held
<1>12. Booting'
    BY <1>1 DEF SettingsInv, Booting
<1>13. cmd' \in {"exec", "save", "answer"} /\ need_save' \in BOOLEAN
       /\ (cmd' = "exec" => next' = <<f2>>)
    BY <1>1, <1>2, <1>4
<1>14. Commanding'
    BY <1>1, <1>2, <1>13 DEF Commanding, Left, f2
<1>15. ShownIsStored' /\ StoredIsAsked'
    BY <1>1, <1>8, <1>13 DEF SettingsInv, ShownIsStored, StoredIsAsked, Loaded
<1>16. ASSUME group \notin early
       PROVE  /\ Loaded(group)
              /\ goal \in asked[group]
              /\ \A e \in FieldsOf(group) :
                   IF e = f2 \/ next = <<f1, f2>>
                   THEN ExecValue(e, ram[group][e], arg[e]) = goal[e]
                   ELSE ram[group][e] = goal[e]
              /\ ~need_save => ram[group] = nv[group]
    BY <1>1, <1>3, <1>16 DEF SettingsInv, Settled, Pending, f2
<1>17. ASSUME group \notin early PROVE new = goal[f]
    BY <1>3, <1>4, <1>5, <1>16, <1>17 DEF new
<1>18. ASSUME group \notin early, ~need_save' PROVE ram'[group] = nv[group]
  <2>1. new = ram[group][f] /\ ~need_save
      BY <1>1, <1>18
  <2>2. ram'[group] = ram[group]
      BY <1>6, <1>8, <2>1
  <2>. QED
      BY <1>16, <1>18, <2>1, <2>2
<1>19. ASSUME group \notin early, cmd' # "exec" PROVE ram'[group] = goal
  <2>1. f = f2 /\ next = <<f2>>
      BY <1>4, <1>19
  <2>2. next # <<f1, f2>>
      BY <2>1
  <2>3. \A e \in FieldsOf(group) : ram'[group][e] = goal[e]
      BY <1>3, <1>9, <1>16, <1>17, <1>19, <2>1, <2>2
  <2>4. goal = [e \in FieldsOf(group) |-> goal[e]]
      BY <1>2, RecordsAre
  <2>. QED
      BY <1>9, <2>3, <2>4
<1>20. ASSUME group \notin early, cmd' = "exec"
       PROVE  \A e \in FieldsOf(group) :
                 IF e = f2 THEN ExecValue(e, ram'[group][e], arg[e]) = goal[e]
                           ELSE ram'[group][e] = goal[e]
  <2>1. f = f1 /\ next = <<f1, f2>>
      BY <1>4, <1>20
  <2>. QED
      BY <1>3, <1>9, <1>16, <1>17, <1>20, <2>1
<1>21. Settled'
  <2>1. ASSUME group \notin early
        PROVE  /\ Loaded(group)'
               /\ cmd' = "exec" => \A e \in FieldsOf(group) :
                    IF e = f2 \/ next' = Fields[group]
                    THEN ExecValue(e, ram'[group][e], arg[e]) = goal[e]
                    ELSE ram'[group][e] = goal[e]
    <3>1. Loaded(group)'
        BY <1>1, <1>16, <2>1 DEF Loaded
    <3>2. cmd' = "exec" => next' # Fields[group]
        BY <1>3, <1>13
    <3>. QED
        BY <1>20, <2>1, <3>1, <3>2
  <2>2. cmd' = "answer" => ~need_save'
      BY <1>4
  <2>. QED
      BY <1>1, <1>13, <1>16, <1>18, <1>19, <2>1, <2>2 DEF Settled, Pending, f2
<1>. QED
    BY <1>11, <1>12, <1>14, <1>15, <1>21 DEF SettingsInv

LEMMA SaveInv == SettingsInv /\ Save => SettingsInv'
<1>. SUFFICES ASSUME SettingsInv, Save PROVE SettingsInv'
    OBVIOUS
<1>1. /\ UNCHANGED <<nv, init_ok, ram, boot, loading, buf, group, arg, next, need_save,
                     early, goal, asked>>
      /\ cmd = "save"
      /\ IF init_ok THEN cmd' = "data" /\ sum' = ram[group]
         ELSE cmd' = "answer" /\ UNCHANGED sum
    BY DEF Save, bootVars, ghosts
<1>2. group \in Names /\ goal \in Records(group) /\ ram[group] \in Records(group)
    BY <1>1 DEF SettingsInv, Commanding, Held
<1>3. Loaded(group) => init_ok = TRUE
  <2>1. PICK i \in 1..Len(Groups) : Groups[i] = group
      BY <1>2, NamesAre
  <2>. QED
      BY <2>1 DEF SettingsInv, Booting, Loaded
<1>4. cmd' \in {"data", "answer"} /\ (cmd' = "data" => sum' = ram[group])
    BY <1>1
<1>5. Held' /\ Booting' /\ StoredIsAsked'
    BY <1>1 DEF SettingsInv, Held, Booting, StoredIsAsked
<1>6. Commanding'
    BY <1>1, <1>2, <1>4 DEF Commanding
<1>7. ShownIsStored'
    BY <1>1, <1>4 DEF SettingsInv, ShownIsStored, Loaded
<1>8. ASSUME group \notin early
      PROVE  Loaded(group) /\ goal \in asked[group] /\ ram[group] = goal /\ cmd' = "data"
    BY <1>1, <1>3, <1>8 DEF SettingsInv, Settled
<1>9. Settled'
    BY <1>1, <1>4, <1>8 DEF Settled, Loaded
<1>. QED
    BY <1>5, <1>6, <1>7, <1>9 DEF SettingsInv

LEMMA SaveDataInv == SettingsInv /\ SaveData => SettingsInv'
<1>. SUFFICES ASSUME SettingsInv, SaveData PROVE SettingsInv'
    OBVIOUS
<1>1. /\ UNCHANGED <<init_ok, ram, boot, loading, buf, group, arg, next, need_save,
                     early, goal, asked>>
      /\ cmd = "data" /\ cmd' = "answer"
      /\ nv' = [nv EXCEPT ![group] = IF ram[group] = sum THEN sum ELSE Missing]
    BY DEF SaveData, bootVars, ghosts
<1>2. group \in Names /\ goal \in Records(group) /\ sum \in Records(group)
    BY <1>1 DEF SettingsInv, Commanding
<1>3. ASSUME group \notin early
      PROVE  Loaded(group) /\ goal \in asked[group] /\ ram[group] = goal /\ sum = goal
    BY <1>1, <1>3 DEF SettingsInv, Settled
<1>4. /\ nv' = [g \in Names |-> nv'[g]]
      /\ \A g \in Names : g # group => nv'[g] = nv[g]
      /\ nv'[group] \in Records(group) \cup {Missing}
      /\ group \notin early => nv'[group] = goal
  <2>1. nv = [g \in Names |-> nv[g]]
      BY DEF SettingsInv, Held
  <2>. QED
      BY <1>1, <1>2, <1>3, <2>1
<1>5. Held'
    BY <1>1, <1>4 DEF SettingsInv, Held
<1>6. ASSUME loading # << >>, Head(loading) \notin early
      PROVE  nv'[Head(loading)] = nv[Head(loading)]
  <2>1. loading \in Seq(Names) /\ Head(loading) \in Names
      BY <1>6 DEF SettingsInv, Booting
  <2>2. Head(loading) # group
      BY <1>2, <1>3, <1>6, <2>1, LoadedIsNotHead
  <2>. QED
      BY <1>4, <2>1, <2>2
<1>7. Booting'
    BY <1>1, <1>6 DEF SettingsInv, Booting
<1>8. Commanding'
    BY <1>1, <1>2 DEF Commanding
<1>9. Settled'
    BY <1>1, <1>3, <1>4 DEF Settled, Loaded
<1>10. ShownIsStored'
    BY <1>1, <1>4 DEF SettingsInv, ShownIsStored, Loaded
<1>11. StoredIsAsked'
    BY <1>1, <1>3, <1>4 DEF SettingsInv, StoredIsAsked
<1>. QED
    BY <1>5, <1>7, <1>8, <1>9, <1>10, <1>11 DEF SettingsInv

LEMMA AnswerInv == SettingsInv /\ Answer => SettingsInv'
<1>. SUFFICES ASSUME SettingsInv, Answer PROVE SettingsInv'
    OBVIOUS
<1>1. /\ UNCHANGED <<nv, init_ok, ram, boot, loading, buf, early>>
      /\ cmd = "answer" /\ cmd' = "idle" /\ group' = Groups[1]
      /\ asked' = [asked EXCEPT ![group] = {goal}]
    BY DEF Answer, bootVars
<1>2. group \in Names
    BY DEF SettingsInv, Commanding
<1>3. ASSUME group \notin early
      PROVE  ram[group] = goal /\ nv[group] = goal
    BY <1>1, <1>3 DEF SettingsInv, Settled
<1>4. /\ asked' = [g \in Names |-> asked'[g]]
      /\ \A g \in Names : g # group => asked'[g] = asked[g]
      /\ asked'[group] = {goal}
  <2>1. asked = [g \in Names |-> asked[g]]
      BY DEF SettingsInv, Held
  <2>. QED
      BY <1>1, <1>2, <2>1
<1>5. Held'
    BY <1>1, <1>4 DEF SettingsInv, Held
<1>6. Booting'
    BY <1>1 DEF SettingsInv, Booting
<1>7. Commanding' /\ Settled'
    BY <1>1, NamesAre DEF Commanding, Settled
<1>8. ShownIsStored'
    BY <1>1, <1>3 DEF SettingsInv, ShownIsStored, Loaded
<1>9. StoredIsAsked'
    BY <1>1, <1>3, <1>4 DEF SettingsInv, StoredIsAsked
<1>. QED
    BY <1>5, <1>6, <1>7, <1>8, <1>9 DEF SettingsInv

LEMMA PowerFailsInv == SettingsInv /\ PowerFails => SettingsInv'
<1>. SUFFICES ASSUME SettingsInv, PowerFails PROVE SettingsInv'
    OBVIOUS
<1>1. /\ nv' = nv
      /\ ram' = [g \in Names |-> Zero(g)]
      /\ boot' = "init" /\ loading' = Groups
      /\ cmd' = "idle" /\ group' = Groups[1] /\ early' = {}
      /\ asked' = [g \in Names |-> IF g \in early THEN {nv[g]} ELSE asked[g]]
    BY DEF PowerFails
<1>2. Held'
    BY <1>1, ZeroAndDefault DEF SettingsInv, Held
<1>3. Booting'
    BY <1>1, NamesAre DEF Booting
<1>4. Commanding' /\ Settled'
    BY <1>1, NamesAre DEF Commanding, Settled
<1>5. ShownIsStored'
    BY <1>1, NamesAre DEF ShownIsStored, Loaded
<1>6. StoredIsAsked'
    BY <1>1 DEF SettingsInv, StoredIsAsked
<1>. QED
    BY <1>2, <1>3, <1>4, <1>5, <1>6 DEF SettingsInv

\* Every step of either task, and every power failure, keeps the invariant.
LEMMA StepSettings == AddressesApart /\ SettingsInv /\ [Next]_vars => SettingsInv'
<1>. SUFFICES ASSUME AddressesApart, SettingsInv, [Next]_vars PROVE SettingsInv'
    OBVIOUS
<1>1. CASE BootStep
    BY <1>1, NvItemInitInv, BootReadInv, BootDefaultInv, BootCopyInv DEF BootStep
<1>2. CASE CommandStep
    BY <1>2, ExecFieldInv, SaveInv, SaveDataInv, AnswerInv DEF CommandStep
<1>3. CASE \E g \in Names : \E c \in Commands(g) : Parse(g, c)
    BY <1>3, ParseInv
<1>4. CASE PowerFails
    BY <1>4, PowerFailsInv
<1>5. CASE UNCHANGED vars
    BY <1>5 DEF vars, bootVars, cmdVars, ghosts, SettingsInv, Held, Booting, Commanding,
                Settled, Left, Pending, ShownIsStored, StoredIsAsked, Loaded
<1>. QED
    BY <1>1, <1>2, <1>3, <1>4, <1>5 DEF Next

\* btlink_nv.c:168-213, btlink_protocol_cmd.c:50-425.  Between commands every
\* group loaded before its first command is in RAM as it is stored.
THEOREM SettingsShownAreStored == AddressesApart => (Spec => []ShownIsStored)
<1>. SUFFICES ASSUME AddressesApart PROVE Spec => []ShownIsStored
    OBVIOUS
<1>1. SettingsInv /\ [Next]_vars => SettingsInv'
    BY StepSettings
<1>2. SettingsInv => ShownIsStored
    BY DEF SettingsInv
<1>. QED
    BY InitSettings, <1>1, <1>2, PTL DEF Spec

\* btlink_protocol_cmd.c:50-425.  However power fails and commands come, a
\* group is stored as a command asked for it as a whole, and never mixes two.
THEOREM SettingsStoredAreAsked == AddressesApart => (Spec => []StoredIsAsked)
<1>. SUFFICES ASSUME AddressesApart PROVE Spec => []StoredIsAsked
    OBVIOUS
<1>1. SettingsInv /\ [Next]_vars => SettingsInv'
    BY StepSettings
<1>2. SettingsInv => StoredIsAsked
    BY DEF SettingsInv
<1>. QED
    BY InitSettings, <1>1, <1>2, PTL DEF Spec

-----------------------------------------------------------------------------
(* The types, for all addresses.  What a command asks for does not matter   *)
(* here; that a buffer is empty between its uses does.                      *)

\* The groups still to load are the last of Groups.
LEMMA RestOfGroups ==
    ASSUME loading \in Seq(Names), loading # << >>, Len(loading) <= Len(Groups),
           loading = SubSeq(Groups, Len(Groups) - Len(loading) + 1, Len(Groups))
    PROVE  /\ Tail(loading) =
                  SubSeq(Groups, Len(Groups) - Len(Tail(loading)) + 1, Len(Groups))
           /\ Len(Tail(loading)) <= Len(Groups)
<1>. DEFINE n == Len(Groups)
            k == Len(loading)
            m == n - k + 1
<1>1. n \in Nat \ {0} /\ k \in Nat \ {0}
    BY NamesAre, EmptySeq
<1>2. m \in 1..n /\ n \in m..n
    BY <1>1
<1>3. Len(Tail(loading)) = k - 1
    BY <1>1, HeadTailProperties
<1>. HIDE DEF m
<1>4. Tail(loading) = SubSeq(Groups, m + 1, n)
    BY <1>2, NamesAre, HeadTailOfSubSeq DEF m
<1>. QED
    BY <1>1, <1>3, <1>4 DEF m

\* app_main does not touch the command task's variables, nor it app_main's.
TypedBoot == /\ loading = SubSeq(Groups, Len(Groups) - Len(loading) + 1, Len(Groups))
             /\ Len(loading) <= Len(Groups)
             /\ loading \in Seq(Names)
             /\ boot \in {"init", "read", "default", "reread", "copy", "done"}
             /\ boot # "done" => loading # << >>
             /\ IF boot = "copy" THEN buf \in Records(Head(loading))
                                 ELSE buf = Missing

TypedCommand == /\ cmd \in {"idle", "exec", "save", "data", "answer"}
                /\ group \in Names
                /\ need_save \in BOOLEAN
                /\ IF cmd = "exec"
                   THEN Left /\ \A f \in FieldsOf(group) : arg[f] \in Parsed(f)
                   ELSE next = << >>
                /\ IF cmd = "data" THEN sum \in Records(group) ELSE sum = Missing

TypedRest == /\ nv = [g \in Names |-> nv[g]]
             /\ \A g \in Names : nv[g] \in Records(g) \cup {Missing}
             /\ ram = [g \in Names |-> ram[g]]
             /\ \A g \in Names : ram[g] \in Records(g)
             /\ init_ok \in BOOLEAN
             /\ failures \in 0..MaxFailures /\ commands \in 0..MaxCommands
             /\ early \subseteq Names

TypeInv == TypedBoot /\ TypedCommand /\ TypedRest

LEMMA TypeInvIsTypeOK == TypeInv => TypeOK
<1>. SUFFICES ASSUME TypeInv PROVE TypeOK
    OBVIOUS
<1>1. next \in Seq(FieldsOf(group))
  <2>1. group \in AllNames
      BY NamesAre DEF TypeInv, TypedCommand
  <2>2. /\ Fields[group] = <<Fields[group][1], Fields[group][2]>>
        /\ Fields[group][1] \in FieldsOf(group) /\ Fields[group][2] \in FieldsOf(group)
      BY <2>1, TwoFields
  <2>3. next = << >> \/ next = Fields[group] \/ next = <<Fields[group][2]>>
      BY DEF TypeInv, TypedCommand, Left
  <2>. DEFINE f1 == Fields[group][1]
              f2 == Fields[group][2]
  <2>4. /\ next = << >> \/ next = <<f1, f2>> \/ next = <<f2>>
        /\ f1 \in FieldsOf(group) /\ f2 \in FieldsOf(group)
      BY <2>2, <2>3
  <2>. HIDE DEF f1, f2
  <2>5. /\ << >> \in Seq(FieldsOf(group))
        /\ <<f1, f2>> \in Seq(FieldsOf(group))
        /\ <<f2>> \in Seq(FieldsOf(group))
      BY <2>4
  <2>. QED
      BY <2>4, <2>5
<1>2. buf # Missing => loading # << >> /\ buf \in Records(Head(loading))
    BY DEF TypeInv, TypedBoot
<1>3. sum \in Records(group) \cup {Missing}
    BY DEF TypeInv, TypedCommand
<1>. QED
    BY <1>1, <1>2, <1>3 DEF TypeOK, TypeInv, TypedBoot, TypedCommand, TypedRest

LEMMA InitTyped == Init => TypeInv
<1>. SUFFICES ASSUME Init PROVE TypeInv
    OBVIOUS
<1>1. TypedBoot
  <2>1. SubSeq(Groups, 1, Len(Groups)) = Groups /\ Len(Groups) \in Nat
      BY NamesAre, SubSeqFull, LenProperties
  <2>2. Len(Groups) - Len(Groups) + 1 = 1
      BY <2>1
  <2>. QED
      BY <2>1, <2>2, NamesAre DEF Init, TypedBoot
<1>2. TypedCommand
    BY NamesAre DEF Init, TypedCommand
<1>3. TypedRest
  <2>1. \A g \in Names : Zero(g) \in Records(g)
      BY ZeroAndDefault
  <2>2. failures \in 0..MaxFailures /\ commands \in 0..MaxCommands
      BY BoundsAssumption DEF Init
  <2>. QED
      BY <2>1, <2>2 DEF Init, TypedRest
<1>. QED
    BY <1>1, <1>2, <1>3 DEF TypeInv

\* Loading goes on with the groups that are left.
LEMMA NextGroupTyped ==
    ASSUME TypedBoot, loading # << >>, NextGroup, buf' = Missing
    PROVE  TypedBoot'
<1>1. loading' = Tail(loading)
    BY DEF NextGroup
<1>2. /\ loading' \in Seq(Names)
      /\ boot' \in {"read", "done"}
      /\ boot' # "done" => loading' # << >>
    BY NextGroupIs DEF TypedBoot
<1>. QED
    BY <1>1, <1>2, RestOfGroups DEF TypedBoot

LEMMA BootTyped == TypeInv /\ BootStep => TypeInv'
<1>. SUFFICES ASSUME TypeInv, BootStep PROVE TypeInv'
    OBVIOUS
<1>. DEFINE h == Head(loading)
<1>1. boot # "done" => h \in Names
    BY HeadTailProperties DEF TypeInv, TypedBoot
<1>2. CASE NvItemInit
    BY <1>2 DEF NvItemInit, cmdVars, bounds, ghosts, TypeInv, TypedBoot, TypedCommand,
                TypedRest, Left
<1>3. CASE BootRead
  <2>1. /\ UNCHANGED <<nv, init_ok, ram, cmdVars, bounds, early>>
        /\ buf' = nv[h]
        /\ loading # << >> /\ boot \in {"read", "reread"}
      BY <1>3 DEF BootRead, ghosts, TypeInv, TypedBoot
  <2>2. TypedCommand' /\ TypedRest'
      BY <2>1 DEF cmdVars, bounds, TypeInv, TypedCommand, TypedRest, Left
  <2>3. buf' \in Records(h) \cup {Missing}
      BY <1>1, <2>1 DEF TypeInv, TypedRest
  <2>4. CASE buf' # Missing
      BY <1>3, <2>1, <2>2, <2>3, <2>4 DEF BootRead, TypeInv, TypedBoot
  <2>5. CASE buf' = Missing /\ boot = "read"
      BY <1>3, <2>1, <2>2, <2>5 DEF BootRead, TypeInv, TypedBoot
  <2>6. CASE buf' = Missing /\ boot # "read"
    <3>1. NextGroup
        BY <1>3, <2>6 DEF BootRead
    <3>. QED
        BY <2>1, <2>2, <2>6, <3>1, NextGroupTyped DEF TypeInv
  <2>. QED
      BY <2>1, <2>4, <2>5, <2>6
<1>4. CASE BootDefault
  <2>1. /\ UNCHANGED <<init_ok, ram, loading, buf, cmdVars, bounds, early>>
        /\ boot = "default" /\ boot' = "reread"
        /\ nv' = [nv EXCEPT ![h] = Default(h)]
      BY <1>4 DEF BootDefault
  <2>2. h \in Names /\ Default(h) \in Records(h)
      BY <1>1, <2>1, ZeroAndDefault
  <2>. HIDE DEF h
  <2>3. TypedRest'
      BY <2>1, <2>2 DEF bounds, TypeInv, TypedRest
  <2>4. TypedBoot' /\ TypedCommand'
      BY <2>1 DEF cmdVars, TypeInv, TypedBoot, TypedCommand, Left
  <2>. QED
      BY <2>3, <2>4 DEF TypeInv
<1>5. CASE BootCopy
  <2>1. /\ UNCHANGED <<nv, init_ok, cmdVars, bounds, early>>
        /\ boot = "copy" /\ NextGroup /\ buf' = Missing
        /\ ram' = [ram EXCEPT ![h] = buf]
      BY <1>5 DEF BootCopy
  <2>2. h \in Names /\ buf \in Records(h) /\ loading # << >>
      BY <1>1, <2>1 DEF TypeInv, TypedBoot
  <2>. HIDE DEF h
  <2>3. TypedRest'
      BY <2>1, <2>2 DEF bounds, TypeInv, TypedRest
  <2>4. TypedBoot'
      BY <2>1, <2>2, NextGroupTyped DEF TypeInv
  <2>5. TypedCommand'
      BY <2>1 DEF cmdVars, TypeInv, TypedCommand, Left
  <2>. QED
      BY <2>3, <2>4, <2>5 DEF TypeInv
<1>. QED
    BY <1>2, <1>3, <1>4, <1>5 DEF BootStep

LEMMA ParseTyped ==
    ASSUME NEW g \in Names, NEW c \in Commands(g), TypeInv, Parse(g, c)
    PROVE  TypeInv'
<1>1. /\ UNCHANGED <<nv, init_ok, ram, bootVars, sum, failures>>
      /\ cmd = "idle" /\ cmd' = "exec" /\ group' = g /\ need_save' = FALSE
      /\ arg' = [f \in FieldsOf(g) |-> Resolve(f, c[f], ram[g][f])]
      /\ next' = Fields[g]
      /\ commands < MaxCommands /\ commands' = commands + 1
      /\ early' \subseteq early \cup {g}
    BY DEF Parse
<1>2. ASSUME NEW f \in FieldsOf(g)
      PROVE  arg'[f] \in Parsed(f)
  <2>1. ram[g] \in Records(g)
      BY DEF TypeInv, TypedRest
  <2>2. ram[g][f] \in Values(f) /\ c[f] \in Given(f)
      BY <2>1, RecordsAre DEF Commands
  <2>3. arg'[f] = Resolve(f, c[f], ram[g][f])
      BY <1>1
  <2>4. Resolve(f, c[f], ram[g][f]) \in Parsed(f)
      BY <2>2, ResolveIsTyped
  <2>. QED
      BY <2>3, <2>4
<1>3. TypedCommand'
    BY <1>1, <1>2 DEF TypeInv, TypedCommand, Left
<1>4. TypedBoot'
    BY <1>1 DEF bootVars, TypeInv, TypedBoot
<1>5. commands' \in 0..MaxCommands
    BY <1>1, BoundsAssumption DEF TypeInv, TypedRest
<1>6. TypedRest'
    BY <1>1, <1>5 DEF TypeInv, TypedRest
<1>. QED
    BY <1>3, <1>4, <1>6 DEF TypeInv

LEMMA CommandTyped == TypeInv /\ CommandStep => TypeInv'
<1>. SUFFICES ASSUME TypeInv, CommandStep PROVE TypeInv'
    OBVIOUS
<1>1. UNCHANGED <<bootVars, init_ok, bounds, early>>
    BY DEF CommandStep, ExecField, Save, SaveData, Answer, bootVars, ghosts
<1>2. TypedBoot'
    BY <1>1 DEF bootVars, TypeInv, TypedBoot
<1>3. CASE ExecField
  <2>. DEFINE f == Head(next)
              new == ExecValue(f, ram[group][f], arg[f])
  <2>1. /\ UNCHANGED <<nv, group, arg, sum>>
        /\ cmd = "exec" /\ next' = Tail(next)
        /\ ram' = [ram EXCEPT ![group][f] = new]
        /\ need_save' = (need_save \/ new # ram[group][f])
        /\ cmd' = IF Len(next) > 1 THEN "exec"
                  ELSE IF need_save' THEN "save" ELSE "answer"
      BY <1>3 DEF ExecField, ghosts
  <2>2. /\ group \in Names /\ need_save \in BOOLEAN /\ sum = Missing
        /\ \A e \in FieldsOf(group) : arg[e] \in Parsed(e)
        /\ next = Fields[group] \/ next = <<Fields[group][2]>>
      BY <2>1 DEF TypeInv, TypedCommand, Left
  <2>3. /\ Fields[group] = <<Fields[group][1], Fields[group][2]>>
        /\ FieldsOf(group) = {Fields[group][1], Fields[group][2]}
      BY <2>2, NamesAre, TwoFields
  <2>4. /\ f \in FieldsOf(group)
        /\ \/ next' = <<Fields[group][2]>> /\ cmd' = "exec"
           \/ next' = << >> /\ cmd' \in {"save", "answer"}
    <3>. DEFINE f1 == Fields[group][1]
                f2 == Fields[group][2]
    <3>. HIDE DEF f1, f2
    <3>1. next = <<f1, f2>> \/ next = <<f2>>
        BY <2>2, <2>3 DEF f1, f2
    <3>2. FieldsOf(group) = {f1, f2}
        BY <2>3 DEF f1, f2
    <3>3. CASE next = <<f1, f2>>
      <4>1. Len(next) = 2 /\ f = f1 /\ Tail(next) = <<f2>>
          BY <3>3
      <4>. QED
          BY <2>1, <3>2, <4>1 DEF f2
    <3>4. CASE next = <<f2>>
      <4>1. Len(next) = 1 /\ f = f2 /\ Tail(next) = << >>
          BY <3>4
      <4>. QED
          BY <2>1, <3>2, <4>1
    <3>. QED
        BY <3>1, <3>3, <3>4
  <2>. HIDE DEF f, new
  <2>5. TypedCommand'
    <3>1. need_save' \in BOOLEAN
        BY <2>1, <2>2
    <3>. QED
        BY <2>1, <2>2, <2>4, <3>1 DEF TypedCommand, Left
  <2>6. ram[group] \in Records(group)
      BY <2>2 DEF TypeInv, TypedRest
  <2>7. /\ ram[group] = [e \in FieldsOf(group) |-> ram[group][e]]
        /\ \A e \in FieldsOf(group) : ram[group][e] \in Values(e)
      BY <2>2, <2>6, RecordsAre
  <2>8. new \in Values(f)
      BY <2>2, <2>4, <2>7, FieldIsTyped DEF new
  <2>9. /\ ram' = [g \in Names |-> ram'[g]]
        /\ \A g \in Names : g # group => ram'[g] = ram[g]
        /\ ram'[group] = [ram[group] EXCEPT ![f] = new]
      BY <2>1, <2>2 DEF TypeInv, TypedRest
  <2>10. /\ ram'[group] = [e \in FieldsOf(group) |-> ram'[group][e]]
         /\ \A e \in FieldsOf(group) : ram'[group][e] \in Values(e)
      BY <2>4, <2>7, <2>8, <2>9
  <2>11. ram'[group] \in Records(group)
      BY <2>2, <2>10, RecordsAre
  <2>12. TypedRest'
      BY <1>1, <2>1, <2>2, <2>9, <2>11 DEF bounds, TypeInv, TypedRest
  <2>. QED
      BY <1>2, <2>5, <2>12 DEF TypeInv
<1>4. CASE Save
  <2>1. ram[group] \in Records(group)
      BY DEF TypeInv, TypedCommand, TypedRest
  <2>2. TypedCommand'
      BY <1>4, <2>1 DEF Save, TypeInv, TypedCommand
  <2>3. TypedRest'
      BY <1>1, <1>4 DEF Save, bounds, TypeInv, TypedRest
  <2>. QED
      BY <1>2, <2>2, <2>3 DEF TypeInv
<1>5. CASE SaveData
  <2>1. /\ group \in Names /\ sum \in Records(group)
        /\ UNCHANGED <<ram, group, arg, next, need_save>>
        /\ sum' = Missing /\ cmd' = "answer"
        /\ nv' = [nv EXCEPT ![group] = IF ram[group] = sum THEN sum ELSE Missing]
      BY <1>5 DEF SaveData, TypeInv, TypedCommand
  <2>2. TypedCommand'
      BY <1>5, <2>1 DEF SaveData, TypeInv, TypedCommand
  <2>3. TypedRest'
      BY <1>1, <2>1 DEF bounds, TypeInv, TypedRest
  <2>. QED
      BY <1>2, <2>2, <2>3 DEF TypeInv
<1>6. CASE Answer
  <2>1. TypedCommand'
      BY <1>6, NamesAre DEF Answer, TypeInv, TypedCommand
  <2>2. TypedRest'
      BY <1>1, <1>6 DEF Answer, bounds, TypeInv, TypedRest
  <2>. QED
      BY <1>2, <2>1, <2>2 DEF TypeInv
<1>. QED
    BY <1>3, <1>4, <1>5, <1>6 DEF CommandStep

LEMMA PowerFailsTyped == TypeInv /\ PowerFails => TypeInv'
<1>. SUFFICES ASSUME TypeInv, PowerFails PROVE TypeInv'
    OBVIOUS
<1>1. /\ nv' = nv /\ commands' = commands /\ init_ok' = FALSE
      /\ failures < MaxFailures /\ failures' = failures + 1
      /\ ram' = [g \in Names |-> Zero(g)]
      /\ boot' = "init" /\ loading' = Groups /\ buf' = Missing
      /\ cmd' = "idle" /\ group' = Groups[1] /\ next' = << >>
      /\ need_save' = FALSE /\ sum' = Missing /\ early' = {}
    BY DEF PowerFails
<1>2. TypedBoot'
  <2>1. SubSeq(Groups, 1, Len(Groups)) = Groups /\ Len(Groups) \in Nat
      BY NamesAre, SubSeqFull, LenProperties
  <2>2. Len(Groups) - Len(Groups) + 1 = 1
      BY <2>1
  <2>. QED
      BY <1>1, <2>1, <2>2, NamesAre DEF TypedBoot
<1>3. TypedCommand'
    BY <1>1, NamesAre DEF TypedCommand
<1>4. TypedRest'
  <2>1. \A g \in Names : Zero(g) \in Records(g)
      BY ZeroAndDefault
  <2>2. failures' \in 0..MaxFailures
      BY <1>1, BoundsAssumption DEF TypeInv, TypedRest
  <2>. QED
      BY <1>1, <2>1, <2>2 DEF TypeInv, TypedRest
<1>. QED
    BY <1>2, <1>3, <1>4 DEF TypeInv

\* btlink_nv.c:168-213, btlink_protocol_cmd.c:50-425.  A group is always a
\* record with a value of its kind in each field, in RAM and in the store,
\* whenever power fails and a command comes, loaded or not.
THEOREM SettingsTypeCorrect == Spec => []TypeOK
<1>1. TypeInv /\ [Next]_vars => TypeInv'
  <2>. SUFFICES ASSUME TypeInv, [Next]_vars PROVE TypeInv'
      OBVIOUS
  <2>1. CASE UNCHANGED vars
      BY <2>1 DEF vars, bootVars, cmdVars, bounds, ghosts, TypeInv, TypedBoot,
                  TypedCommand, TypedRest, Left
  <2>. QED
      BY <2>1, BootTyped, CommandTyped, ParseTyped, PowerFailsTyped DEF Next
<1>. QED
    BY InitTyped, TypeInvIsTypeOK, <1>1, PTL DEF Spec
=============================================================================
