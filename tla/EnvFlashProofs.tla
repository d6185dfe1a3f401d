--------------------------- MODULE EnvFlashProofs ---------------------------
(***************************************************************************)
(* What is proved of the tracker's store, for any number of sectors, nodes *)
(* to a sector, variables, values and power failures: its types, and that  *)
(* at every idle moment a variable reads as the value it was last set to   *)
(* and the cache of found variables tells the flash.  And the flash is a   *)
(* store whose variables change in one step each: EnvFlash implements      *)
(* VarStore.  And one empty sector is enough for the collections.          *)
(*                                                                         *)
(* The proof looks at the flash through four operators on its contents:    *)
(* the addresses in it, the node at an address, the committed nodes and    *)
(* the nodes prepared for deletion.  A first group of lemmas says what     *)
(* each kind of write does to these four; after it no proof opens the      *)
(* flash.  EnvInv is what the reads rest on; StoreInv, what a collection   *)
(* and a recovery know of the nodes they move, is what the store rests on; *)
(* ReserveInv, where there is room at each step, is what the reserve does. *)
(***************************************************************************)
EXTENDS EnvFlash, TLAPS, SequenceTheorems, FiniteSetTheorems,
        WellFoundedInduction

Flash == [Sectors -> Sector]

AddrsIn(f) == {a \in Sectors \X (1..Cap) : a[2] <= Len(f[a[1]].nodes)}

NodeIn(f, a) == f[a[1]].nodes[a[2]]

KeyIn(f, a) == NodeIn(f, a).key
ValIn(f, a) == NodeIn(f, a).val

WrittenIn(f) == {a \in AddrsIn(f) : /\ NodeIn(f, a).body = "whole"
                                    /\ NodeIn(f, a).status = "WRITE"}

PreparedIn(f) == {a \in AddrsIn(f) : /\ NodeIn(f, a).body = "whole"
                                     /\ NodeIn(f, a).status = "PRE_DELETE"}

Written == WrittenIn(flash)
LiveNodes == WrittenIn(flash) \union PreparedIn(flash)
KeyOf(a) == KeyIn(flash, a)
ValOf(a) == ValIn(flash, a)

-----------------------------------------------------------------------------
(* The inductive invariant.                                                *)

Copying == {"sector", "pre_write", "header", "value", "commit"}
Setting == {"prepare", "dirty", "delete", "end_set"} \union Copying
Moves == {"move", "delete"} \union Copying

\* A collection is at work on the sector gc.sec.
Collecting == gc.sec # 0 /\ pc \in {"gc_node", "erase"} \union Moves

\* Where the processor is: recovering or not, collecting or not, and with
\* which arguments.
Control ==
    /\ pc \in {"idle", "new_env", "prepare", "dirty", "end_set", "off"}
         => ~loading
    /\ pc \in {"headers", "recover", "recovered", "dirty_moved"} => loading
    /\ pc \in {"idle", "new_env", "prepare", "dirty", "end_set", "off",
               "headers", "recover", "recovered", "dirty_moved", "gc"}
         => gc.sec = 0
    /\ pc \in {"gc", "gc_sector", "gc_node", "erase", "format"} \/ gc.sec # 0
         => /\ loading => gc.back = "recover"
            /\ ~loading => gc.back \in {"new_env", "idle"}
            /\ gc.back = "new_env" => request.key \in Keys
    /\ pc = "gc_sector" => gc.sec # 0
    /\ pc \in {"gc_node", "erase", "format"} => gc.sec \in Sectors
    /\ pc = "gc_node" => gc.pos >= 1
    /\ pc = "move" => moving
    /\ pc = "new_env" => request.key \in Keys
    /\ request.key \in Keys => /\ request.val \in Vals
                               /\ request.val \in may[request.key]
    /\ pc = "off" \/ loading => request.key \notin Keys

\* A sector without a header holds nothing; the one collected is marked.
Headers ==
    /\ \A s \in Sectors : ~flash[s].ok => Len(flash[s].nodes) = 0
    /\ pc = "format" => Len(flash[gc.sec].nodes) = 0
    /\ Collecting => gc.sec \in Sectors /\ flash[gc.sec].dirty = "GC"

\* The node in the work and its place.
Place ==
    /\ pc \in Moves \union Setting => work.key \in Keys /\ work.val \in Vals
    /\ pc \in Setting /\ ~moving => /\ request.key \in Keys
                                    /\ work.key = request.key
                                    /\ work.val = request.val
    /\ pc \in Copying \union {"prepare", "dirty"}
         => work.sec \in Sectors /\ flash[work.sec].ok
    /\ pc \in {"prepare", "dirty", "sector", "pre_write"}
         => Len(flash[work.sec].nodes) < Cap
    /\ pc \in Copying /\ gc.sec # 0 => work.sec # gc.sec
    /\ pc \in {"header", "value", "commit"}
         => /\ Last \in AddrsIn(flash)
            /\ NodeIn(flash, Last).status = "PRE_WRITE"
            /\ KeyOf(Last) = work.key /\ ValOf(Last) = work.val
    /\ pc = "commit" => NodeIn(flash, Last).body = "whole"

\* The node that is replaced or moved.
Old ==
    /\ pc \in {"prepare", "dirty", "delete", "dirty_moved"}
         => work.old \in AddrsIn(flash)
    /\ pc \in Moves /\ moving => /\ work.old \in PreparedIn(flash)
                                 /\ KeyOf(work.old) = work.key
                                 /\ ValOf(work.old) = work.val
    /\ pc \in Moves /\ gc.sec # 0 => work.old = <<gc.sec, gc.pos - 1>>
    /\ pc \in Setting \ {"end_set"} /\ ~moving /\ work.old # NoAddr
         => work.old \in AddrsIn(flash) /\ KeyOf(work.old) = work.key
    /\ pc = "prepare" /\ work.key \notin dropped => work.old \in Written
    /\ (/\ pc \in {"dirty", "delete"} \union Copying /\ ~moving
        /\ work.key \notin dropped /\ work.old # NoAddr)
         => work.old \in PreparedIn(flash)

Basic == TypeOK /\ Control /\ Headers /\ Place /\ Old

\* Every live node holds a value its variable may have.
Values == \A a \in LiveNodes :
              KeyOf(a) \notin Lost => ValOf(a) \in may[KeyOf(a)]

\* A variable has one committed node at most.
OneWritten == \A a, b \in Written :
                  KeyOf(a) = KeyOf(b) /\ KeyOf(a) \notin Lost => a = b

\* Outside a recovery only the node in the work is prepared.
OnePrepared ==
    ~loading /\ pc # "off" =>
        \A a \in PreparedIn(flash) : KeyOf(a) \notin Lost =>
            a = work.old /\ pc \in {"dirty", "delete", "move"} \union Copying

\* While a node is written its variable has no committed node,
NoneWritten ==
    /\ \/ pc \in {"dirty"} \union Copying /\ (loading \/ work.key \notin Lost)
       \/ pc = "move" /\ ~loading /\ work.key \notin Lost
    => \A a \in Written : KeyOf(a) # work.key

\* and before the old one is deleted there is one,
SomeWritten == pc = "delete" /\ work.key \notin Lost
                   => \E a \in Written : KeyOf(a) = work.key

\* which after a set holds the value that was set.
Done == pc \in {"delete", "end_set"} /\ ~moving /\ work.key \notin Lost =>
            /\ \E a \in Written : KeyOf(a) = work.key
            /\ \A a \in Written : KeyOf(a) = work.key => ValOf(a) = work.val

\* The collection has yet to come to the node, or will not come to it.
Safe(a) == \/ ~Collecting
           \/ a[1] # gc.sec
           \/ pc # "erase" /\ a[2] >= gc.pos
           \/ pc \in Moves \ {"delete"} /\ a = work.old

\* A variable that must be there has a live node the collection leaves.
Kept == \A k \in Keys \ Lost :
            \/ Absent \in may[k]
            \/ \E a \in LiveNodes : KeyOf(a) = k /\ Safe(a)

\* No committed node is left behind the collection.
Passed == Collecting => \A a \in Written : a[1] = gc.sec =>
                            pc # "erase" /\ a[2] >= gc.pos

\* A cached address is that of the committed node, or of the node being
\* moved or replaced, or of the new node of a set.
CachedAt(k, c) ==
    \/ c = NoAddr
    \/ /\ c \in Written /\ KeyOf(c) = k
       /\ loading => \A b \in Written : KeyOf(b) = k => b = c
    \/ /\ c \in PreparedIn(flash) /\ c = work.old /\ work.key = k
       /\ pc \in {"dirty", "move"} \union Copying
       /\ ~moving => pc \notin {"value", "commit"}
       /\ moving => gc.sec # 0
       /\ loading => \A b \in Written : KeyOf(b) # k
    \/ c = Last /\ ~moving /\ pc \in {"value", "commit"} /\ work.key = k

Cached == \A k \in Keys \ dropped : CachedAt(k, env_cache[k])

CacheIsOff == pc = "off" => \A k \in Keys : env_cache[k] = NoAddr

Data == /\ Values /\ OneWritten /\ OnePrepared /\ NoneWritten /\ SomeWritten
        /\ Done /\ Kept /\ Passed /\ Cached /\ CacheIsOff

EnvInv == Basic /\ Data

-----------------------------------------------------------------------------
(* What the writes do to the flash.                                        *)

\* Least takes the least member.
LEMMA LeastIsLeast ==
    ASSUME NEW S, S \subseteq Nat, S # {}
    PROVE  Least(S) \in S /\ \A y \in S : Least(S) <= y
<1>1. PICK x \in S : \A y \in S : ~(<<y, x>> \in OpToRel(<, Nat))
  BY WFMin, NatLessThanWellFounded
<1>2. \A y \in S : x <= y
  <2>1. SUFFICES ASSUME NEW y \in S, y < x PROVE FALSE
    OBVIOUS
  <2>2. <<y, x>> \in Nat \X Nat /\ <<y, x>>[1] < <<y, x>>[2]
    BY <2>1
  <2>3. <<y, x>> \in OpToRel(<, Nat)
    BY <2>2, Zenon DEF OpToRel
  <2>4. QED BY <1>1, <2>3, Zenon
<1>3. QED BY <1>1, <1>2 DEF Least

\* The first address of a set is one of the set.
LEMMA FirstIsOne ==
    ASSUME NEW A, A \subseteq Nat \X Nat, A # {}
    PROVE  FirstAddr(A) \in A
<1> DEFINE S == {a[1] : a \in A}
<1> DEFINE s == Least(S)
<1> DEFINE B == {b \in A : b[1] = s}
<1>1. S \subseteq Nat /\ S # {}
  OBVIOUS
<1>2. s \in S
  BY <1>1, LeastIsLeast
<1>3. PICK a \in A : a[1] = s
  BY <1>2
<1> DEFINE I == {b[2] : b \in B}
<1>4. a \in B
  BY <1>3
<1>5. I \subseteq Nat /\ I # {}
  BY <1>4
<1>6. Least(I) \in I
  BY <1>5, LeastIsLeast
<1>7. PICK b \in B : b[2] = Least(I)
  BY <1>6
<1>8. b = <<s, Least(I)>> /\ b \in A
  BY <1>7
<1>9. FirstAddr(A) = <<s, Least(I)>>
  BY DEF FirstAddr
<1>10. QED BY <1>8, <1>9

\* A sector holds a sequence of at most Cap nodes.
LEMMA SectorHolds ==
    ASSUME NEW x \in Sector
    PROVE  /\ x.nodes \in Seq(Node) /\ Len(x.nodes) \in 0..Cap
           /\ \A i \in 1..Len(x.nodes) : x.nodes[i] \in Node
<1>1. x.nodes \in Seq(Node) /\ Len(x.nodes) <= Cap
  BY DEF Sector
<1>2. Len(x.nodes) \in Nat
  BY <1>1
<1>3. QED BY <1>1, <1>2, ElementOfSeq, EnvAssumption

\* The addresses of a flash that is one, and the nodes at them.
LEMMA AddrsHold ==
    ASSUME NEW f \in Flash
    PROVE  /\ AddrsIn(f) \subseteq Sectors \X (1..Cap)
           /\ \A a \in AddrsIn(f) : /\ a[1] \in Sectors /\ a[2] \in 1..Cap
                                    /\ a = <<a[1], a[2]>>
                                    /\ a[2] \in 1..Len(f[a[1]].nodes)
                                    /\ NodeIn(f, a) \in Node
           /\ \A s \in Sectors, i \in Nat :
                 <<s, i>> \in AddrsIn(f) <=> i \in 1..Len(f[s].nodes)
           /\ NoAddr \notin AddrsIn(f)
<1>1. \A s \in Sectors : /\ f[s] \in Sector
                         /\ Len(f[s].nodes) \in 0..Cap
                         /\ \A i \in 1..Len(f[s].nodes) : f[s].nodes[i] \in Node
  BY SectorHolds DEF Flash
<1>2. AddrsIn(f) \subseteq Sectors \X (1..Cap)
  BY DEF AddrsIn
<1>3. ASSUME NEW a \in AddrsIn(f)
      PROVE  /\ a[1] \in Sectors /\ a[2] \in 1..Cap /\ a = <<a[1], a[2]>>
             /\ a[2] \in 1..Len(f[a[1]].nodes)
             /\ NodeIn(f, a) \in Node
  BY <1>1 DEF AddrsIn, NodeIn
<1>4. ASSUME NEW s \in Sectors, NEW i \in Nat
      PROVE  <<s, i>> \in AddrsIn(f) <=> i \in 1..Len(f[s].nodes)
  BY <1>1, EnvAssumption DEF AddrsIn
<1>5. NoAddr \notin AddrsIn(f)
  BY <1>2 DEF NoAddr, Sectors
<1>6. QED BY <1>2, <1>3, <1>4, <1>5

\* The words of the model and the operators of the proofs are the same.
LEMMA Words ==
    ASSUME flash \in Flash
    PROVE  /\ Addrs = AddrsIn(flash)
           /\ Prepared = PreparedIn(flash)
           /\ \A a : At(a) = NodeIn(flash, a)
<1>1. \A a : At(a) = NodeIn(flash, a)
  BY DEF At, NodeIn
<1>2. Addrs \subseteq AddrsIn(flash)
  <2>1. SUFFICES ASSUME NEW s \in Sectors, NEW i \in 1..Len(flash[s].nodes)
                 PROVE  <<s, i>> \in AddrsIn(flash)
    BY DEF Addrs
  <2>2. i \in Nat
    BY SectorHolds DEF Flash
  <2>3. QED BY <2>2, AddrsHold
<1>3. AddrsIn(flash) \subseteq Addrs
  <2>1. SUFFICES ASSUME NEW a \in AddrsIn(flash) PROVE a \in Addrs
    OBVIOUS
  <2>2. /\ a[1] \in Sectors /\ a = <<a[1], a[2]>>
        /\ a[2] \in 1..Len(flash[a[1]].nodes)
    BY AddrsHold
  <2>3. QED BY <2>2 DEF Addrs
<1>4. QED BY <1>1, <1>2, <1>3 DEF Prepared, PreparedIn, Whole

\* Nothing of a sector but its nodes differs, and none has more or fewer.
SameSectors(f, g) ==
    \A s \in Sectors : /\ g[s].ok = f[s].ok /\ g[s].dirty = f[s].dirty
                       /\ Len(g[s].nodes) = Len(f[s].nodes)

\* Every sector has the same log.
SameLogs(f, g) ==
    \A s \in Sectors : g[s].nodes = f[s].nodes /\ g[s].ok = f[s].ok

\* What a node holds does not change while it is there.
SameNodes(f, g) == \A a \in AddrsIn(f) \cap AddrsIn(g) :
                       KeyIn(g, a) = KeyIn(f, a) /\ ValIn(g, a) = ValIn(f, a)

\* The same nodes are committed and prepared, and hold the same.
SameView(f, g) == /\ WrittenIn(g) = WrittenIn(f)
                  /\ PreparedIn(g) = PreparedIn(f)
                  /\ SameNodes(f, g)

\* The writes.
Put(f, a, n) == [f EXCEPT ![a[1]].nodes[a[2]] = n]
Mark(f, a, st) == [f EXCEPT ![a[1]].nodes[a[2]].status = st]
Fill(f, a, bd) == [f EXCEPT ![a[1]].nodes[a[2]].body = bd]
Grow(f, s, n) == [f EXCEPT ![s].nodes = Append(@, n)]
MarkDirty(f, s, d) == [f EXCEPT ![s].dirty = d]
MarkStore(f, s, st) == [f EXCEPT ![s].store = st]
Wipe(f, s, x) == [f EXCEPT ![s] = x]

\* Writing a node's status or body: nothing else of the flash changes.
LEMMA NodeWritten ==
    ASSUME NEW f \in Flash, NEW a \in AddrsIn(f), NEW n \in Node,
           NEW g, g = Put(f, a, n)
    PROVE  /\ g \in Flash
           /\ AddrsIn(g) = AddrsIn(f)
           /\ SameSectors(f, g)
           /\ NodeIn(g, a) = n
           /\ \A b \in AddrsIn(f) : b # a => NodeIn(g, b) = NodeIn(f, b)
<1> DEFINE s == a[1]
<1> DEFINE i == a[2]
<1> DEFINE q == [f[s].nodes EXCEPT ![i] = n]
<1> DEFINE x == [f[s] EXCEPT !.nodes = q]
<1>1. /\ s \in Sectors /\ i \in 1..Len(f[s].nodes) /\ a = <<s, i>>
  BY AddrsHold
<1>2. /\ f[s].nodes \in Seq(Node) /\ Len(f[s].nodes) \in 0..Cap
      /\ f[s] \in Sector
  BY <1>1, SectorHolds DEF Flash
<1>3. /\ q \in Seq(Node) /\ Len(q) = Len(f[s].nodes)
      /\ \A j \in 1..Len(f[s].nodes) : q[j] = IF j = i THEN n ELSE f[s].nodes[j]
  BY <1>1, <1>2, ExceptSeq
<1> HIDE DEF q
<1>4. /\ x \in Sector /\ x.nodes = q
      /\ x.ok = f[s].ok /\ x.dirty = f[s].dirty
  BY <1>2, <1>3 DEF Sector
<1>5. g = [f EXCEPT ![s] = x]
  BY DEF q, Put
<1> HIDE DEF x
<1>6. /\ g \in Flash
      /\ \A t \in Sectors : g[t] = IF t = s THEN x ELSE f[t]
  BY <1>1, <1>4, <1>5 DEF Flash
<1>7. SameSectors(f, g)
  BY <1>3, <1>4, <1>6 DEF SameSectors
<1>8. AddrsIn(g) = AddrsIn(f)
  BY <1>7 DEF AddrsIn, SameSectors
<1>9. NodeIn(g, a) = n
  BY <1>1, <1>3, <1>4, <1>6 DEF NodeIn
<1>10. ASSUME NEW b \in AddrsIn(f), b # a
       PROVE  NodeIn(g, b) = NodeIn(f, b)
  <2>1. /\ b[1] \in Sectors /\ b[2] \in 1..Len(f[b[1]].nodes)
        /\ b = <<b[1], b[2]>>
    BY AddrsHold
  <2>2. CASE b[1] = s
    <3>1. b[2] # i
      BY <1>1, <1>10, <2>1, <2>2
    <3>2. QED BY <1>3, <1>4, <1>6, <2>1, <2>2, <3>1 DEF NodeIn
  <2>3. CASE b[1] # s
    BY <1>6, <2>1, <2>3 DEF NodeIn
  <2>4. QED BY <2>2, <2>3
<1>11. QED BY <1>6, <1>7, <1>8, <1>9, <1>10

\* Writing a node's status.
LEMMA Marked ==
    ASSUME NEW f \in Flash, NEW a \in AddrsIn(f), NEW st \in Statuses,
           NEW g, g = Mark(f, a, st)
    PROVE  /\ g \in Flash
           /\ AddrsIn(g) = AddrsIn(f)
           /\ SameSectors(f, g)
           /\ SameNodes(f, g)
           /\ NodeIn(g, a).status = st /\ NodeIn(g, a).body = NodeIn(f, a).body
           /\ \A b \in AddrsIn(f) : b # a => NodeIn(g, b) = NodeIn(f, b)
           /\ st = "WRITE" /\ NodeIn(f, a).body = "whole" =>
                 WrittenIn(g) = WrittenIn(f) \union {a}
           /\ st # "WRITE" => WrittenIn(g) = WrittenIn(f) \ {a}
           /\ st = "PRE_DELETE" /\ NodeIn(f, a).body = "whole" =>
                 PreparedIn(g) = PreparedIn(f) \union {a}
           /\ st # "PRE_DELETE" \/ NodeIn(f, a).body # "whole" =>
                 PreparedIn(g) = PreparedIn(f) \ {a}
<1> DEFINE n == [NodeIn(f, a) EXCEPT !.status = st]
<1>1. NodeIn(f, a) \in Node
  BY AddrsHold
<1>2. /\ n \in Node /\ n.status = st /\ n.body = NodeIn(f, a).body
      /\ n.key = NodeIn(f, a).key /\ n.val = NodeIn(f, a).val
  BY <1>1 DEF Node
<1>3. g = Put(f, a, n)
  BY DEF NodeIn, Put, Mark
<1> HIDE DEF n
<1>4. /\ g \in Flash
      /\ AddrsIn(g) = AddrsIn(f)
      /\ SameSectors(f, g)
      /\ NodeIn(g, a) = n
      /\ \A b \in AddrsIn(f) : b # a => NodeIn(g, b) = NodeIn(f, b)
  BY <1>2, <1>3, NodeWritten
<1>5. SameNodes(f, g)
  BY <1>2, <1>4 DEF SameNodes, KeyIn, ValIn
<1>6. WrittenIn(g) = IF NodeIn(f, a).body = "whole" /\ st = "WRITE"
                     THEN WrittenIn(f) \union {a} ELSE WrittenIn(f) \ {a}
  BY <1>2, <1>4 DEF WrittenIn
<1>7. PreparedIn(g) = IF NodeIn(f, a).body = "whole" /\ st = "PRE_DELETE"
                      THEN PreparedIn(f) \union {a} ELSE PreparedIn(f) \ {a}
  BY <1>2, <1>4 DEF PreparedIn
<1>8. QED BY <1>2, <1>4, <1>5, <1>6, <1>7

\* Writing the body of a node that is not committed.
LEMMA Bodied ==
    ASSUME NEW f \in Flash, NEW a \in AddrsIn(f),
           NodeIn(f, a).status = "PRE_WRITE",
           NEW bd \in {"none", "header", "whole"},
           NEW g, g = Fill(f, a, bd)
    PROVE  /\ g \in Flash
           /\ AddrsIn(g) = AddrsIn(f)
           /\ SameSectors(f, g)
           /\ SameView(f, g)
           /\ NodeIn(g, a).status = "PRE_WRITE" /\ NodeIn(g, a).body = bd
<1> DEFINE n == [NodeIn(f, a) EXCEPT !.body = bd]
<1>1. NodeIn(f, a) \in Node
  BY AddrsHold
<1>2. /\ n \in Node /\ n.status = "PRE_WRITE" /\ n.body = bd
      /\ n.key = NodeIn(f, a).key /\ n.val = NodeIn(f, a).val
  BY <1>1 DEF Node
<1>3. g = Put(f, a, n)
  BY DEF NodeIn, Put, Fill
<1> HIDE DEF n
<1>4. /\ g \in Flash
      /\ AddrsIn(g) = AddrsIn(f)
      /\ SameSectors(f, g)
      /\ NodeIn(g, a) = n
      /\ \A b \in AddrsIn(f) : b # a => NodeIn(g, b) = NodeIn(f, b)
  BY <1>2, <1>3, NodeWritten
<1>5. SameNodes(f, g)
  BY <1>2, <1>4 DEF SameNodes, KeyIn, ValIn
<1>6. WrittenIn(g) = WrittenIn(f)
  BY <1>2, <1>4 DEF WrittenIn
<1>7. PreparedIn(g) = PreparedIn(f)
  BY <1>2, <1>4 DEF PreparedIn
<1>8. QED BY <1>2, <1>4, <1>5, <1>6, <1>7 DEF SameView

\* Appending a node that is not committed.
LEMMA Grown ==
    ASSUME NEW f \in Flash, NEW s \in Sectors, Len(f[s].nodes) < Cap, f[s].ok,
           NEW n \in Node, n.status = "PRE_WRITE",
           NEW g, g = Grow(f, s, n)
    PROVE  /\ g \in Flash
           /\ AddrsIn(f) \subseteq AddrsIn(g)
           /\ SameView(f, g)
           /\ \A t \in Sectors : g[t].ok = f[t].ok /\ g[t].dirty = f[t].dirty
           /\ \A t \in Sectors : ~f[t].ok => Len(g[t].nodes) = Len(f[t].nodes)
           /\ <<s, Len(g[s].nodes)>> \in AddrsIn(g)
           /\ NodeIn(g, <<s, Len(g[s].nodes)>>) = n
<1> DEFINE m == Len(f[s].nodes) + 1
<1> DEFINE q == Append(f[s].nodes, n)
<1> DEFINE x == [f[s] EXCEPT !.nodes = q]
<1>1. /\ f[s].nodes \in Seq(Node) /\ Len(f[s].nodes) \in 0..Cap
      /\ f[s] \in Sector
  BY SectorHolds DEF Flash
<1>2. /\ q \in Seq(Node) /\ Len(q) = m /\ q[m] = n
      /\ \A j \in 1..Len(f[s].nodes) : q[j] = f[s].nodes[j]
  BY <1>1, AppendProperties
<1>3. Len(q) <= Cap
  BY <1>1, <1>2, EnvAssumption
<1> HIDE DEF q
<1>4. /\ x \in Sector /\ x.nodes = q
      /\ x.ok = f[s].ok /\ x.dirty = f[s].dirty
  BY <1>1, <1>2, <1>3 DEF Sector
<1>5. g = [f EXCEPT ![s] = x]
  BY DEF q, Grow
<1> HIDE DEF x
<1>6. /\ g \in Flash
      /\ \A t \in Sectors : g[t] = IF t = s THEN x ELSE f[t]
  BY <1>4, <1>5 DEF Flash
<1>7. ASSUME NEW b \in AddrsIn(f)
      PROVE  b \in AddrsIn(g) /\ NodeIn(g, b) = NodeIn(f, b)
  <2>1. /\ b[1] \in Sectors /\ b[2] \in 1..Len(f[b[1]].nodes)
        /\ b = <<b[1], b[2]>> /\ b[2] \in Nat
    BY AddrsHold
  <2>2. CASE b[1] = s
    <3>1. b[2] \in 1..Len(g[s].nodes)
      BY <1>1, <1>2, <1>4, <1>6, <2>1, <2>2
    <3>2. b \in AddrsIn(g)
      BY <1>6, <2>1, <2>2, <3>1, AddrsHold
    <3>3. NodeIn(g, b) = NodeIn(f, b)
      BY <1>2, <1>4, <1>6, <2>1, <2>2 DEF NodeIn
    <3>4. QED BY <3>2, <3>3
  <2>3. CASE b[1] # s
    <3>1. b \in AddrsIn(g)
      BY <1>6, <2>1, <2>3, AddrsHold
    <3>2. QED BY <1>6, <2>1, <2>3, <3>1 DEF NodeIn
  <2>4. QED BY <2>2, <2>3
<1>8. ASSUME NEW b \in AddrsIn(g), b \notin AddrsIn(f)
      PROVE  b = <<s, m>> /\ NodeIn(g, b) = n
  <2>1. /\ b[1] \in Sectors /\ b[2] \in 1..Len(g[b[1]].nodes)
        /\ b = <<b[1], b[2]>> /\ b[2] \in Nat
    BY <1>6, AddrsHold
  <2>2. b[1] = s
    <3>1. SUFFICES ASSUME b[1] # s PROVE FALSE
      OBVIOUS
    <3>2. b[2] \in 1..Len(f[b[1]].nodes)
      BY <1>6, <2>1, <3>1
    <3>3. QED BY <1>8, <2>1, <3>2, AddrsHold
  <2>3. b[2] \notin 1..Len(f[s].nodes)
    BY <1>8, <2>1, <2>2, AddrsHold
  <2>4. b[2] = m
    BY <1>1, <1>2, <1>4, <1>6, <2>1, <2>2, <2>3
  <2>5. QED BY <1>2, <1>4, <1>6, <2>1, <2>2, <2>4 DEF NodeIn
<1>9. m \in Nat /\ Len(g[s].nodes) = m
  BY <1>1, <1>2, <1>4, <1>6
<1>10. <<s, m>> \in AddrsIn(g)
  BY <1>6, <1>9, <1>1, AddrsHold
<1>11. NodeIn(g, <<s, m>>) = n
  BY <1>2, <1>4, <1>6 DEF NodeIn
<1>12. SameView(f, g)
  <2>1. WrittenIn(g) = WrittenIn(f)
    BY <1>7, <1>8 DEF WrittenIn
  <2>2. PreparedIn(g) = PreparedIn(f)
    BY <1>7, <1>8 DEF PreparedIn
  <2>3. SameNodes(f, g)
    BY <1>7 DEF SameNodes, KeyIn, ValIn
  <2>4. QED BY <2>1, <2>2, <2>3 DEF SameView
<1>13. \A t \in Sectors : g[t].ok = f[t].ok /\ g[t].dirty = f[t].dirty
  BY <1>4, <1>6
<1>14. \A t \in Sectors : ~f[t].ok => Len(g[t].nodes) = Len(f[t].nodes)
  BY <1>6
<1>15. QED BY <1>6, <1>7, <1>9, <1>10, <1>11, <1>12, <1>13, <1>14

\* Writing words of a sector's header.
LEMMA SameLog ==
    ASSUME NEW f \in Flash, NEW g \in Flash, SameLogs(f, g)
    PROVE  /\ AddrsIn(g) = AddrsIn(f)
           /\ SameView(f, g)
           /\ \A a \in AddrsIn(f) : NodeIn(g, a) = NodeIn(f, a)
<1>1. AddrsIn(g) = AddrsIn(f)
  BY DEF AddrsIn, SameLogs
<1>2. \A a \in AddrsIn(f) : NodeIn(g, a) = NodeIn(f, a)
  BY AddrsHold DEF NodeIn, SameLogs
<1>3. QED
  BY <1>1, <1>2 DEF SameView, WrittenIn, PreparedIn, SameNodes, KeyIn, ValIn

LEMMA DirtyMarked ==
    ASSUME NEW f \in Flash, NEW s \in Sectors,
           NEW d \in {"FALSE", "TRUE", "GC"}, NEW g, g = MarkDirty(f, s, d)
    PROVE  g \in Flash /\ SameLogs(f, g) /\ g[s].dirty = d
<1>1. g = [f EXCEPT ![s] = [f[s] EXCEPT !.dirty = d]]
  BY DEF MarkDirty
<1>2. f[s] \in Sector
  BY DEF Flash
<1>3. [f[s] EXCEPT !.dirty = d] \in Sector
  BY <1>2 DEF Sector
<1>4. QED BY <1>1, <1>2, <1>3 DEF Flash, Sector, SameLogs, SameSectors

LEMMA StoreMarked ==
    ASSUME NEW f \in Flash, NEW s \in Sectors,
           NEW st \in {"EMPTY", "USING", "FULL"}, NEW g, g = MarkStore(f, s, st)
    PROVE  g \in Flash /\ SameLogs(f, g) /\ SameSectors(f, g)
<1>1. g = [f EXCEPT ![s] = [f[s] EXCEPT !.store = st]]
  BY DEF MarkStore
<1>2. f[s] \in Sector
  BY DEF Flash
<1>3. [f[s] EXCEPT !.store = st] \in Sector
  BY <1>2 DEF Sector
<1>4. QED BY <1>1, <1>2, <1>3 DEF Flash, Sector, SameLogs, SameSectors

\* One sector is set to x.
SetTo(f, s, x, g) == \A t \in Sectors : g[t] = IF t = s THEN x ELSE f[t]

\* The nodes of one sector are gone, the others are the same.
NodesGone(f, s, g) == /\ AddrsIn(g) = {a \in AddrsIn(f) : a[1] # s}
                      /\ WrittenIn(g) = {a \in WrittenIn(f) : a[1] # s}
                      /\ PreparedIn(g) = {a \in PreparedIn(f) : a[1] # s}

\* Erasing or formatting a sector: its nodes are gone.
LEMMA Wiped ==
    ASSUME NEW f \in Flash, NEW s \in Sectors, NEW x \in {Erased, Formatted},
           NEW g, g = Wipe(f, s, x)
    PROVE  /\ g \in Flash
           /\ x \in Sector /\ Len(x.nodes) = 0
           /\ SetTo(f, s, x, g)
           /\ SameNodes(f, g)
           /\ NodesGone(f, s, g)
<1>1. /\ x \in Sector /\ x.nodes = << >>
  <2>1. << >> \in {q \in Seq(Node) : Len(q) <= Cap}
    BY EnvAssumption, EmptySeq
  <2>2. x.nodes = << >>
    BY DEF Erased, Formatted
  <2>3. Erased \in Sector
    BY <2>1 DEF Erased, Sector
  <2>4. Formatted \in Sector
    BY <2>3 DEF Formatted, Sector
  <2>5. QED BY <2>2, <2>3, <2>4
<1>2. Len(x.nodes) = 0
  BY <1>1
<1>3. /\ g \in Flash
      /\ \A t \in Sectors : g[t] = IF t = s THEN x ELSE f[t]
  BY <1>1 DEF Flash, Wipe
<1>4. ASSUME NEW a \in AddrsIn(g)
      PROVE  a \in AddrsIn(f) /\ a[1] # s /\ NodeIn(g, a) = NodeIn(f, a)
  <2>1. /\ a[1] \in Sectors /\ a[2] \in 1..Len(g[a[1]].nodes)
        /\ a = <<a[1], a[2]>> /\ a[2] \in Nat
    BY <1>3, AddrsHold
  <2>2. a[1] # s
    BY <1>2, <1>3, <2>1
  <2>3. QED BY <1>3, <2>1, <2>2, AddrsHold DEF NodeIn
<1>5. ASSUME NEW a \in AddrsIn(f), a[1] # s
      PROVE  a \in AddrsIn(g)
  <2>1. /\ a[1] \in Sectors /\ a[2] \in 1..Len(f[a[1]].nodes)
        /\ a = <<a[1], a[2]>> /\ a[2] \in Nat
    BY AddrsHold
  <2>2. QED BY <1>3, <1>5, <2>1, AddrsHold
<1>6. AddrsIn(g) = {a \in AddrsIn(f) : a[1] # s}
  BY <1>4, <1>5
<1>7. SameNodes(f, g)
  BY <1>4 DEF SameNodes, KeyIn, ValIn
<1>8. NodesGone(f, s, g)
  BY <1>4, <1>6 DEF NodesGone, WrittenIn, PreparedIn
<1>9. QED BY <1>1, <1>2, <1>3, <1>7, <1>8 DEF SetTo

\* Formatting a sector that holds nothing.
LEMMA NothingWiped ==
    ASSUME NEW f \in Flash, NEW s \in Sectors, Len(f[s].nodes) = 0,
           NEW x \in {Erased, Formatted}, NEW g, g = Wipe(f, s, x)
    PROVE  AddrsIn(g) = AddrsIn(f) /\ SameView(f, g)
<1>1. SameNodes(f, g) /\ NodesGone(f, s, g)
  BY Wiped
<1>2. \A a \in AddrsIn(f) : a[1] # s
  BY AddrsHold
<1>3. QED BY <1>1, <1>2 DEF SameView, NodesGone, WrittenIn, PreparedIn

-----------------------------------------------------------------------------
(* What is read.                                                           *)

\* A new node goes to a sector with a header and room that is not collected.
LEMMA AllocFacts ==
    ASSUME flash \in Flash, gc_request \in BOOLEAN
    PROVE  /\ alloc_env.request \in BOOLEAN
           /\ alloc_env.sec # 0 =>
                 /\ alloc_env.sec \in Sectors
                 /\ flash[alloc_env.sec].ok
                 /\ Len(flash[alloc_env.sec].nodes) < Cap
                 /\ flash[alloc_env.sec].dirty # "GC"
<1>1. ASSUME NEW store, Allocatable(store) # {}
      PROVE  Least(Allocatable(store)) \in Allocatable(store)
  <2>1. Allocatable(store) \subseteq Nat
    BY DEF Allocatable, Sectors
  <2>2. QED BY <1>1, <2>1, LeastIsLeast
<1>2. \A store : \A s \in Allocatable(store) :
         /\ s \in Sectors /\ flash[s].ok /\ Len(flash[s].nodes) < Cap
         /\ flash[s].dirty # "GC"
  BY DEF Allocatable
<1> DEFINE u == Allocatable("USING")
<1> DEFINE e == Allocatable("EMPTY")
<1>3. \/ alloc_env.sec = Least(u) /\ u # {} /\ alloc_env.request = gc_request
      \/ alloc_env.sec = Least(e) /\ e # {} /\ alloc_env.request = gc_request
      \/ /\ alloc_env.sec = 0
         /\ alloc_env.request = (gc_request \/ EmptySectors # {})
  BY Zenon DEF alloc_env
<1>4. alloc_env.request \in BOOLEAN
  BY <1>3, Zenon
<1>5. alloc_env.sec = 0 \/ \E store : alloc_env.sec \in Allocatable(store)
  BY <1>1, <1>3, Zenon
<1>6. QED BY <1>2, <1>4, <1>5, Zenon

\* The search through the flash finds a committed node when there is one.
LEMMA SearchTells ==
    ASSUME flash \in Flash, NEW k
    PROVE  \/ /\ find_env_no_cache(k) = NoAddr
              /\ \A a \in Written : KeyOf(a) # k
           \/ /\ find_env_no_cache(k) \in Written
              /\ KeyOf(find_env_no_cache(k)) = k
<1> DEFINE F == Nodes(k, "WRITE")
<1>1. F = {a \in Written : KeyOf(a) = k}
  BY Words DEF Nodes, Whole, Written, WrittenIn, KeyOf, KeyIn
<1>2. find_env_no_cache(k) = IF F = {} THEN NoAddr ELSE FirstAddr(F)
  BY DEF find_env_no_cache
<1> HIDE DEF F
<1>3. F \subseteq Nat \X Nat
  <2>1. F \subseteq Sectors \X (1..Cap)
    BY <1>1, AddrsHold DEF Written, WrittenIn
  <2>2. QED BY <2>1, EnvAssumption DEF Sectors
<1>4. F # {} => FirstAddr(F) \in F
  BY <1>3, FirstIsOne
<1>5. QED BY <1>1, <1>2, <1>4

\* What is found is a node of the variable;
LEMMA FindFinds ==
    ASSUME flash \in Flash, NEW k \in Keys
    PROVE  \/ find_env(k) = NoAddr
           \/ find_env(k) \in AddrsIn(flash) /\ KeyOf(find_env(k)) = k
<1>1. CASE CacheHit(k)
  BY <1>1, Words DEF CacheHit, find_env, KeyOf, KeyIn
<1>2. CASE ~CacheHit(k)
  BY <1>2, SearchTells DEF find_env, Written, WrittenIn
<1>3. QED BY <1>1, <1>2

\* the committed one, when the cache is right and no node is being written.
LEMMA FindTells ==
    ASSUME flash \in Flash, NEW k \in Keys, CachedAt(k, env_cache[k]),
           pc \in {"idle", "new_env", "recovered"}
    PROVE  \/ find_env(k) = NoAddr /\ \A a \in Written : KeyOf(a) # k
           \/ find_env(k) \in Written /\ KeyOf(find_env(k)) = k
<1>1. CASE CacheHit(k)
  <2>1. env_cache[k] # NoAddr
    BY <1>1, Words, AddrsHold DEF CacheHit
  <2>2. env_cache[k] \in Written /\ KeyOf(env_cache[k]) = k
    BY <2>1 DEF CachedAt, Copying
  <2>3. QED BY <1>1, <2>2 DEF find_env
<1>2. CASE ~CacheHit(k)
  BY <1>2, SearchTells DEF find_env
<1>3. QED BY <1>1, <1>2

-----------------------------------------------------------------------------
(* The steps: each keeps the basic part of the invariant, and does to the  *)
(* live nodes what it says.                                                *)

LEMMA TypeFacts ==
    ASSUME TypeOK
    PROVE  /\ flash \in Flash
           /\ loading \in BOOLEAN /\ gc_request \in BOOLEAN
           /\ last_is_complete_del \in BOOLEAN
  BY DEF TypeOK, Flash

\* A step that leaves the requests, the cache and the history alone.
LEMMA TypeStays ==
    ASSUME TypeOK, flash' \in Flash,
           request' = request, env_cache' = env_cache, may' = may, cut' = cut,
           dropped' = dropped, failures' = failures,
           loading' \in BOOLEAN, gc_request' \in BOOLEAN,
           last_is_complete_del' \in BOOLEAN,
           pc' \in {"idle", "new_env", "gc_sector", "gc_node", "recover",
                   "recovered"},
           work' \in [key: Keys \union {Absent}, val: Vals \union {Absent},
                     sec: 0..NumSectors, full: BOOLEAN, old: Addresses],
           gc' \in [sec: 0..NumSectors + 1, pos: 0..Cap + 1,
                   back: {"none", "new_env", "idle", "recover"}]
    PROVE  TypeOK'
<1>1. /\ request' \in [key: Keys \union {Absent}, val: Vals \union {Absent},
                      collected: BOOLEAN]
      /\ env_cache' \in [Keys -> Addresses]
  BY Zenon DEF TypeOK
<1>2. /\ may' \in [Keys -> SUBSET (Vals \union {Absent})]
      /\ cut' \subseteq Keys /\ dropped' \subseteq Keys
      /\ failures' \in 0..MaxFailures
  BY Zenon DEF TypeOK
<1>3. pc' \in {"idle", "new_env", "prepare", "dirty", "dirty_moved", "sector",
              "pre_write", "header", "value", "commit", "delete", "end_set",
              "gc", "gc_sector", "gc_node", "move", "erase", "format", "off",
              "headers", "recover", "recovered"}
  OBVIOUS
<1>4. flash' \in [Sectors -> Sector]
  BY DEF Flash
<1>. QED
  BY <1>1, <1>2, <1>3, <1>4, Zenon DEF TypeOK

\* Where no node is in the work and no collection stands in a sector.
Outside == {"idle", "new_env", "gc", "gc_sector", "format", "headers",
            "recover", "recovered"}

LEMMA LiveFacts ==
    ASSUME flash \in Flash
    PROVE  /\ Written \subseteq AddrsIn(flash)
           /\ PreparedIn(flash) \subseteq AddrsIn(flash)
           /\ LiveNodes \subseteq AddrsIn(flash)
           /\ Written \cap PreparedIn(flash) = {}
           /\ NoAddr \notin LiveNodes
           /\ \A a \in AddrsIn(flash) : KeyOf(a) \in Keys /\ ValOf(a) \in Vals
  BY AddrsHold
     DEF Written, LiveNodes, WrittenIn, PreparedIn, KeyOf, ValOf, KeyIn, ValIn,
         Node

\* The same nodes are live and hold the same.
LEMMA ViewFacts ==
    ASSUME flash \in Flash, flash' \in Flash, SameView(flash, flash')
    PROVE  /\ Written' = Written /\ PreparedIn(flash') = PreparedIn(flash)
           /\ LiveNodes' = LiveNodes
           /\ \A a \in LiveNodes : /\ KeyIn(flash', a) = KeyOf(a)
                                   /\ ValIn(flash', a) = ValOf(a)
  BY DEF SameView, SameNodes, Written, LiveNodes, WrittenIn, PreparedIn, KeyOf,
         ValOf

\* Outside there is nothing to know of the node in the work.
LEMMA OutsideBasic ==
    ASSUME pc' \in Outside \union {"off"}
    PROVE  Place' /\ Old'
  BY DEF Outside, Place, Old, Moves, Setting, Copying

\* A step outside that leaves the live nodes keeps what is said of them.
LEMMA OutsideData ==
    ASSUME EnvInv, flash' \in Flash, SameView(flash, flash'),
           pc \in Outside \union {"dirty_moved"}, loading' <=> loading,
           \/ pc' \in Outside \union {"dirty_moved"}
           \/ pc' = "gc_node" /\ gc'.pos = 1,
           \A k \in Keys : may[k] \subseteq may'[k],
           cut' = cut, dropped' = dropped,
           \A k \in Keys \ dropped :
               \/ env_cache'[k] = env_cache[k]
               \/ ~loading /\ env_cache'[k] = NoAddr
               \/ /\ ~loading /\ env_cache'[k] \in Written
                  /\ KeyOf(env_cache'[k]) = k
    PROVE  Data'
<1>1. flash \in Flash
  BY TypeFacts DEF EnvInv, Basic
<1>2. /\ Written' = Written /\ PreparedIn(flash') = PreparedIn(flash)
      /\ LiveNodes' = LiveNodes
      /\ \A a \in LiveNodes : /\ KeyIn(flash', a) = KeyOf(a)
                              /\ ValIn(flash', a) = ValOf(a)
      /\ Written \subseteq LiveNodes /\ PreparedIn(flash) \subseteq LiveNodes
      /\ \A a \in LiveNodes : KeyOf(a) \in Keys /\ a[2] >= 1
  BY <1>1, ViewFacts, LiveFacts, AddrsHold DEF Written, LiveNodes
<1>3. Lost' = Lost /\ (Collecting' => pc' = "gc_node" /\ gc'.pos = 1)
  BY DEF Lost, Collecting, Outside, Moves, Copying
<1>4. Values' /\ OneWritten' /\ OnePrepared'
  BY <1>2, <1>3
     DEF EnvInv, Data, Values, OneWritten, OnePrepared, KeyOf, ValOf, Outside,
         Copying
<1>5. NoneWritten' /\ SomeWritten' /\ Done' /\ Passed' /\ CacheIsOff'
  BY <1>2, <1>3
     DEF NoneWritten, SomeWritten, Done, Passed, CacheIsOff, Outside, Copying
<1>6. Kept'
  BY <1>2, <1>3 DEF EnvInv, Data, Kept, Safe, KeyOf
<1>7. Cached'
  <2>1. SUFFICES ASSUME NEW k \in Keys \ dropped
                 PROVE  CachedAt(k, env_cache[k])'
    BY DEF Cached
  <2>2. CachedAt(k, env_cache[k])
    BY DEF EnvInv, Data, Cached
  <2>3. \/ env_cache[k] = NoAddr
        \/ /\ env_cache[k] \in Written /\ KeyOf(env_cache[k]) = k
           /\ loading => \A b \in Written : KeyOf(b) = k => b = env_cache[k]
    BY <2>2 DEF CachedAt, Outside, Copying
  <2>4. CASE env_cache'[k] = env_cache[k]
    BY <1>2, <2>3, <2>4 DEF CachedAt, KeyOf
  <2>5. CASE env_cache'[k] # env_cache[k]
    BY <1>2, <2>1, <2>5 DEF CachedAt, KeyOf
  <2>6. QED BY <2>4, <2>5
<1>8. QED BY <1>4, <1>5, <1>6, <1>7 DEF Data

\* Nor does a step of the copy before the new node's name is written.
LEMMA CopyingData ==
    ASSUME EnvInv, flash' \in Flash, SameView(flash, flash'),
           pc \in {"dirty", "sector", "pre_write", "header", "value"},
           pc' \in Copying, pc = "value" => pc' = "commit",
           ~moving /\ pc' \in {"value", "commit"}
               => Last' = Last /\ (pc = "value" \/ env_cache'[work.key] = Last),
           loading' <=> loading, moving' <=> moving, gc' = gc,
           work'.key = work.key, work'.val = work.val, work'.old = work.old,
           may' = may, cut' = cut, dropped' = dropped,
           \A k \in Keys \ dropped :
               \/ env_cache'[k] = env_cache[k]
               \/ /\ k = work.key /\ ~moving /\ pc' = "value"
                  /\ env_cache'[k] = Last
    PROVE  Data'
<1>1. flash \in Flash
  BY TypeFacts DEF EnvInv, Basic
<1>2. /\ Written' = Written /\ PreparedIn(flash') = PreparedIn(flash)
      /\ LiveNodes' = LiveNodes
      /\ \A a \in LiveNodes : /\ KeyIn(flash', a) = KeyOf(a)
                              /\ ValIn(flash', a) = ValOf(a)
      /\ Written \subseteq LiveNodes /\ PreparedIn(flash) \subseteq LiveNodes
  BY <1>1, ViewFacts DEF Written, LiveNodes
<1>3. Lost' = Lost
  BY DEF Lost
<1>4. pc = "dirty" => gc.sec = 0
  BY DEF EnvInv, Basic, Control
<1>5. Collecting' <=> Collecting
  BY <1>4 DEF Collecting, Moves, Copying
<1>6. Values' /\ OneWritten' /\ OnePrepared'
  BY <1>2, <1>3
     DEF EnvInv, Data, Values, OneWritten, OnePrepared, KeyOf, ValOf, Copying
<1>7. NoneWritten' /\ SomeWritten' /\ Done'
  BY <1>2, <1>3
     DEF EnvInv, Data, NoneWritten, SomeWritten, Done, KeyOf, Copying
<1>8. Passed' /\ CacheIsOff'
  BY <1>2, <1>5 DEF EnvInv, Data, Passed, CacheIsOff, Copying
<1>9. ASSUME NEW a, Safe(a)
      PROVE  \/ ~Collecting'
             \/ a[1] # gc'.sec
             \/ pc' # "erase" /\ a[2] >= gc'.pos
             \/ pc' \in Moves \ {"delete"} /\ a = work'.old
  <2>1. pc' \in Moves \ {"delete"} /\ pc' # "erase"
    BY DEF Moves, Copying
  <2>2. QED BY <1>5, <1>9, <2>1 DEF Safe
<1>10. Kept'
  BY <1>2, <1>3, <1>9 DEF EnvInv, Data, Kept, Safe, KeyOf
<1>11. Cached'
  <2>1. SUFFICES ASSUME NEW k \in Keys \ dropped
                 PROVE  CachedAt(k, env_cache[k])'
    BY DEF Cached
  <2>2. CachedAt(k, env_cache[k])
    BY DEF EnvInv, Data, Cached
  <2>3. CASE env_cache'[k] = Last /\ ~moving /\ work.key = k
               /\ pc' \in {"value", "commit"}
    BY <2>3 DEF CachedAt
  <2>4. CASE ~(env_cache'[k] = Last /\ ~moving /\ work.key = k
                 /\ pc' \in {"value", "commit"})
    <3>1. env_cache'[k] = env_cache[k]
      BY <2>1, <2>4
    <3>2. ~(env_cache[k] = Last /\ ~moving /\ work.key = k
              /\ pc \in {"value", "commit"})
      BY <2>4, <3>1
    <3>3. env_cache[k] \in PreparedIn(flash) /\ work.key = k /\ ~moving
            => pc' \notin {"value", "commit"} \/ pc = "value"
      BY <2>4
    <3>4. QED BY <1>2, <2>2, <3>1, <3>2, <3>3 DEF CachedAt, KeyOf, Copying
  <2>5. QED BY <2>3, <2>4
<1>12. QED BY <1>6, <1>7, <1>8, <1>10, <1>11 DEF Data

\* At the start there is nothing.
LEMMA Start == Init => EnvInv
<1> SUFFICES ASSUME Init PROVE EnvInv
  OBVIOUS
<1>1. Formatted \in Sector /\ Len(Formatted.nodes) = 0 /\ Formatted.ok
  <2>1. << >> \in {q \in Seq(Node) : Len(q) <= Cap}
    BY EnvAssumption, EmptySeq
  <2>2. QED BY <2>1 DEF Erased, Formatted, Sector
<1>2. flash \in Flash /\ \A s \in Sectors : flash[s] = Formatted
  BY <1>1 DEF Init, Flash
<1>3. AddrsIn(flash) = {}
  BY <1>1, <1>2, AddrsHold
<1>4. /\ loading \in BOOLEAN /\ gc_request \in BOOLEAN /\ ~loading
      /\ last_is_complete_del \in BOOLEAN
  BY Zenon DEF Init
<1>5. TypeOK
  <2>1. NoAddr \in Addresses
    BY EnvAssumption DEF NoAddr, Addresses
  <2>2. QED BY <1>2, <1>4, <2>1, EnvAssumption
        DEF Init, TypeOK, Flash, NoRequest, NoWork, NoGC
<1>6. Control
  BY <1>4, EnvAssumption DEF Init, Control, NoGC, NoRequest
<1>7. Headers
  BY <1>1, <1>2 DEF Init, Headers, Collecting, NoGC
<1>8. Place /\ Old
  BY DEF Init, Place, Old, Moves, Setting, Copying
<1>9. LiveNodes = {} /\ Written = {} /\ PreparedIn(flash) = {}
  BY <1>3 DEF LiveNodes, Written, WrittenIn, PreparedIn
<1>10. Data
  BY <1>9 DEF Init, Data, Values, OneWritten, OnePrepared, NoneWritten, Passed,
              SomeWritten, Done, Kept, Cached, CachedAt, CacheIsOff, Copying
<1>11. QED BY <1>5, <1>6, <1>7, <1>8, <1>10 DEF EnvInv, Basic

LEMMA GetStep ==
    ASSUME EnvInv, NEW k \in Keys, Get(k)
    PROVE  EnvInv'
<1>1. /\ pc = "idle" /\ pc' = pc /\ flash' = flash /\ work' = work /\ gc' = gc
      /\ request' = request /\ may' = may /\ cut' = cut /\ dropped' = dropped
      /\ failures' = failures
      /\ env_cache' = [env_cache EXCEPT ![k] = find_env(k)]
      /\ last_is_complete_del' \in {last_is_complete_del, TRUE, FALSE}
  BY DEF Get, idle, ghosts
<1>2. /\ loading' <=> loading
      /\ loading' \in BOOLEAN /\ gc_request' \in BOOLEAN
  BY TypeFacts, Zenon DEF EnvInv, Basic, Get
<1>3. flash \in Flash /\ ~loading
  BY <1>1, TypeFacts DEF EnvInv, Basic, Control
<1>4. \/ find_env(k) = NoAddr
      \/ find_env(k) \in AddrsIn(flash)
  BY <1>3, FindFinds
<1>5. k \notin dropped => \/ find_env(k) = NoAddr
                          \/ find_env(k) \in Written /\ KeyOf(find_env(k)) = k
  BY <1>1, <1>3, FindTells DEF EnvInv, Data, Cached
<1>6. TypeOK'
  <2>1. find_env(k) \in Addresses
    BY <1>3, <1>4, AddrsHold, EnvAssumption DEF Addresses, NoAddr, Sectors
  <2>2. env_cache' \in [Keys -> Addresses]
    BY <1>1, <2>1 DEF EnvInv, Basic, TypeOK
  <2>3. QED BY <1>1, <1>2, <2>2 DEF EnvInv, Basic, TypeOK
<1>7. Control'
  BY <1>1, <1>2 DEF EnvInv, Basic, Control
<1>8. Headers' /\ Place' /\ Old'
  BY <1>1, OutsideBasic
     DEF EnvInv, Basic, Headers, Collecting, Moves, Copying, Outside
<1>9. Data'
  <2>1. SameView(flash, flash')
    BY <1>1 DEF SameView, SameNodes
  <2>2. \A j \in Keys \ dropped :
               \/ env_cache'[j] = env_cache[j]
               \/ ~loading /\ env_cache'[j] = NoAddr
               \/ /\ ~loading /\ env_cache'[j] \in Written
                  /\ KeyOf(env_cache'[j]) = j
    BY <1>1, <1>3, <1>5 DEF EnvInv, Basic, TypeOK
  <2>3. QED BY <1>1, <1>2, <1>3, <2>1, <2>2, OutsideData DEF Outside
<1>10. QED BY <1>6, <1>7, <1>8, <1>9 DEF EnvInv, Basic

LEMMA SetStep ==
    ASSUME EnvInv, NEW k \in Keys, NEW v \in Vals, Set(k, v)
    PROVE  EnvInv'
<1>1. /\ pc = "idle" /\ pc' = "new_env" /\ flash' = flash /\ work' = work
      /\ gc' = gc /\ env_cache' = env_cache /\ cut' = cut /\ dropped' = dropped
      /\ failures' = failures
      /\ request' = [key |-> k, val |-> v, collected |-> FALSE]
      /\ may' = [may EXCEPT ![k] = @ \union {v}]
      /\ last_is_complete_del' \in {last_is_complete_del, TRUE, FALSE}
  BY DEF Set, idle
<1>2. /\ loading' <=> loading
      /\ loading' \in BOOLEAN /\ gc_request' \in BOOLEAN
  BY TypeFacts, Zenon DEF EnvInv, Basic, Set
<1>3. flash \in Flash /\ ~loading /\ gc.sec = 0
  BY <1>1, TypeFacts DEF EnvInv, Basic, Control
<1>4. /\ may' \in [Keys -> SUBSET (Vals \union {Absent})]
      /\ \A j \in Keys : may[j] \subseteq may'[j]
      /\ v \in may'[k]
  BY <1>1 DEF EnvInv, Basic, TypeOK
<1>5. TypeOK'
  BY <1>1, <1>2, <1>4 DEF EnvInv, Basic, TypeOK
<1>6. Control'
  BY <1>1, <1>2, <1>3, <1>4 DEF Control
<1>7. Headers' /\ Place' /\ Old'
  BY <1>1, OutsideBasic
     DEF EnvInv, Basic, Headers, Collecting, Moves, Copying, Outside
<1>8. Data'
  <2>1. SameView(flash, flash')
    BY <1>1 DEF SameView, SameNodes
  <2>2. QED BY <1>1, <1>2, <1>3, <1>4, <2>1, OutsideData DEF Outside
<1>9. QED BY <1>5, <1>6, <1>7, <1>8 DEF EnvInv, Basic

LEMMA NewEnvStep ==
    ASSUME EnvInv, new_env
    PROVE  EnvInv'
<1>1. /\ pc = "new_env" /\ flash' = flash /\ env_cache' = env_cache
      /\ may' = may /\ cut' = cut /\ dropped' = dropped /\ failures' = failures
      /\ last_is_complete_del' \in {last_is_complete_del, TRUE, FALSE}
  BY DEF new_env, ghosts
<1>2. /\ loading' <=> loading
      /\ loading' \in BOOLEAN /\ gc_request' \in BOOLEAN
  BY TypeFacts, AllocFacts, Zenon DEF EnvInv, Basic, new_env
<1>3. /\ flash \in Flash /\ ~loading /\ gc.sec = 0 /\ request.key \in Keys
      /\ gc_request \in BOOLEAN
      /\ request.val \in Vals /\ request.val \in may[request.key]
  BY <1>1, TypeFacts, Zenon DEF EnvInv, Basic, Control
<1>4. SameView(flash, flash')
  BY <1>1 DEF SameView, SameNodes
<1>5. CASE alloc_env.sec # 0
  <2>1. PICK old : old = find_env(request.key)
    OBVIOUS
  <2>2. PICK sec : sec = alloc_env.sec
    OBVIOUS
  <2>3. /\ work' = [key |-> request.key, val |-> request.val, sec |-> sec,
                    full |-> FALSE, old |-> old]
        /\ pc' = IF old = NoAddr THEN "sector" ELSE "prepare"
        /\ request' = request /\ gc' = gc
    BY <1>5, <2>1, <2>2, Zenon DEF new_env
  <2>4. /\ sec \in Sectors /\ flash[sec].ok
        /\ Len(flash[sec].nodes) < Cap /\ flash[sec].dirty # "GC"
    BY <1>3, <1>5, <2>2, AllocFacts
  <2>5. \/ old = NoAddr
        \/ old \in AddrsIn(flash) /\ KeyOf(old) = request.key
    BY <1>3, <2>1, FindFinds DEF KeyOf
  <2>6. request.key \notin dropped =>
           \/ old = NoAddr /\ \A a \in Written : KeyOf(a) # request.key
           \/ old \in Written /\ KeyOf(old) = request.key
    BY <1>1, <1>3, <2>1, FindTells DEF EnvInv, Data, Cached
  <2>7. ~loading' /\ ~moving'
    BY <1>2, <1>3, <2>3 DEF moving
  <2>8. TypeOK'
    <3>1. old \in Addresses /\ sec \in 0..NumSectors
      BY <1>3, <2>4, <2>5, AddrsHold, EnvAssumption
         DEF Addresses, NoAddr, Sectors
    <3>2. work' \in [key: Keys \union {Absent}, val: Vals \union {Absent},
                     sec: 0..NumSectors, full: BOOLEAN, old: Addresses]
      BY <1>3, <2>3, <3>1
    <3>3. QED BY <1>1, <1>2, <2>3, <3>2 DEF EnvInv, Basic, TypeOK
  <2>9. Control'
    BY <1>1, <1>3, <2>3, <2>7 DEF EnvInv, Basic, Control
  <2>10. Headers'
    BY <1>1, <1>3, <2>3 DEF EnvInv, Basic, Headers, Collecting
  <2>11. Place'
    BY <1>1, <1>3, <2>3, <2>4 DEF Place, Moves, Setting, Copying
  <2>12. Old'
    BY <1>1, <1>3, <2>3, <2>5, <2>6, <2>7
       DEF Old, Moves, Setting, Copying, KeyOf, Written
  <2>13. Values' /\ OneWritten' /\ OnePrepared'
    BY <1>1, <1>3, <2>3
       DEF EnvInv, Data, Values, OneWritten, OnePrepared, Written, LiveNodes,
           KeyOf, ValOf, Lost, Copying
  <2>14. NoneWritten' /\ SomeWritten' /\ Done'
    BY <1>1, <2>3, <2>6, <2>7, AddrsHold, <1>3, LiveFacts
       DEF NoneWritten, SomeWritten, Done, Written, LiveNodes, KeyOf, Lost,
           Copying
  <2>15. Kept' /\ Passed' /\ CacheIsOff'
    BY <1>1, <1>3, <2>3
       DEF EnvInv, Data, Kept, Safe, Passed, CacheIsOff, Collecting, LiveNodes,
           KeyOf, Lost
  <2>16. Cached'
    BY <1>1, <1>3, <2>3, <2>7
       DEF EnvInv, Data, Cached, CachedAt, Written, KeyOf, Copying
  <2>17. QED BY <2>8, <2>9, <2>10, <2>11, <2>12, <2>13, <2>14, <2>15, <2>16
         DEF EnvInv, Basic, Data
<1>6. CASE alloc_env.sec = 0
  <2>1. \/ /\ request' = [request EXCEPT !.collected = TRUE]
           /\ gc' = [NoGC EXCEPT !.back = "new_env"]
           /\ pc' = "gc" /\ work' = work
        \/ request' = NoRequest /\ pc' = "idle" /\ work' = work /\ gc' = gc
    BY <1>6, Zenon DEF new_env
  <2>2. TypeOK'
    <3>1. request' \in [key: Keys \union {Absent}, val: Vals \union {Absent},
                       collected: BOOLEAN]
      <4>1. request \in [key: Keys \union {Absent}, val: Vals \union {Absent},
                         collected: BOOLEAN]
        BY DEF EnvInv, Basic, TypeOK
      <4>2. \/ request' = [request EXCEPT !.collected = TRUE]
            \/ request' = NoRequest
        BY <2>1
      <4>3. CASE request' = [request EXCEPT !.collected = TRUE]
        BY <4>1, <4>3
      <4>4. CASE request' = NoRequest
        BY <4>4 DEF NoRequest
      <4>5. QED BY <4>2, <4>3, <4>4
    <3>2. gc' \in [sec: 0..NumSectors + 1, pos: 0..Cap + 1,
                  back: {"none", "new_env", "idle", "recover"}]
      BY <2>1, EnvAssumption DEF EnvInv, Basic, TypeOK, NoGC
    <3>3. QED BY <1>1, <1>2, <2>1, <3>1, <3>2 DEF EnvInv, Basic, TypeOK
  <2>3. Control'
    BY <1>1, <1>2, <1>3, <2>1, EnvAssumption
       DEF EnvInv, Basic, TypeOK, Control, NoGC, NoRequest
  <2>4. Headers' /\ Place' /\ Old'
    BY <1>1, <2>1, OutsideBasic
       DEF EnvInv, Basic, Headers, Collecting, Moves, Copying, Outside
  <2>5. Data'
    BY <1>1, <1>2, <1>3, <1>4, <2>1, OutsideData DEF Outside
  <2>6. QED BY <2>2, <2>3, <2>4, <2>5 DEF EnvInv, Basic
<1>7. QED BY <1>5, <1>6

LEMMA PrepareStep ==
    ASSUME EnvInv, prepare
    PROVE  EnvInv'
<1>1. /\ pc = "prepare" /\ pc' \in {"dirty", "sector"}
      /\ flash' = Mark(flash, work.old, "PRE_DELETE")
      /\ request' = request /\ work' = work /\ gc' = gc
      /\ env_cache' = env_cache
      /\ may' = may /\ cut' = cut /\ dropped' = dropped /\ failures' = failures
  BY DEF prepare, SetStatus, Mark, ghosts
<1>2. /\ loading' <=> loading
      /\ loading' \in BOOLEAN /\ gc_request' \in BOOLEAN
      /\ last_is_complete_del' \in BOOLEAN
  BY TypeFacts, Zenon DEF EnvInv, Basic, prepare
<1>3. /\ flash \in Flash /\ ~loading /\ gc.sec = 0 /\ ~loading' /\ gc'.sec = 0
  BY <1>1, <1>2, TypeFacts DEF EnvInv, Basic, Control
<1>4. ~moving /\ ~moving'
  BY <1>3 DEF moving
<1>5. work.old \in AddrsIn(flash) /\ KeyOf(work.old) = work.key
  BY <1>1, <1>3, <1>4, AddrsHold DEF EnvInv, Basic, Old, Setting
<1>6. "PRE_DELETE" \in Statuses
  BY DEF Statuses
<1>7. /\ flash' \in Flash
      /\ AddrsIn(flash') = AddrsIn(flash)
      /\ SameSectors(flash, flash')
      /\ SameNodes(flash, flash')
      /\ Written' = Written \ {work.old}
      /\ PreparedIn(flash') \subseteq PreparedIn(flash) \union {work.old}
      /\ PreparedIn(flash) \subseteq PreparedIn(flash') \union {work.old}
      /\ work.old \in Written =>
            PreparedIn(flash') = PreparedIn(flash) \union {work.old}
  BY <1>1, <1>3, <1>5, <1>6, Marked DEF Written, WrittenIn
<1>8. \A a \in AddrsIn(flash) :
         KeyIn(flash', a) = KeyOf(a) /\ ValIn(flash', a) = ValOf(a)
  BY <1>7 DEF SameNodes, KeyOf, ValOf
<1>9. /\ LiveNodes \subseteq AddrsIn(flash)
      /\ Written \subseteq LiveNodes /\ PreparedIn(flash) \subseteq LiveNodes
      /\ LiveNodes' \subseteq LiveNodes \union {work.old}
      /\ work.old \in Written => LiveNodes' = LiveNodes
  BY <1>3, <1>7, LiveFacts DEF LiveNodes, Written
<1>10. work.key \notin dropped => work.old \in Written
  BY <1>1 DEF EnvInv, Basic, Old
<1>11. TypeOK'
  BY <1>1, <1>2, <1>7 DEF EnvInv, Basic, TypeOK, Flash
<1>12. Control'
  BY <1>1, <1>2, <1>3, <1>4 DEF EnvInv, Basic, Control
<1>13. Headers'
  BY <1>1, <1>3, <1>7 DEF EnvInv, Basic, Headers, Collecting, SameSectors
<1>14. Place'
  BY <1>1, <1>3, <1>4, <1>7
     DEF EnvInv, Basic, Place, Moves, Setting, Copying, SameSectors
<1>15. Old'
  BY <1>1, <1>3, <1>4, <1>5, <1>7, <1>8, <1>10
     DEF Old, Moves, Setting, Copying, KeyOf
<1>16. Values'
  BY <1>1, <1>5, <1>8, <1>9, <1>10
     DEF EnvInv, Data, Values, Lost, KeyOf, ValOf
<1>17. OneWritten'
  BY <1>1, <1>7, <1>8, <1>9 DEF EnvInv, Data, OneWritten, Lost, KeyOf
<1>18. OnePrepared'
  BY <1>1, <1>3, <1>7, <1>8, <1>9
     DEF EnvInv, Data, OnePrepared, Lost, KeyOf, Copying
<1>19. NoneWritten'
  BY <1>1, <1>3, <1>5, <1>7, <1>8, <1>9, <1>10
     DEF EnvInv, Data, OneWritten, NoneWritten, Lost, KeyOf
<1>20. SomeWritten' /\ Done' /\ Passed' /\ CacheIsOff'
  BY <1>1, <1>3 DEF SomeWritten, Done, Passed, CacheIsOff, Collecting
<1>21. Kept'
  <2>1. SUFFICES ASSUME NEW k \in Keys \ Lost, Absent \notin may[k]
                 PROVE  \E a \in LiveNodes' : KeyIn(flash', a) = k
    BY <1>1, <1>3 DEF Kept, Lost, Safe, Collecting, KeyOf
  <2>2. PICK a \in LiveNodes : KeyOf(a) = k
    BY <2>1 DEF EnvInv, Data, Kept
  <2>3. a \in LiveNodes'
    BY <1>5, <1>7, <1>9, <1>10, <2>2 DEF LiveNodes, Lost, Written
  <2>4. QED BY <1>8, <1>9, <2>2, <2>3
<1>22. Cached'
  <2>1. SUFFICES ASSUME NEW k \in Keys \ dropped
                 PROVE  CachedAt(k, env_cache[k])'
    BY <1>1 DEF Cached
  <2>2. \/ env_cache[k] = NoAddr
        \/ env_cache[k] \in Written /\ KeyOf(env_cache[k]) = k
    BY <1>1 DEF EnvInv, Data, Cached, CachedAt, Copying
  <2>3. CASE env_cache[k] = NoAddr
    BY <1>1, <2>3 DEF CachedAt
  <2>4. CASE env_cache[k] \in Written \ {work.old} /\ KeyOf(env_cache[k]) = k
    BY <1>1, <1>3, <1>7, <1>8, <1>9, <2>4 DEF CachedAt, KeyOf
  <2>5. CASE env_cache[k] \in Written /\ env_cache[k] = work.old /\ work.key = k
    BY <1>1, <1>3, <1>4, <1>7, <2>5 DEF CachedAt, Copying
  <2>6. QED BY <1>5, <2>2, <2>3, <2>4, <2>5
<1>23. QED
  BY <1>11, <1>12, <1>13, <1>14, <1>15, <1>16, <1>17, <1>18, <1>19, <1>20,
     <1>21, <1>22 DEF EnvInv, Basic, Data

LEMMA DirtyStep ==
    ASSUME EnvInv, dirty
    PROVE  EnvInv'
<1>1. /\ pc \in {"dirty", "dirty_moved"}
      /\ pc' = IF pc = "dirty" THEN "sector" ELSE "recover"
      /\ flash' = MarkDirty(flash, work.old[1], "TRUE")
      /\ request' = request /\ work' = work /\ gc' = gc
      /\ env_cache' = env_cache
      /\ may' = may /\ cut' = cut /\ dropped' = dropped /\ failures' = failures
      /\ last_is_complete_del' \in {last_is_complete_del, TRUE, FALSE}
  BY DEF dirty, MarkDirty, ghosts
<1>2. /\ loading' <=> loading
      /\ loading' \in BOOLEAN /\ gc_request' \in BOOLEAN
  BY TypeFacts, Zenon DEF EnvInv, Basic, dirty
<1>3. flash \in Flash /\ gc.sec = 0 /\ (moving' <=> moving)
  BY <1>1, <1>2, TypeFacts DEF EnvInv, Basic, Control, moving
<1>4. work.old \in AddrsIn(flash)
  BY <1>1 DEF EnvInv, Basic, Old
<1>5. work.old[1] \in Sectors
  BY <1>3, <1>4, AddrsHold
<1>6. flash' \in Flash /\ SameLogs(flash, flash')
  <2>1. PICK s : s = work.old[1]
    OBVIOUS
  <2>2. s \in Sectors /\ flash' = MarkDirty(flash, s, "TRUE")
    BY <1>1, <1>5, <2>1
  <2>3. QED BY <1>3, <2>2, DirtyMarked
<1>7. /\ AddrsIn(flash') = AddrsIn(flash) /\ SameView(flash, flash')
      /\ \A a \in AddrsIn(flash) : NodeIn(flash', a) = NodeIn(flash, a)
  BY <1>3, <1>6, SameLog
<1>8. TypeOK'
  BY <1>1, <1>2, <1>6 DEF EnvInv, Basic, TypeOK, Flash
<1>9. Control'
  BY <1>1, <1>2, <1>3 DEF EnvInv, Basic, Control
<1>10. Headers'
  BY <1>1, <1>3, <1>6 DEF EnvInv, Basic, Headers, Collecting, SameLogs
<1>11. Place'
  BY <1>1, <1>3, <1>6 DEF EnvInv, Basic, Place, Moves, Setting, Copying,
                          SameLogs
<1>12. Old'
  <2>1. CASE pc = "dirty"
    BY <1>1, <1>3, <1>7, <2>1
       DEF EnvInv, Basic, Old, Moves, Setting, Copying, KeyOf, KeyIn, SameView,
           moving, Control
  <2>2. CASE pc = "dirty_moved"
    BY <1>1, <2>2, OutsideBasic DEF Outside
  <2>3. QED BY <1>1, <2>1, <2>2
<1>13. Data'
  <2>1. CASE pc = "dirty"
    BY <1>1, <1>2, <1>3, <1>6, <1>7, <2>1, CopyingData DEF Copying
  <2>2. CASE pc = "dirty_moved"
    BY <1>1, <1>2, <1>6, <1>7, <2>2, OutsideData DEF Outside
  <2>3. QED BY <1>1, <2>1, <2>2
<1>14. QED BY <1>8, <1>9, <1>10, <1>11, <1>12, <1>13 DEF EnvInv, Basic

LEMMA UpdateSecStatusStep ==
    ASSUME EnvInv, update_sec_status
    PROVE  EnvInv'
<1>1. /\ pc = "sector" /\ pc' = "pre_write"
      /\ \E st \in {"EMPTY", "USING", "FULL"} :
            flash' = MarkStore(flash, work.sec, st)
      /\ request' = request /\ gc' = gc /\ env_cache' = env_cache
      /\ may' = may /\ cut' = cut /\ dropped' = dropped /\ failures' = failures
      /\ last_is_complete_del' \in {last_is_complete_del, TRUE, FALSE}
  BY DEF update_sec_status, MarkStore, ghosts
<1>2. PICK b \in BOOLEAN : work' = [work EXCEPT !.full = b]
  BY Zenon DEF update_sec_status
<1>3. /\ loading' <=> loading
      /\ loading' \in BOOLEAN /\ gc_request' \in BOOLEAN
  BY TypeFacts, Zenon DEF EnvInv, Basic, update_sec_status
<1>4. /\ work.sec \in Sectors /\ flash \in Flash /\ (moving' <=> moving)
      /\ Len(flash[work.sec].nodes) < Cap
  BY <1>1, <1>3, TypeFacts DEF EnvInv, Basic, Place, moving, Copying
<1>5. /\ work' \in [key: Keys \union {Absent}, val: Vals \union {Absent},
                    sec: 0..NumSectors, full: BOOLEAN, old: Addresses]
      /\ work'.key = work.key /\ work'.val = work.val /\ work'.old = work.old
      /\ work'.sec = work.sec
  BY <1>2 DEF EnvInv, Basic, TypeOK
<1>6. /\ flash' \in Flash /\ SameLogs(flash, flash')
      /\ SameSectors(flash, flash')
  <2>1. PICK st \in {"EMPTY", "USING", "FULL"} :
            flash' = MarkStore(flash, work.sec, st)
    BY <1>1
  <2>2. PICK s : s = work.sec
    OBVIOUS
  <2>3. s \in Sectors /\ flash' = MarkStore(flash, s, st)
    BY <1>4, <2>1, <2>2
  <2>4. QED BY <1>4, <2>3, StoreMarked
<1>7. /\ AddrsIn(flash') = AddrsIn(flash) /\ SameView(flash, flash')
      /\ \A a \in AddrsIn(flash) : NodeIn(flash', a) = NodeIn(flash, a)
  BY <1>4, <1>6, SameLog
<1>8. TypeOK'
  BY <1>1, <1>3, <1>5, <1>6 DEF EnvInv, Basic, TypeOK, Flash
<1>9. Control'
  BY <1>1, <1>3 DEF EnvInv, Basic, Control
<1>10. Headers'
  BY <1>1, <1>6
     DEF EnvInv, Basic, Headers, Collecting, Moves, Copying, SameLogs,
         SameSectors
<1>11. Place'
  BY <1>1, <1>4, <1>5, <1>6
     DEF EnvInv, Basic, Place, Moves, Setting, Copying, SameLogs
<1>12. Old'
  BY <1>1, <1>4, <1>5, <1>7
     DEF EnvInv, Basic, Old, Moves, Setting, Copying, KeyOf, ValOf, KeyIn,
         ValIn,
         SameView, PreparedIn
<1>13. Data'
  BY <1>1, <1>3, <1>4, <1>5, <1>6, <1>7, CopyingData DEF Copying
<1>14. QED BY <1>8, <1>9, <1>10, <1>11, <1>12, <1>13 DEF EnvInv, Basic

LEMMA PreWriteStep ==
    ASSUME EnvInv, pre_write
    PROVE  EnvInv'
<1> DEFINE n == [status |-> "PRE_WRITE", body |-> "none",
                 key |-> work.key, val |-> work.val]
<1>1. /\ pc = "pre_write" /\ pc' = "header"
      /\ flash' = Grow(flash, work.sec, n)
      /\ request' = request /\ work' = work /\ gc' = gc
      /\ env_cache' = env_cache
      /\ may' = may /\ cut' = cut /\ dropped' = dropped /\ failures' = failures
      /\ last_is_complete_del' \in {last_is_complete_del, TRUE, FALSE}
  BY DEF pre_write, Grow, ghosts
<1>2. /\ loading' <=> loading
      /\ loading' \in BOOLEAN /\ gc_request' \in BOOLEAN
  BY TypeFacts, Zenon DEF EnvInv, Basic, pre_write
<1>3. /\ work.sec \in Sectors /\ flash \in Flash /\ (moving' <=> moving)
      /\ Len(flash[work.sec].nodes) < Cap /\ flash[work.sec].ok
      /\ work.key \in Keys /\ work.val \in Vals
  BY <1>1, <1>2, TypeFacts DEF EnvInv, Basic, Place, moving, Copying, Setting
<1>4. /\ n \in Node /\ n.status = "PRE_WRITE" /\ n.key = work.key
      /\ n.val = work.val
  BY <1>3 DEF Node, Statuses
<1> HIDE DEF n
<1>5. /\ flash' \in Flash
      /\ AddrsIn(flash) \subseteq AddrsIn(flash')
      /\ SameView(flash, flash')
      /\ \A t \in Sectors : /\ flash'[t].ok = flash[t].ok
                            /\ flash'[t].dirty = flash[t].dirty
      /\ \A t \in Sectors : ~flash[t].ok =>
                               Len(flash'[t].nodes) = Len(flash[t].nodes)
      /\ <<work.sec, Len(flash'[work.sec].nodes)>> \in AddrsIn(flash')
      /\ NodeIn(flash', <<work.sec, Len(flash'[work.sec].nodes)>>) = n
  BY <1>1, <1>3, <1>4, Grown
<1>6. TypeOK'
  BY <1>1, <1>2, <1>5 DEF EnvInv, Basic, TypeOK, Flash
<1>7. Control'
  BY <1>1, <1>2 DEF EnvInv, Basic, Control
<1>8. Headers'
  BY <1>1, <1>5 DEF EnvInv, Basic, Headers, Collecting, Moves, Copying
<1>9. Place'
  BY <1>1, <1>3, <1>4, <1>5
     DEF EnvInv, Basic, Place, Moves, Setting, Copying, Last, KeyOf, ValOf,
         KeyIn,
         ValIn
<1>10. Old'
  BY <1>1, <1>3, <1>5
     DEF EnvInv, Basic, Old, Moves, Setting, Copying, KeyOf, ValOf, SameView,
         SameNodes, PreparedIn
<1>11. Data'
  BY <1>1, <1>2, <1>3, <1>5, CopyingData DEF Copying
<1>12. QED BY <1>6, <1>7, <1>8, <1>9, <1>10, <1>11 DEF EnvInv, Basic

\* Writing the name or the value of the new node.
LEMMA BodyStep ==
    ASSUME EnvInv, write_header \/ write_value
    PROVE  EnvInv'
<1>0. PICK l : l = Last
  OBVIOUS
<1>1. PICK bd \in {"header", "whole"} :
         /\ flash' = Fill(flash, l, bd)
         /\ \/ pc = "header" /\ pc' = "value"
            \/ pc = "value" /\ pc' = "commit" /\ bd = "whole"
  BY <1>0 DEF write_header, write_value, Fill
<1>2. /\ \/ pc = "header" /\ pc' = "value"
         \/ pc = "value" /\ pc' = "commit" /\ bd = "whole"
      /\ request' = request /\ work' = work /\ gc' = gc
      /\ may' = may /\ cut' = cut /\ dropped' = dropped /\ failures' = failures
  BY <1>1 DEF write_header, write_value, ghosts
<1>3. \/ env_cache' = env_cache /\ (moving \/ pc = "value")
      \/ /\ ~moving /\ pc = "header"
         /\ env_cache' = [env_cache EXCEPT ![work.key] = l]
  BY <1>0, Zenon DEF write_header, write_value, ghosts
<1>4. /\ loading' <=> loading
      /\ loading' \in BOOLEAN /\ gc_request' \in BOOLEAN
      /\ last_is_complete_del' \in BOOLEAN
  <2>1. /\ loading' = loading /\ gc_request' = gc_request
        /\ last_is_complete_del' = last_is_complete_del
    BY DEF write_header, write_value
  <2>2. QED BY <2>1, TypeFacts, Zenon DEF EnvInv, Basic
<1>5. /\ flash \in Flash /\ l \in AddrsIn(flash) /\ (moving' <=> moving)
      /\ NodeIn(flash, l).status = "PRE_WRITE" /\ work.sec \in Sectors
      /\ KeyOf(l) = work.key /\ ValOf(l) = work.val /\ work.key \in Keys
  BY <1>0, <1>2, <1>4, TypeFacts
     DEF EnvInv, Basic, Place, Setting, Copying, moving
<1>6. /\ flash' \in Flash
      /\ AddrsIn(flash') = AddrsIn(flash)
      /\ SameSectors(flash, flash')
      /\ SameView(flash, flash')
      /\ NodeIn(flash', l).status = "PRE_WRITE" /\ NodeIn(flash', l).body = bd
  BY <1>1, <1>5, Bodied
<1>7. Last' = l
  BY <1>0, <1>2, <1>5, <1>6 DEF Last, SameSectors
<1>8. \A a \in AddrsIn(flash) :
         KeyIn(flash', a) = KeyOf(a) /\ ValIn(flash', a) = ValOf(a)
  BY <1>6 DEF SameView, SameNodes, KeyOf, ValOf
<1>9. TypeOK'
  <2>1. l \in Addresses
    BY <1>5, AddrsHold DEF Addresses, Sectors
  <2>2. env_cache' \in [Keys -> Addresses]
    BY <1>3, <2>1 DEF EnvInv, Basic, TypeOK
  <2>3. QED BY <1>2, <1>4, <1>6, <2>2 DEF EnvInv, Basic, TypeOK, Flash
<1>10. Control'
  BY <1>2, <1>4 DEF EnvInv, Basic, Control
<1>11. Headers'
  BY <1>2, <1>6 DEF EnvInv, Basic, Headers, Collecting, Moves, Copying,
                    SameSectors
<1>12. Place'
  <2>1. KeyOf(Last)' = work.key /\ ValOf(Last)' = work.val
    BY <1>5, <1>7, <1>8 DEF KeyOf, ValOf
  <2>2. flash'[work.sec].ok = flash[work.sec].ok
    BY <1>5, <1>6 DEF SameSectors
  <2>3. QED BY <1>2, <1>5, <1>6, <1>7, <2>1, <2>2
        DEF EnvInv, Basic, Place, Moves, Setting, Copying
<1>13. Old'
  BY <1>2, <1>5, <1>6, <1>8
     DEF EnvInv, Basic, Old, Moves, Setting, Copying, KeyOf, ValOf, SameView,
         PreparedIn
<1>14. Data'
  <2>1. \A k \in Keys \ dropped :
               \/ env_cache'[k] = env_cache[k]
               \/ /\ k = work.key /\ ~moving /\ pc' = "value"
                  /\ env_cache'[k] = Last
    BY <1>0, <1>2, <1>3 DEF EnvInv, Basic, TypeOK
  <2>2. ~moving /\ pc' \in {"value", "commit"}
            => Last' = Last /\ (pc = "value" \/ env_cache'[work.key] = Last)
    BY <1>0, <1>3, <1>5, <1>7 DEF EnvInv, Basic, TypeOK
  <2>3. QED BY <1>2, <1>4, <1>5, <1>6, <2>1, <2>2, CopyingData DEF Copying
<1>15. QED BY <1>9, <1>10, <1>11, <1>12, <1>13, <1>14 DEF EnvInv, Basic

LEMMA DeleteStep ==
    ASSUME EnvInv, delete
    PROVE  EnvInv'
<1>0. /\ env_cache' \in [Keys -> Addresses]
      /\ \A k \in Keys : env_cache'[k] \in {env_cache[k], NoAddr}
  <2>1. env_cache' \in Forgetful
    BY DEF delete, Forgetful
  <2>2. NoAddr \in Addresses /\ env_cache \in [Keys -> Addresses]
    BY EnvAssumption DEF NoAddr, Addresses, EnvInv, Basic, TypeOK
  <2>3. QED BY <2>1, <2>2 DEF Forgetful
<1>1. /\ pc = "delete"
      /\ flash' = Mark(flash, work.old, "DELETED")
      /\ request' = request /\ work' = work /\ gc' = gc
      /\ may' = may /\ cut' = cut /\ dropped' = dropped /\ failures' = failures
      /\ last_is_complete_del' = FALSE
  BY DEF delete, SetStatus, Mark, ghosts
<1>2. /\ loading' <=> loading
      /\ loading' \in BOOLEAN /\ gc_request' \in BOOLEAN
  BY TypeFacts, Zenon DEF EnvInv, Basic, delete
<1>3. \/ ~moving /\ pc' = "end_set"
      \/ moving /\ gc.sec # 0 /\ pc' = "gc_node"
      \/ moving /\ gc.sec = 0 /\ loading /\ pc' \in {"dirty_moved", "recover"}
  BY DEF delete, moving
<1>4. /\ flash \in Flash /\ (moving' <=> moving)
      /\ work.old \in AddrsIn(flash) /\ KeyOf(work.old) = work.key
      /\ work.old # NoAddr
  BY <1>1, <1>2, TypeFacts, AddrsHold
     DEF EnvInv, Basic, Old, Moves, Setting, moving
<1>5. "DELETED" \in Statuses
  BY DEF Statuses
<1>6. /\ flash' \in Flash
      /\ AddrsIn(flash') = AddrsIn(flash)
      /\ SameSectors(flash, flash')
      /\ SameNodes(flash, flash')
      /\ Written' = Written \ {work.old}
      /\ PreparedIn(flash') = PreparedIn(flash) \ {work.old}
  BY <1>1, <1>4, <1>5, Marked DEF Written
<1>7. /\ LiveNodes' = LiveNodes \ {work.old}
      /\ Written \subseteq LiveNodes /\ PreparedIn(flash) \subseteq LiveNodes
      /\ LiveNodes \subseteq AddrsIn(flash)
      /\ \A a \in AddrsIn(flash) :
            KeyIn(flash', a) = KeyOf(a) /\ ValIn(flash', a) = ValOf(a)
  BY <1>4, <1>6, LiveFacts DEF LiveNodes, Written, SameNodes, KeyOf, ValOf
<1>8. moving \/ work.key \notin dropped =>
         work.old \in PreparedIn(flash) /\ Written' = Written
  <2>1. moving \/ work.key \notin dropped => work.old \in PreparedIn(flash)
    BY <1>1, <1>4 DEF EnvInv, Basic, Old, Moves
  <2>2. QED BY <1>4, <1>6, <2>1, LiveFacts
<1>9. TypeOK'
  BY <1>0, <1>1, <1>2, <1>3, <1>6 DEF EnvInv, Basic, TypeOK, Flash
<1>10. Control'
  <2>1. CASE gc.sec # 0
    <3>1. moving /\ work.old = <<gc.sec, gc.pos - 1>> /\ gc.pos \in Nat
      BY <1>1, <2>1 DEF EnvInv, Basic, TypeOK, Old, Moves, moving
    <3>2. gc.sec \in Sectors /\ gc.pos >= 1
      BY <1>4, <3>1, AddrsHold
    <3>3. QED BY <1>1, <1>2, <1>3, <2>1, <3>1, <3>2 DEF EnvInv, Basic, Control
  <2>2. CASE gc.sec = 0
    BY <1>1, <1>2, <1>3, <1>4, <2>2 DEF EnvInv, Basic, Control, moving
  <2>3. QED BY <2>1, <2>2
<1>11. Headers'
  BY <1>1, <1>3, <1>6 DEF EnvInv, Basic, Headers, Collecting, Moves, SameSectors
<1>12. Place'
  BY <1>1, <1>3, <1>4 DEF EnvInv, Basic, Place, Moves, Setting, Copying
<1>13. Old'
  BY <1>1, <1>3, <1>4, <1>6 DEF Old, Moves, Setting, Copying
<1>14. Values' /\ OneWritten'
  BY <1>1, <1>6, <1>7
     DEF EnvInv, Data, Values, OneWritten, Lost, KeyOf, ValOf
<1>15. OnePrepared'
  BY <1>1, <1>2, <1>6, <1>7 DEF EnvInv, Data, OnePrepared, Lost, KeyOf
<1>16. NoneWritten' /\ SomeWritten' /\ CacheIsOff'
  BY <1>3 DEF NoneWritten, SomeWritten, CacheIsOff, Copying
<1>17. Done'
  BY <1>1, <1>3, <1>4, <1>7, <1>8
     DEF EnvInv, Data, Done, Lost, KeyOf, ValOf
<1>18. Passed'
  BY <1>1, <1>3, <1>6
     DEF EnvInv, Data, Passed, Collecting, Moves, Copying
<1>19. Kept'
  <2>1. SUFFICES ASSUME NEW k \in Keys \ Lost, Absent \notin may[k]
                 PROVE  \E a \in LiveNodes' : KeyIn(flash', a) = k /\ Safe(a)'
    BY <1>1 DEF Kept, Lost, KeyOf
  <2>2. PICK a \in LiveNodes : KeyOf(a) = k /\ Safe(a)
    BY <2>1 DEF EnvInv, Data, Kept
  <2>3. CASE gc.sec # 0
    <3>1. a[1] # gc.sec \/ a[2] >= gc.pos
      BY <1>1, <2>2, <2>3 DEF Safe, Collecting, Moves
    <3>2. work.old = <<gc.sec, gc.pos - 1>> /\ gc.pos \in Nat
      BY <1>1, <2>3 DEF EnvInv, Basic, TypeOK, Old, Moves
    <3>3. a # work.old
      BY <3>1, <3>2
    <3>4. a \in LiveNodes' /\ KeyIn(flash', a) = k
      BY <1>7, <2>2, <3>3
    <3>5. Safe(a)'
      BY <1>1, <1>3, <2>3, <3>1 DEF Safe, moving
    <3>6. QED BY <3>4, <3>5 DEF Safe
  <2>4. CASE gc.sec = 0
    <3>1. \A b : Safe(b)'
      BY <1>1, <2>4 DEF Safe, Collecting
    <3>2. CASE k = work.key
      BY <1>1, <1>7, <1>8, <2>1, <3>1, <3>2
         DEF EnvInv, Data, SomeWritten, Lost, Safe, LiveNodes, Written
    <3>3. CASE k # work.key
      BY <1>4, <1>7, <2>2, <3>1, <3>3 DEF Safe
    <3>4. QED BY <3>2, <3>3
  <2>5. QED BY <2>3, <2>4
<1>20. Cached'
  <2>1. SUFFICES ASSUME NEW k \in Keys \ dropped
                 PROVE  CachedAt(k, env_cache[k])'
    BY <1>1 DEF Cached
  <2>0. CASE env_cache'[k] = NoAddr
    BY <2>0 DEF CachedAt
  <2>2. \/ env_cache[k] = NoAddr
        \/ /\ env_cache[k] \in Written /\ KeyOf(env_cache[k]) = k
           /\ loading => \A b \in Written : KeyOf(b) = k => b = env_cache[k]
    BY <1>1, <2>1 DEF EnvInv, Data, Cached, CachedAt, Copying
  <2>3. env_cache'[k] = env_cache[k] \/ env_cache'[k] = NoAddr
    BY <1>0, <2>1
  <2>4. CASE /\ env_cache'[k] = env_cache[k]
             /\ env_cache[k] \in Written /\ KeyOf(env_cache[k]) = k
             /\ loading => \A b \in Written : KeyOf(b) = k => b = env_cache[k]
    <3>1. env_cache[k] \in Written'
      BY <1>4, <1>6, <1>8, <2>1, <2>4
    <3>2. QED BY <1>1, <1>2, <1>6, <1>7, <2>4, <3>1 DEF CachedAt, KeyOf
  <2>5. QED BY <2>0, <2>2, <2>3, <2>4
<1>21. QED
  BY <1>9, <1>10, <1>11, <1>12, <1>13, <1>14, <1>15, <1>16, <1>17, <1>18, <1>19,
     <1>20 DEF EnvInv, Basic, Data

LEMMA EndSetStep ==
    ASSUME EnvInv, end_set
    PROVE  EnvInv'
<1>1. /\ pc = "end_set" /\ flash' = flash /\ env_cache' = env_cache
      /\ request' = NoRequest /\ work' = NoWork
      /\ may' = [may EXCEPT ![request.key] = {request.val}]
      /\ cut' = cut /\ dropped' = dropped /\ failures' = failures
      /\ last_is_complete_del' \in {last_is_complete_del, TRUE, FALSE}
  BY DEF end_set
<1>2. /\ loading' <=> loading
      /\ loading' \in BOOLEAN /\ gc_request' \in BOOLEAN
  BY TypeFacts, Zenon DEF EnvInv, Basic, end_set
<1>3. \/ gc' = [NoGC EXCEPT !.back = "idle"] /\ pc' = "gc"
      \/ gc' = NoGC /\ pc' = "idle"
  BY Zenon DEF end_set
<1>4. flash \in Flash /\ ~loading /\ gc.sec = 0 /\ ~moving
  BY <1>1, TypeFacts DEF EnvInv, Basic, Control, moving
<1>5. /\ request.key \in Keys /\ work.key = request.key
      /\ work.val = request.val
      /\ request.val \in Vals
  BY <1>1, <1>4 DEF EnvInv, Basic, Control, Place, Setting
<1>6. gc'.sec = 0 /\ gc'.back \in {"none", "idle"} /\ pc' \in {"gc", "idle"}
      /\ (pc' = "gc" => gc'.back = "idle")
  BY <1>3 DEF NoGC
<1>7. TypeOK'
  <2>1. NoAddr \in Addresses
    BY EnvAssumption DEF NoAddr, Addresses
  <2>2. work' \in [key: Keys \union {Absent}, val: Vals \union {Absent},
                   sec: 0..NumSectors, full: BOOLEAN, old: Addresses]
    BY <1>1, <2>1, EnvAssumption DEF NoWork
  <2>3. gc' \in [sec: 0..NumSectors + 1, pos: 0..Cap + 1,
                 back: {"none", "new_env", "idle", "recover"}]
    BY <1>3, EnvAssumption DEF NoGC
  <2>4. request' \in [key: Keys \union {Absent}, val: Vals \union {Absent},
                      collected: BOOLEAN]
    BY <1>1 DEF NoRequest
  <2>5. may' \in [Keys -> SUBSET (Vals \union {Absent})]
    BY <1>1, <1>5 DEF EnvInv, Basic, TypeOK
  <2>6. QED BY <1>1, <1>2, <1>6, <2>2, <2>3, <2>4, <2>5
        DEF EnvInv, Basic, TypeOK
<1>8. Control'
  <2>1. request'.key \notin Keys
    BY <1>1, EnvAssumption DEF NoRequest
  <2>2. QED BY <1>2, <1>4, <1>6, <2>1 DEF Control
<1>9. Headers' /\ Place' /\ Old'
  BY <1>1, <1>6, OutsideBasic DEF EnvInv, Basic, Headers, Collecting, Outside
<1>10. /\ Written \subseteq LiveNodes /\ PreparedIn(flash) \subseteq LiveNodes
       /\ \A a \in LiveNodes : KeyOf(a) \in Keys
  BY <1>4, LiveFacts DEF LiveNodes, Written
<1>11. \A k \in Keys :
          may'[k] = IF k = request.key THEN {request.val} ELSE may[k]
  BY <1>1 DEF EnvInv, Basic, TypeOK
<1>12. OneWritten' /\ OnePrepared'
  BY <1>1, <1>2, <1>4
     DEF EnvInv, Data, OneWritten, OnePrepared, Written, Lost, KeyOf, Copying
<1>13. Values'
  <2>1. SUFFICES ASSUME NEW a \in LiveNodes, KeyOf(a) \notin Lost
                 PROVE  ValOf(a) \in may'[KeyOf(a)]
    BY <1>1 DEF Values, LiveNodes, Lost, KeyOf, ValOf
  <2>2. CASE KeyOf(a) = request.key
    <3>1. a \in Written
      BY <1>1, <1>4, <2>1 DEF EnvInv, Data, OnePrepared, LiveNodes, Copying,
                              Written
    <3>2. ValOf(a) = request.val
      BY <1>1, <1>4, <1>5, <2>1, <2>2, <3>1 DEF EnvInv, Data, Done
    <3>3. QED BY <1>5, <1>11, <2>2, <3>2
  <2>3. CASE KeyOf(a) # request.key
    BY <1>10, <1>11, <2>1, <2>3 DEF EnvInv, Data, Values
  <2>4. QED BY <2>2, <2>3
<1>14. NoneWritten' /\ SomeWritten' /\ Done' /\ Passed' /\ CacheIsOff'
  BY <1>6 DEF NoneWritten, SomeWritten, Done, Passed, CacheIsOff, Collecting,
              Copying
<1>15. Kept'
  <2>1. SUFFICES ASSUME NEW k \in Keys \ Lost, Absent \notin may'[k]
                 PROVE  \E a \in LiveNodes : KeyOf(a) = k
    BY <1>1, <1>6 DEF Kept, Lost, Safe, Collecting, LiveNodes, KeyOf
  <2>2. CASE k = request.key
    BY <1>1, <1>4, <1>5, <1>10, <2>1, <2>2 DEF EnvInv, Data, Done
  <2>3. CASE k # request.key
    BY <1>11, <2>1, <2>3 DEF EnvInv, Data, Kept
  <2>4. QED BY <2>2, <2>3
<1>16. Cached'
  BY <1>1, <1>2
     DEF EnvInv, Data, Cached, CachedAt, Written, KeyOf, Copying
<1>17. QED BY <1>7, <1>8, <1>9, <1>12, <1>13, <1>14, <1>15, <1>16
       DEF EnvInv, Basic, Data

LEMMA GcCheckStep ==
    ASSUME EnvInv, gc_check
    PROVE  EnvInv'
<1>1. /\ pc = "gc" /\ flash' = flash /\ env_cache' = env_cache /\ work' = work
      /\ request' = request /\ may' = may /\ cut' = cut /\ dropped' = dropped
      /\ failures' = failures
      /\ last_is_complete_del' \in {last_is_complete_del, TRUE, FALSE}
  BY DEF gc_check, ghosts
<1>2. /\ loading' <=> loading
      /\ loading' \in BOOLEAN /\ gc_request' \in BOOLEAN
  BY TypeFacts, Zenon DEF EnvInv, Basic, gc_check, gc_end
<1>3. \/ gc' = [gc EXCEPT !.sec = 1] /\ pc' = "gc_sector"
      \/ gc' = NoGC /\ pc' = gc.back
  BY Zenon DEF gc_check, gc_end
<1>4. /\ flash \in Flash /\ SameView(flash, flash')
      /\ loading => gc.back = "recover"
      /\ ~loading => gc.back \in {"new_env", "idle"}
      /\ gc.back = "new_env" => request.key \in Keys
  BY <1>1, TypeFacts DEF EnvInv, Basic, Control, SameView, SameNodes
<1>5. /\ gc' \in [sec: 0..NumSectors + 1, pos: 0..Cap + 1,
                  back: {"none", "new_env", "idle", "recover"}]
      /\ \/ gc'.sec = 1 /\ pc' = "gc_sector" /\ gc'.back = gc.back
         \/ gc'.sec = 0 /\ pc' = gc.back
  BY <1>3, EnvAssumption DEF EnvInv, Basic, TypeOK, NoGC
<1>6. pc' \in {"gc_sector", "new_env", "idle", "recover"}
  BY <1>4, <1>5
<1>7. TypeOK'
  BY <1>1, <1>2, <1>5, <1>6 DEF EnvInv, Basic, TypeOK
<1>8. Control'
  BY <1>1, <1>2, <1>4, <1>5, <1>6 DEF EnvInv, Basic, Control
<1>9. Headers' /\ Place' /\ Old'
  BY <1>1, <1>6, OutsideBasic
     DEF EnvInv, Basic, Headers, Collecting, Moves, Copying, Outside
<1>10. Data'
  BY <1>1, <1>2, <1>4, <1>6, OutsideData DEF Outside
<1>11. QED BY <1>7, <1>8, <1>9, <1>10 DEF EnvInv, Basic

LEMMA GcSectorStep ==
    ASSUME EnvInv, gc_sector
    PROVE  EnvInv'
<1>1. /\ pc = "gc_sector" /\ env_cache' = env_cache /\ work' = work
      /\ request' = request /\ may' = may /\ cut' = cut /\ dropped' = dropped
      /\ failures' = failures
      /\ last_is_complete_del' \in {last_is_complete_del, TRUE, FALSE}
  BY DEF gc_sector, ghosts
<1>2. /\ loading' <=> loading
      /\ loading' \in BOOLEAN /\ gc_request' \in BOOLEAN
  BY TypeFacts, Zenon DEF EnvInv, Basic, gc_sector, gc_end
<1>3. \/ /\ ~(gc.sec > NumSectors) /\ pc' = "gc_node"
         /\ flash' = MarkDirty(flash, gc.sec, "GC")
         /\ gc' = [gc EXCEPT !.pos = 1]
      \/ /\ ~(gc.sec > NumSectors) /\ pc' = pc
         /\ flash' = flash /\ gc' = [gc EXCEPT !.sec = @ + 1]
      \/ flash' = flash /\ gc' = NoGC /\ pc' = gc.back
  BY Zenon DEF gc_sector, gc_end, MarkDirty
<1>4. /\ flash \in Flash
      /\ loading => gc.back = "recover"
      /\ ~loading => gc.back \in {"new_env", "idle"}
      /\ gc.back = "new_env" => request.key \in Keys
      /\ gc.sec \in 1..NumSectors + 1
  BY <1>1, TypeFacts, EnvAssumption DEF EnvInv, Basic, Control, TypeOK
<1>5. \/ /\ gc.sec \in Sectors /\ pc' = "gc_node"
         /\ flash' = MarkDirty(flash, gc.sec, "GC")
         /\ gc' = [gc EXCEPT !.pos = 1]
      \/ /\ gc.sec \in Sectors /\ pc' = "gc_sector"
         /\ flash' = flash /\ gc' = [gc EXCEPT !.sec = @ + 1]
      \/ flash' = flash /\ gc' = NoGC /\ pc' = gc.back
  BY <1>1, <1>3, <1>4, EnvAssumption DEF Sectors
<1>6. /\ gc' \in [sec: 0..NumSectors + 1, pos: 0..Cap + 1,
                  back: {"none", "new_env", "idle", "recover"}]
      /\ \/ /\ gc'.sec = gc.sec /\ gc.sec \in Sectors /\ pc' = "gc_node"
            /\ gc'.back = gc.back /\ gc'.pos = 1
         \/ gc'.sec # 0 /\ pc' = "gc_sector" /\ gc'.back = gc.back
         \/ gc'.sec = 0 /\ pc' = gc.back
  BY <1>5, EnvAssumption DEF EnvInv, Basic, TypeOK, NoGC, Sectors
<1>7. pc' \in {"gc_sector", "new_env", "idle", "recover", "gc_node"}
  BY <1>4, <1>6
<1>8. /\ flash' \in Flash /\ SameView(flash, flash') /\ SameLogs(flash, flash')
      /\ pc' = "gc_node" => flash'[gc.sec].dirty = "GC"
  <2>1. CASE flash' = flash /\ pc' # "gc_node"
    BY <1>4, <2>1 DEF SameView, SameNodes, SameLogs
  <2>2. CASE gc.sec \in Sectors /\ flash' = MarkDirty(flash, gc.sec, "GC")
    <3>1. PICK s : s = gc.sec
      OBVIOUS
    <3>2. flash' \in Flash /\ SameLogs(flash, flash') /\ flash'[s].dirty = "GC"
      BY <1>4, <2>2, <3>1, DirtyMarked
    <3>3. QED BY <1>4, <3>1, <3>2, SameLog
  <2>3. QED BY <1>4, <1>5, <2>1, <2>2
<1>9. TypeOK'
  <2>1. TypeOK
    BY DEF EnvInv, Basic
  <2>2. work' \in [key: Keys \union {Absent}, val: Vals \union {Absent},
                  sec: 0..NumSectors, full: BOOLEAN, old: Addresses]
    BY <1>1, <2>1 DEF TypeOK
  <2>3. QED BY <1>1, <1>2, <1>6, <1>7, <1>8, <2>1, <2>2, TypeFacts, TypeStays
<1>10. Control'
  BY <1>1, <1>2, <1>4, <1>6, <1>7 DEF EnvInv, Basic, Control
<1>11. Headers'
  BY <1>1, <1>6, <1>7, <1>8
     DEF EnvInv, Basic, Headers, Collecting, Moves, Copying, SameLogs
<1>12. Place' /\ Old'
  BY <1>7 DEF Place, Old, Moves, Setting, Copying
<1>13. Data'
  BY <1>1, <1>2, <1>4, <1>6, <1>7, <1>8, OutsideData DEF Outside
<1>14. QED BY <1>9, <1>10, <1>11, <1>12, <1>13 DEF EnvInv, Basic

\* The collection comes to the end of its sector,
LEMMA GcNodeEnds ==
    ASSUME EnvInv, gc_node,
           \A a \in LiveNodes : a[1] = gc.sec => ~(a[2] >= gc.pos),
           pc' = "erase", flash' = flash, work' = work, gc' = gc
    PROVE  EnvInv'
<1>1. /\ pc = "gc_node" /\ request' = request /\ env_cache' = env_cache
      /\ may' = may /\ cut' = cut /\ dropped' = dropped /\ failures' = failures
      /\ last_is_complete_del' \in {last_is_complete_del, TRUE, FALSE}
  BY DEF gc_node, ghosts
<1>2. /\ loading' <=> loading
      /\ loading' \in BOOLEAN /\ gc_request' \in BOOLEAN
  BY TypeFacts, Zenon DEF EnvInv, Basic, gc_node
<1>3. TypeOK'
  BY <1>1, <1>2 DEF EnvInv, Basic, TypeOK
<1>4. Control' /\ Headers' /\ Place' /\ Old'
  BY <1>1, <1>2
     DEF EnvInv, Basic, Control, Headers, Place, Old, Collecting, Moves,
         Setting,
         Copying
<1>5. Values' /\ OneWritten' /\ OnePrepared'
  BY <1>1, <1>2
     DEF EnvInv, Data, Values, OneWritten, OnePrepared, LiveNodes, Written,
         KeyOf, ValOf, Lost, Copying
<1>6. NoneWritten' /\ SomeWritten' /\ Done' /\ CacheIsOff'
  BY DEF NoneWritten, SomeWritten, Done, CacheIsOff, Copying
<1>7. Passed'
  <2>1. SUFFICES ASSUME NEW a \in Written PROVE a[1] # gc.sec
    BY DEF Passed, Written
  <2>2. Collecting => a[1] # gc.sec \/ a[2] >= gc.pos
    BY DEF EnvInv, Data, Passed
  <2>3. Collecting
    BY <1>1 DEF Collecting, EnvInv, Basic, Control, Sectors
  <2>4. QED BY <2>1, <2>2, <2>3 DEF LiveNodes, Written
<1>8. Kept'
  <2>1. SUFFICES ASSUME NEW k \in Keys \ Lost, Absent \notin may[k]
                 PROVE  \E a \in LiveNodes : KeyOf(a) = k /\ a[1] # gc.sec
    BY <1>1 DEF Kept, Lost, Safe, LiveNodes, KeyOf
  <2>2. PICK a \in LiveNodes : KeyOf(a) = k /\ Safe(a)
    BY <2>1 DEF EnvInv, Data, Kept
  <2>3. Collecting
    BY <1>1 DEF Collecting, EnvInv, Basic, Control, Sectors
  <2>4. a[1] # gc.sec
    BY <1>1, <2>2, <2>3 DEF Safe, Moves, Copying
  <2>5. QED BY <2>2, <2>4
<1>9. Cached'
  BY <1>1, <1>2 DEF EnvInv, Data, Cached, CachedAt, Written, KeyOf, Copying
<1>10. QED BY <1>3, <1>4, <1>5, <1>6, <1>7, <1>8, <1>9
       DEF EnvInv, Basic, Data

\* The work of a move.
MoveOf(k, v, a) == [key |-> k, val |-> v, sec |-> 0, full |-> FALSE, old |-> a]

LEMMA WorkTyped ==
    ASSUME NEW k \in Keys, NEW v \in Vals, NEW a \in Addresses
    PROVE  MoveOf(k, v, a) \in
               [key: Keys \union {Absent}, val: Vals \union {Absent},
                sec: 0..NumSectors, full: BOOLEAN, old: Addresses]
<1>1. 0 \in 0..NumSectors
  BY EnvAssumption
<1>2. QED BY <1>1 DEF MoveOf

\* or prepares the next live node.
LEMMA GcNodeMoves ==
    ASSUME EnvInv, gc_node,
           NEW a \in LiveNodes, a[1] = gc.sec, a[2] >= gc.pos,
           \A b \in LiveNodes : b[1] = gc.sec /\ b[2] >= gc.pos => a[2] <= b[2],
           pc' = "move", flash' = Mark(flash, a, "PRE_DELETE"),
           gc' = [gc EXCEPT !.pos = a[2] + 1],
           work' = [NoWork EXCEPT !.key = KeyOf(a), !.val = ValOf(a), !.old = a]
    PROVE  EnvInv'
<1>1. /\ pc = "gc_node" /\ request' = request /\ env_cache' = env_cache
      /\ may' = may /\ cut' = cut /\ dropped' = dropped /\ failures' = failures
      /\ last_is_complete_del' \in {last_is_complete_del, TRUE, FALSE}
  BY DEF gc_node, ghosts
<1>2. /\ loading' <=> loading
      /\ loading' \in BOOLEAN /\ gc_request' \in BOOLEAN
  BY TypeFacts, Zenon DEF EnvInv, Basic, gc_node
<1>3. /\ flash \in Flash /\ a \in AddrsIn(flash)
      /\ NodeIn(flash, a).body = "whole"
      /\ a[1] \in Sectors /\ a[2] \in 1..Cap /\ a = <<a[1], a[2]>>
      /\ KeyOf(a) \in Keys /\ ValOf(a) \in Vals
      /\ gc.sec \in Sectors /\ gc.sec # 0
  BY <1>1, TypeFacts, LiveFacts, AddrsHold
     DEF EnvInv, Basic, Control, LiveNodes, WrittenIn, PreparedIn, Sectors
<1>4. "PRE_DELETE" \in Statuses
  BY DEF Statuses
<1>5. /\ flash' \in Flash
      /\ AddrsIn(flash') = AddrsIn(flash)
      /\ SameSectors(flash, flash')
      /\ SameNodes(flash, flash')
      /\ Written' = Written \ {a}
      /\ PreparedIn(flash') = PreparedIn(flash) \union {a}
  BY <1>3, <1>4, Marked DEF Written
<1>6. /\ LiveNodes' = LiveNodes
      /\ Written \subseteq LiveNodes /\ PreparedIn(flash) \subseteq LiveNodes
      /\ \A b \in LiveNodes :
            KeyIn(flash', b) = KeyOf(b) /\ ValIn(flash', b) = ValOf(b)
  BY <1>3, <1>5, LiveFacts DEF LiveNodes, Written, SameNodes, KeyOf, ValOf
<1>7. /\ work'.key = KeyOf(a) /\ work'.val = ValOf(a) /\ work'.old = a
      /\ gc'.sec = gc.sec /\ gc'.pos = a[2] + 1 /\ gc'.back = gc.back
  BY DEF NoWork, EnvInv, Basic, TypeOK
<1>8. Collecting /\ Collecting' /\ moving'
  BY <1>1, <1>3, <1>7 DEF Collecting, moving, Moves
<1>9. TypeOK'
  <2>1. a \in Addresses
    BY <1>3 DEF Addresses, Sectors
  <2>2. work' \in [key: Keys \union {Absent}, val: Vals \union {Absent},
                   sec: 0..NumSectors, full: BOOLEAN, old: Addresses]
    <3>1. KeyOf(a) \in Keys /\ ValOf(a) \in Vals
      BY <1>3
    <3>2. work' = MoveOf(KeyOf(a), ValOf(a), a)
      BY DEF NoWork, MoveOf
    <3>3. MoveOf(KeyOf(a), ValOf(a), a) \in
              [key: Keys \union {Absent}, val: Vals \union {Absent},
               sec: 0..NumSectors, full: BOOLEAN, old: Addresses]
      BY <2>1, <3>1, WorkTyped, Zenon
    <3>4. QED BY <3>2, <3>3
  <2>3. gc' \in [sec: 0..NumSectors + 1, pos: 0..Cap + 1,
                 back: {"none", "new_env", "idle", "recover"}]
    BY <1>3, EnvAssumption DEF EnvInv, Basic, TypeOK
  <2>4. QED BY <1>1, <1>2, <1>5, <2>2, <2>3 DEF EnvInv, Basic, TypeOK, Flash
<1>10. Control'
  BY <1>1, <1>2, <1>3, <1>7, <1>8 DEF EnvInv, Basic, Control
<1>11. Headers'
  BY <1>1, <1>3, <1>5, <1>7, <1>8 DEF EnvInv, Basic, Headers, SameSectors
<1>12. Place'
  BY <1>3, <1>7 DEF Place, Moves, Setting, Copying
<1>13. Old'
  BY <1>3, <1>5, <1>6, <1>7, <1>8
     DEF Old, Moves, Setting, Copying, KeyOf, ValOf
<1>14. Values' /\ OneWritten'
  BY <1>1, <1>5, <1>6
     DEF EnvInv, Data, Values, OneWritten, Lost, KeyOf, ValOf
<1>15. OnePrepared'
  BY <1>1, <1>2, <1>5, <1>6, <1>7
     DEF EnvInv, Data, OnePrepared, Lost, KeyOf, Copying
<1>16. NoneWritten'
  <2>1. SUFFICES ASSUME ~loading, KeyOf(a) \notin Lost, NEW b \in Written,
                        b # a, KeyOf(b) = KeyOf(a)
                 PROVE  FALSE
    BY <1>1, <1>2, <1>5, <1>6, <1>7 DEF NoneWritten, Lost, KeyOf, Copying
  <2>2. a \in Written
    BY <1>1, <2>1
       DEF EnvInv, Data, OnePrepared, LiveNodes, Written, Copying
  <2>3. QED BY <2>1, <2>2 DEF EnvInv, Data, OneWritten
<1>17. SomeWritten' /\ Done' /\ CacheIsOff'
  BY DEF SomeWritten, Done, CacheIsOff
<1>18. Passed'
  <2>1. SUFFICES ASSUME NEW b \in Written, b # a, b[1] = gc.sec
                 PROVE  b[2] >= a[2] + 1
    BY <1>5, <1>7 DEF Passed
  <2>2. b[2] >= gc.pos
    BY <1>8, <2>1 DEF EnvInv, Data, Passed
  <2>3. a[2] <= b[2] /\ b = <<b[1], b[2]>> /\ b[2] \in Nat
    BY <1>3, <1>6, <2>1, <2>2, LiveFacts, AddrsHold
  <2>4. QED BY <1>3, <2>1, <2>3
<1>19. Kept'
  <2>1. SUFFICES ASSUME NEW k \in Keys \ Lost, Absent \notin may[k]
                 PROVE  \E b \in LiveNodes' : KeyIn(flash', b) = k /\ Safe(b)'
    BY <1>1 DEF Kept, Lost, KeyOf
  <2>2. PICK b \in LiveNodes : KeyOf(b) = k /\ Safe(b)
    BY <2>1 DEF EnvInv, Data, Kept
  <2>3. b[1] # gc.sec \/ b[2] >= gc.pos
    BY <1>1, <1>8, <2>2 DEF Safe, Moves, Copying
  <2>4. b = <<b[1], b[2]>> /\ b[2] \in Nat
    BY <1>3, <2>2, LiveFacts, AddrsHold
  <2>5. b[1] # gc.sec \/ b = a \/ b[2] >= a[2] + 1
    BY <1>3, <2>2, <2>3, <2>4
  <2>6. Safe(b)'
    BY <1>7, <2>5 DEF Safe, Moves, Copying
  <2>7. QED BY <1>6, <2>2, <2>6 DEF Safe
<1>20. Cached'
  <2>1. SUFFICES ASSUME NEW k \in Keys \ dropped
                 PROVE  CachedAt(k, env_cache[k])'
    BY <1>1 DEF Cached
  <2>2. \/ env_cache[k] = NoAddr
        \/ /\ env_cache[k] \in Written /\ KeyOf(env_cache[k]) = k
           /\ loading => \A b \in Written : KeyOf(b) = k => b = env_cache[k]
    BY <1>1, <2>1 DEF EnvInv, Data, Cached, CachedAt, Copying
  <2>3. CASE env_cache[k] = NoAddr
    BY <1>1, <2>3 DEF CachedAt
  <2>4. CASE /\ env_cache[k] \in Written /\ KeyOf(env_cache[k]) = k
             /\ loading => \A b \in Written : KeyOf(b) = k => b = env_cache[k]
    <3>1. CASE env_cache[k] = a
      BY <1>1, <1>2, <1>3, <1>5, <1>6, <1>7, <2>4, <3>1
         DEF CachedAt, KeyOf, Copying
    <3>2. CASE env_cache[k] # a
      BY <1>1, <1>2, <1>5, <1>6, <2>4, <3>2 DEF CachedAt, KeyOf
    <3>3. QED BY <3>1, <3>2
  <2>5. QED BY <2>2, <2>3, <2>4
<1>21. QED
  BY <1>9, <1>10, <1>11, <1>12, <1>13, <1>14, <1>15, <1>16, <1>17, <1>18, <1>19,
     <1>20 DEF EnvInv, Basic, Data

\* One or the other.
NodeEnds == /\ \A a \in LiveNodes : a[1] = gc.sec => ~(a[2] >= gc.pos)
            /\ pc' = "erase" /\ flash' = flash /\ work' = work /\ gc' = gc

NodeMoves(a) ==
    /\ a \in LiveNodes /\ a[1] = gc.sec /\ a[2] >= gc.pos
    /\ \A b \in LiveNodes : b[1] = gc.sec /\ b[2] >= gc.pos => a[2] <= b[2]
    /\ pc' = "move" /\ flash' = Mark(flash, a, "PRE_DELETE")
    /\ gc' = [gc EXCEPT !.pos = a[2] + 1]
    /\ work' = [NoWork EXCEPT !.key = KeyOf(a), !.val = ValOf(a), !.old = a]

LEMMA GcNodeCases ==
    ASSUME EnvInv, gc_node
    PROVE  NodeEnds \/ \E a : NodeMoves(a)
<1> DEFINE rest == {i \in gc.pos .. Len(flash[gc.sec].nodes) :
                        Live(<<gc.sec, i>>)}
<1> DEFINE i == Least(rest)
<1>1. flash \in Flash /\ gc.sec \in Sectors /\ gc.pos \in Nat /\ gc.pos >= 1
      /\ Len(flash[gc.sec].nodes) \in Nat
  BY TypeFacts, SectorHolds DEF EnvInv, Basic, TypeOK, Control, gc_node, Flash
<1>2. \A j \in Nat : j \in rest <=> <<gc.sec, j>> \in LiveNodes /\ j >= gc.pos
  <2>1. SUFFICES ASSUME NEW j \in Nat
                 PROVE  j \in rest <=>
                            <<gc.sec, j>> \in LiveNodes /\ j >= gc.pos
    OBVIOUS
  <2>2. <<gc.sec, j>> \in AddrsIn(flash) <=> j \in 1..Len(flash[gc.sec].nodes)
    BY <1>1, AddrsHold
  <2>3. <<gc.sec, j>> \in LiveNodes <=>
            <<gc.sec, j>> \in AddrsIn(flash) /\ Live(<<gc.sec, j>>)
    BY <1>1, Words DEF LiveNodes, WrittenIn, PreparedIn, Live, Whole
  <2>4. QED BY <1>1, <2>2, <2>3
<1>3. rest \subseteq Nat
  BY <1>1
<1>4. CASE rest = {}
  <2>1. pc' = "erase" /\ flash' = flash /\ work' = work /\ gc' = gc
    BY <1>4 DEF gc_node
  <2>2. ASSUME NEW a \in LiveNodes, a[1] = gc.sec
        PROVE  ~(a[2] >= gc.pos)
    <3>1. a = <<gc.sec, a[2]>> /\ a[2] \in Nat
      BY <1>1, <2>2, LiveFacts, AddrsHold
    <3>2. QED BY <1>2, <1>4, <2>2, <3>1
  <2>3. QED BY <2>1, <2>2 DEF NodeEnds
<1>5. CASE rest # {}
  <2>1. i \in rest /\ \A j \in rest : i <= j
    BY <1>3, <1>5, LeastIsLeast
  <2>2. PICK a : a = <<gc.sec, i>>
    OBVIOUS
  <2>3. a[1] = gc.sec /\ a[2] = i /\ i \in Nat
    BY <1>3, <2>1, <2>2
  <2>4. a \in LiveNodes /\ a[2] >= gc.pos
    BY <1>2, <2>1, <2>2, <2>3
  <2>5. ASSUME NEW b \in LiveNodes, b[1] = gc.sec /\ b[2] >= gc.pos
        PROVE  a[2] <= b[2]
    <3>1. b = <<gc.sec, b[2]>> /\ b[2] \in Nat
      BY <1>1, <2>5, LiveFacts, AddrsHold
    <3>2. QED BY <1>2, <2>1, <2>3, <2>5, <3>1
  <2>6. /\ pc' = "move" /\ flash' = Mark(flash, a, "PRE_DELETE")
        /\ gc' = [gc EXCEPT !.pos = a[2] + 1]
        /\ work' = [NoWork EXCEPT !.key = KeyOf(a), !.val = ValOf(a), !.old = a]
    <3>1. \A b : At(b).key = KeyOf(b) /\ At(b).val = ValOf(b)
      BY <1>1, Words DEF KeyOf, ValOf, KeyIn, ValIn
    <3>2. QED BY <1>5, <2>2, <3>1, Zenon DEF gc_node, SetStatus, Mark
  <2>7. QED BY <2>3, <2>4, <2>5, <2>6 DEF NodeMoves
<1>6. QED BY <1>4, <1>5

LEMMA GcNodeStep ==
    ASSUME EnvInv, gc_node
    PROVE  EnvInv'
<1>1. CASE NodeEnds
  BY <1>1, GcNodeEnds DEF NodeEnds
<1>2. ASSUME NEW a, NodeMoves(a) PROVE EnvInv'
  BY <1>2, GcNodeMoves DEF NodeMoves
<1>3. QED BY <1>1, <1>2, GcNodeCases

LEMMA CommitStep ==
    ASSUME EnvInv, commit
    PROVE  EnvInv'
<1>0. PICK l : l = Last
  OBVIOUS
<1>1. /\ pc = "commit"
      /\ pc' = IF work.old = NoAddr THEN "end_set" ELSE "delete"
      /\ request' = request /\ work' = work /\ gc' = gc
      /\ may' = may /\ cut' = cut /\ dropped' = dropped /\ failures' = failures
      /\ flash' = Mark(flash, l, "WRITE")
      /\ env_cache' = IF moving THEN [env_cache EXCEPT ![work.key] = l]
                      ELSE env_cache
      /\ last_is_complete_del' \in {last_is_complete_del, TRUE, FALSE}
  BY <1>0, Zenon DEF commit, SetStatus, Mark, ghosts
<1>2. /\ (moving' <=> moving) /\ (loading' <=> loading)
      /\ loading' \in BOOLEAN /\ gc_request' \in BOOLEAN
  BY TypeFacts, Zenon DEF EnvInv, Basic, commit, moving
<1>3. /\ flash \in Flash /\ l \in AddrsIn(flash)
      /\ NodeIn(flash, l).status = "PRE_WRITE"
      /\ NodeIn(flash, l).body = "whole"
      /\ KeyOf(l) = work.key /\ ValOf(l) = work.val
      /\ work.key \in Keys
  BY <1>0, <1>1, TypeFacts DEF EnvInv, Basic, Place, Setting, Copying
<1>4. /\ flash' \in Flash
      /\ AddrsIn(flash') = AddrsIn(flash)
      /\ SameSectors(flash, flash')
      /\ SameNodes(flash, flash')
      /\ NodeIn(flash', l).status = "WRITE"
      /\ WrittenIn(flash') = WrittenIn(flash) \union {l}
      /\ PreparedIn(flash') = PreparedIn(flash) \ {l}
  <2>1. "WRITE" \in Statuses
    BY DEF Statuses
  <2>2. QED BY <1>1, <1>3, <2>1, Marked
<1>5. /\ l \notin PreparedIn(flash) /\ l \notin WrittenIn(flash)
      /\ PreparedIn(flash') = PreparedIn(flash)
  BY <1>3, <1>4 DEF PreparedIn, WrittenIn
<1>6. \A a \in LiveNodes \union {l} :
         KeyIn(flash', a) = KeyOf(a) /\ ValIn(flash', a) = ValOf(a)
  BY <1>3, <1>4 DEF SameNodes, LiveNodes, WrittenIn, PreparedIn, KeyOf, ValOf
<1>7. work.old = NoAddr => ~moving
  BY <1>1, <1>3, AddrsHold DEF EnvInv, Basic, Old, Moves, Copying, PreparedIn
<1>8. TypeOK'
  <2>1. l \in Addresses
    BY <1>3, AddrsHold DEF Addresses, Sectors
  <2>2. env_cache' \in [Keys -> Addresses]
    BY <1>1, <2>1 DEF EnvInv, Basic, TypeOK
  <2>3. QED BY <1>1, <1>2, <1>4, <2>2 DEF EnvInv, Basic, TypeOK, Flash
<1>9. Basic'
  <2>1. Control'
    BY <1>1, <1>2, <1>7 DEF EnvInv, Basic, Control, moving
  <2>2. Headers'
    BY <1>1, <1>2, <1>4
       DEF EnvInv, Basic, Headers, Collecting, Moves, Copying, SameSectors
  <2>3. Place'
    BY <1>1, <1>2, <1>4 DEF EnvInv, Basic, Place, Moves, Setting, Copying
  <2>4. Old'
    BY <1>1, <1>2, <1>3, <1>4, <1>5, AddrsHold
       DEF EnvInv, Basic, Old, Moves, Setting, Copying, SameNodes, KeyOf, ValOf,
           PreparedIn
  <2>5. QED BY <1>8, <2>1, <2>2, <2>3, <2>4 DEF Basic
<1>10. Values'
  <2>1. work.key \notin Lost => work.val \in may[work.key]
    BY <1>1, <1>3
       DEF EnvInv, Data, Values, Basic, Control, Place, Old, LiveNodes, Moves,
           Setting, Copying
  <2>2. QED BY <1>1, <1>3, <1>4, <1>5, <1>6, <2>1
        DEF EnvInv, Data, Values, LiveNodes, Lost, KeyOf, ValOf
<1>11. \A a \in Written : work.key \notin Lost \/ loading => KeyOf(a) # work.key
  BY <1>1 DEF EnvInv, Data, NoneWritten, Copying
<1>12. OneWritten'
  BY <1>1, <1>3, <1>4, <1>6, <1>11
     DEF EnvInv, Data, OneWritten, Written, LiveNodes, Lost, KeyOf
<1>13. OnePrepared'
  BY <1>1, <1>2, <1>3, <1>5, <1>6, AddrsHold
     DEF EnvInv, Data, OnePrepared, PreparedIn, LiveNodes, Lost, KeyOf, Copying
<1>14. NoneWritten' /\ SomeWritten' /\ Done'
  BY <1>1, <1>2, <1>3, <1>4, <1>6, <1>11
     DEF NoneWritten, SomeWritten, Done, Written, LiveNodes, Lost, KeyOf, ValOf,
         Copying
<1>15. Passed'
  BY <1>0, <1>1, <1>3, <1>4 
     DEF EnvInv, Data, Passed, Basic, Place, Collecting, Written, Moves,
         Copying, Last
<1>16. Kept'
  <2>1. SUFFICES ASSUME NEW k \in Keys \ Lost, Absent \notin may[k]
                 PROVE  \E a \in LiveNodes' : KeyOf(a)' = k /\ Safe(a)'
    BY <1>1 DEF Kept, Lost
  <2>2. PICK a \in LiveNodes : KeyOf(a) = k /\ Safe(a)
    BY <2>1 DEF EnvInv, Data, Kept
  <2>3. CASE Collecting' /\ a = work.old
    <3>1. k = work.key
      BY <1>1, <2>2, <2>3
         DEF EnvInv, Basic, Old, Collecting, Moves, moving, Copying
    <3>2. l \in LiveNodes' /\ KeyOf(l)' = k
      BY <1>3, <1>4, <1>6, <3>1 DEF LiveNodes, KeyOf
    <3>3. Safe(l)'
      BY <1>0, <1>1, <2>3
         DEF Safe, EnvInv, Basic, Place, Collecting, Moves, Copying, Last
    <3>4. QED BY <3>2, <3>3 DEF Safe
  <2>4. CASE ~(Collecting' /\ a = work.old)
    <3>1. a \in LiveNodes' /\ KeyOf(a)' = k
      BY <1>4, <1>5, <1>6, <2>2 DEF LiveNodes, KeyOf
    <3>2. Safe(a)'
      BY <1>1, <2>2, <2>4 DEF Safe, Collecting, Moves, Copying
    <3>3. QED BY <3>1, <3>2 DEF Safe
  <2>5. QED BY <2>3, <2>4
<1>17. Cached'
  <2>1. SUFFICES ASSUME NEW k \in Keys \ dropped
                 PROVE  CachedAt(k, env_cache[k])'
    BY <1>1 DEF Cached
  <2>2. CachedAt(k, env_cache[k])
    BY DEF EnvInv, Data, Cached
  <2>3. CASE k = work.key
    <3>1. CASE moving
      <4>1. env_cache'[k] = l
        BY <1>1, <1>3, <2>3, <3>1 DEF EnvInv, Basic, TypeOK
      <4>2. l \in Written' /\ KeyOf(l)' = k
        BY <1>3, <1>4, <1>6, <2>3 DEF Written, KeyOf
      <4>3. loading => \A b \in Written' : KeyOf(b)' = k => b = l
        BY <1>3, <1>4, <1>6, <1>11, <2>3 DEF Written, KeyOf, LiveNodes
      <4>4. QED BY <1>2, <4>1, <4>2, <4>3 DEF CachedAt
    <3>2. CASE ~moving
      <4>1. env_cache' = env_cache /\ ~loading'
        BY <1>1, <1>2, <3>2 DEF moving
      <4>2. \/ env_cache[k] = NoAddr \/ env_cache[k] = l
            \/ env_cache[k] \in Written /\ KeyOf(env_cache[k]) = k
        BY <1>0, <1>1, <2>2, <3>2 DEF CachedAt
      <4>3. \/ env_cache[k] = NoAddr
            \/ env_cache[k] \in Written' /\ KeyOf(env_cache[k])' = k
        BY <1>1, <1>3, <1>4, <1>6, <2>3, <4>1, <4>2
           DEF Written, KeyOf, LiveNodes
      <4>4. QED BY <4>1, <4>3 DEF CachedAt
    <3>3. QED BY <3>1, <3>2
  <2>4. CASE k # work.key
    <3>1. env_cache'[k] = env_cache[k]
      BY <1>1, <2>4 DEF EnvInv, Basic, TypeOK
    <3>2. \/ env_cache[k] = NoAddr
          \/ /\ env_cache[k] \in Written /\ KeyOf(env_cache[k]) = k
             /\ loading => \A b \in Written : KeyOf(b) = k => b = env_cache[k]
      BY <2>2, <2>4 DEF CachedAt
    <3>3. QED BY <1>2, <1>3, <1>4, <1>6, <2>4, <3>1, <3>2
          DEF CachedAt, Written, KeyOf, LiveNodes
  <2>5. QED BY <2>3, <2>4
<1>18. CacheIsOff'
  BY <1>1 DEF CacheIsOff
<1>19. QED BY <1>9, <1>10, <1>12, <1>13, <1>14, <1>15, <1>16, <1>17, <1>18
       DEF EnvInv, Data

\* The collection takes no live node that must be there with the sector.
LEMMA EraseStep ==
    ASSUME EnvInv, erase
    PROVE  EnvInv'
<1>1. /\ pc = "erase" /\ pc' = "format"
      /\ flash' = Wipe(flash, gc.sec, Erased)
      /\ request' = request /\ work' = work /\ gc' = gc
      /\ env_cache' = env_cache
      /\ may' = may /\ cut' = cut /\ dropped' = dropped /\ failures' = failures
      /\ last_is_complete_del' \in {last_is_complete_del, TRUE, FALSE}
  BY DEF erase, Wipe, ghosts
<1>2. /\ loading' <=> loading
      /\ loading' \in BOOLEAN /\ gc_request' \in BOOLEAN
  BY TypeFacts, Zenon DEF EnvInv, Basic, erase
<1>3. flash \in Flash /\ gc.sec \in Sectors /\ Collecting
  BY <1>1, TypeFacts DEF EnvInv, Basic, Control, Collecting, Sectors
<1>4. PICK t : t = gc.sec
  OBVIOUS
<1>5. /\ flash' \in Flash
      /\ Len(Erased.nodes) = 0
      /\ SetTo(flash, t, Erased, flash')
      /\ SameNodes(flash, flash')
      /\ NodesGone(flash, t, flash')
  BY <1>1, <1>3, <1>4, Wiped
<1>6. /\ Written' = Written
      /\ LiveNodes' = {a \in LiveNodes : a[1] # t}
      /\ LiveNodes' \subseteq LiveNodes /\ Written \subseteq LiveNodes'
      /\ PreparedIn(flash') \subseteq PreparedIn(flash) \cap LiveNodes'
  BY <1>1, <1>3, <1>4, <1>5
     DEF EnvInv, Data, Passed, Written, LiveNodes, NodesGone
<1>7. \A a \in LiveNodes' :
         KeyIn(flash', a) = KeyOf(a) /\ ValIn(flash', a) = ValOf(a)
  <2>1. LiveNodes' \subseteq AddrsIn(flash) \cap AddrsIn(flash')
    BY <1>3, <1>5, <1>6, LiveFacts DEF LiveNodes, WrittenIn, PreparedIn
  <2>2. QED BY <1>5, <2>1 DEF SameNodes, KeyOf, ValOf
<1>8. TypeOK'
  BY <1>1, <1>2, <1>5 DEF EnvInv, Basic, TypeOK, Flash
<1>9. Control'
  BY <1>1, <1>2 DEF EnvInv, Basic, Control
<1>10. Headers'
  BY <1>1, <1>3, <1>4, <1>5
     DEF EnvInv, Basic, Headers, Collecting, Moves, Copying, SetTo
<1>11. Place' /\ Old'
  BY <1>1, OutsideBasic DEF Outside
<1>12. Values' /\ OneWritten' /\ OnePrepared'
  BY <1>1, <1>2, <1>6, <1>7
     DEF EnvInv, Data, Values, OneWritten, OnePrepared, Lost, KeyOf, ValOf,
         Copying
<1>13. NoneWritten' /\ SomeWritten' /\ Done' /\ Passed' /\ CacheIsOff'
  BY <1>1 DEF NoneWritten, SomeWritten, Done, Passed, CacheIsOff, Collecting,
              Moves, Copying
<1>14. Kept'
  <2>1. SUFFICES ASSUME NEW k \in Keys \ Lost, Absent \notin may[k]
                 PROVE  \E a \in LiveNodes' : KeyIn(flash', a) = k
    BY <1>1 DEF Kept, Lost, Safe, KeyOf, Collecting, Moves, Copying
  <2>2. PICK a \in LiveNodes : KeyOf(a) = k /\ Safe(a)
    BY <2>1 DEF EnvInv, Data, Kept
  <2>3. a[1] # t
    BY <1>1, <1>3, <1>4, <2>2 DEF Safe, Moves, Copying
  <2>4. QED BY <1>6, <1>7, <2>2, <2>3
<1>15. Cached'
  BY <1>1, <1>2, <1>6, <1>7
     DEF EnvInv, Data, Cached, CachedAt, KeyOf, Copying
<1>16. QED BY <1>8, <1>9, <1>10, <1>11, <1>12, <1>13, <1>14, <1>15
       DEF EnvInv, Basic, Data

LEMMA FormatStep ==
    ASSUME EnvInv, format
    PROVE  EnvInv'
<1>1. /\ pc = "format" /\ pc' = "gc_sector"
      /\ flash' = Wipe(flash, gc.sec, Formatted)
      /\ gc' = [gc EXCEPT !.sec = gc.sec + 1]
      /\ request' = request /\ work' = work /\ env_cache' = env_cache
      /\ may' = may /\ cut' = cut /\ dropped' = dropped /\ failures' = failures
      /\ last_is_complete_del' \in {last_is_complete_del, TRUE, FALSE}
  BY DEF format, Wipe, ghosts
<1>2. /\ loading' <=> loading
      /\ loading' \in BOOLEAN /\ gc_request' \in BOOLEAN
  BY TypeFacts, Zenon DEF EnvInv, Basic, format
<1>3. PICK s : s = gc.sec
  OBVIOUS
<1>4. flash \in Flash /\ s \in Sectors /\ Len(flash[s].nodes) = 0
  BY <1>1, <1>3, TypeFacts DEF EnvInv, Basic, Control, Headers
<1>5. SameView(flash, flash')
  BY <1>1, <1>3, <1>4, NothingWiped
<1>6. /\ flash' \in Flash
      /\ SetTo(flash, s, Formatted, flash')
      /\ Len(Formatted.nodes) = 0
  BY <1>1, <1>3, <1>4, Wiped
<1>7. /\ gc'.sec = s + 1 /\ gc'.back = gc.back
      /\ gc' \in [sec: 0..NumSectors + 1, pos: 0..Cap + 1,
                  back: {"none", "new_env", "idle", "recover"}]
  <2>1. gc \in [sec: 0..NumSectors + 1, pos: 0..Cap + 1,
                back: {"none", "new_env", "idle", "recover"}]
    BY DEF EnvInv, Basic, TypeOK
  <2>2. s + 1 \in 0..NumSectors + 1
    BY <1>4, EnvAssumption DEF Sectors
  <2>3. QED BY <1>1, <1>3, <2>1, <2>2
<1>8. TypeOK'
  BY <1>1, <1>2, <1>6, <1>7 DEF EnvInv, Basic, TypeOK, Flash
<1>9. Control'
  BY <1>1, <1>2, <1>4, <1>7, EnvAssumption
     DEF EnvInv, Basic, Control, Sectors
<1>10. Headers'
  BY <1>1, <1>6 DEF EnvInv, Basic, Headers, Collecting, Moves, Copying, SetTo
<1>11. Place' /\ Old'
  BY <1>1, OutsideBasic DEF Outside
<1>12. Data'
  BY <1>1, <1>2, <1>5, <1>6, OutsideData DEF Outside
<1>13. QED BY <1>8, <1>9, <1>10, <1>11, <1>12 DEF EnvInv, Basic

LEMMA PowerFailsStep ==
    ASSUME EnvInv, PowerFails
    PROVE  EnvInv'
<1>1. /\ pc' = "off" /\ flash' = flash /\ request' = NoRequest /\ work' = NoWork
      /\ gc' = NoGC /\ env_cache' = [k \in Keys |-> NoAddr]
      /\ failures < MaxFailures /\ failures' = failures + 1
      /\ may' = may /\ cut' = cut /\ dropped' = dropped
      /\ last_is_complete_del' \in {last_is_complete_del, TRUE, FALSE}
  BY DEF PowerFails
<1>2. ~loading' /\ loading' \in BOOLEAN /\ gc_request' \in BOOLEAN
  BY Zenon DEF PowerFails
<1>3. /\ flash \in Flash /\ gc'.sec = 0 /\ gc'.back = "none"
      /\ request'.key \notin Keys
  BY <1>1, TypeFacts, EnvAssumption DEF EnvInv, Basic, NoGC, NoRequest
<1>4. TypeOK'
  <2>1. NoAddr \in Addresses
    BY EnvAssumption DEF NoAddr, Addresses
  <2>2. work' \in [key: Keys \union {Absent}, val: Vals \union {Absent},
                   sec: 0..NumSectors, full: BOOLEAN, old: Addresses]
    BY <1>1, <2>1, EnvAssumption DEF NoWork
  <2>3. gc' \in [sec: 0..NumSectors + 1, pos: 0..Cap + 1,
                 back: {"none", "new_env", "idle", "recover"}]
    BY <1>1, EnvAssumption DEF NoGC
  <2>4. request' \in [key: Keys \union {Absent}, val: Vals \union {Absent},
                      collected: BOOLEAN]
    BY <1>1 DEF NoRequest
  <2>5. env_cache' \in [Keys -> Addresses]
    BY <1>1, <2>1
  <2>6. failures' \in 0..MaxFailures
    BY <1>1, EnvAssumption DEF EnvInv, Basic, TypeOK
  <2>7. QED BY <1>1, <1>2, <2>2, <2>3, <2>4, <2>5, <2>6
        DEF EnvInv, Basic, TypeOK
<1>5. Control'
  BY <1>1, <1>2, <1>3 DEF Control
<1>6. Headers' /\ Place' /\ Old'
  BY <1>1, <1>3, OutsideBasic DEF EnvInv, Basic, Headers, Collecting
<1>7. Values' /\ OneWritten'
  BY <1>1 DEF EnvInv, Data, Values, OneWritten, Lost, LiveNodes, Written,
              KeyOf, ValOf
<1>8. /\ OnePrepared' /\ NoneWritten' /\ SomeWritten' /\ Done' /\ Passed'
      /\ CacheIsOff'
  BY <1>1, <1>2, <1>3
     DEF OnePrepared, NoneWritten, SomeWritten, Done, Passed, Collecting,
         CacheIsOff, Copying
<1>9. Kept'
  BY <1>1, <1>3
     DEF EnvInv, Data, Kept, Safe, Collecting, Lost, LiveNodes, KeyOf
<1>10. Cached'
  BY <1>1 DEF Cached, CachedAt
<1>11. QED BY <1>4, <1>5, <1>6, <1>7, <1>8, <1>9, <1>10
       DEF EnvInv, Basic, Data

LEMMA LoadStep ==
    ASSUME EnvInv, ef_load_env
    PROVE  EnvInv'
<1>1. /\ pc = "off" /\ pc' = "headers" /\ flash' = flash /\ work' = work
      /\ gc' = gc /\ request' = request /\ env_cache' = env_cache
      /\ may' = may /\ cut' = cut /\ dropped' = dropped /\ failures' = failures
      /\ last_is_complete_del' \in {last_is_complete_del, TRUE, FALSE}
  BY DEF ef_load_env, ghosts
<1>2. loading' /\ loading' \in BOOLEAN /\ gc_request' \in BOOLEAN
  BY TypeFacts, Zenon DEF EnvInv, Basic, ef_load_env
<1>3. flash \in Flash /\ gc.sec = 0
  BY <1>1, TypeFacts DEF EnvInv, Basic, Control
<1>4. TypeOK'
  BY <1>1, <1>2 DEF EnvInv, Basic, TypeOK
<1>5. Control'
  BY <1>1, <1>2 DEF EnvInv, Basic, Control
<1>6. Headers' /\ Place' /\ Old'
  BY <1>1, <1>3, OutsideBasic DEF EnvInv, Basic, Headers, Collecting, Outside
<1>7. Values' /\ OneWritten'
  BY <1>1 DEF EnvInv, Data, Values, OneWritten, Lost, LiveNodes, Written,
              KeyOf, ValOf
<1>8. /\ OnePrepared' /\ NoneWritten' /\ SomeWritten' /\ Done' /\ Passed'
      /\ CacheIsOff'
  BY <1>1, <1>2, <1>3
     DEF OnePrepared, NoneWritten, SomeWritten, Done, Passed, Collecting,
         CacheIsOff, Copying
<1>9. Kept'
  BY <1>1, <1>3
     DEF EnvInv, Data, Kept, Safe, Collecting, Lost, LiveNodes, KeyOf
<1>10. Cached'
  BY <1>1 DEF EnvInv, Data, CacheIsOff, Cached, CachedAt
<1>11. QED BY <1>4, <1>5, <1>6, <1>7, <1>8, <1>9, <1>10
       DEF EnvInv, Basic, Data

LEMMA CheckHeadersStep ==
    ASSUME EnvInv, check_headers
    PROVE  EnvInv'
<1> DEFINE bad == {s \in Sectors : ~flash[s].ok}
<1>1. /\ pc = "headers" /\ work' = work /\ env_cache' = env_cache
      /\ request' = request /\ may' = may /\ cut' = cut /\ dropped' = dropped
      /\ failures' = failures
      /\ last_is_complete_del' \in {last_is_complete_del, TRUE, FALSE}
  BY DEF check_headers, ghosts
<1>2. /\ loading /\ (loading' <=> loading)
      /\ loading' \in BOOLEAN /\ gc_request' \in BOOLEAN
  BY <1>1, TypeFacts, Zenon DEF EnvInv, Basic, check_headers, Control
<1>3. flash \in Flash /\ gc.sec = 0
  BY <1>1, TypeFacts DEF EnvInv, Basic, Control
<1>4. \/ /\ bad # {} /\ flash' = Wipe(flash, Least(bad), Formatted)
         /\ pc' = "headers" /\ gc' = gc
      \/ flash' = flash /\ pc' = "gc" /\ gc' = [NoGC EXCEPT !.back = "recover"]
      \/ flash' = flash /\ pc' = "recover" /\ gc' = gc
  BY <1>1, Zenon DEF check_headers, Wipe
<1>5. /\ flash' \in Flash /\ SameView(flash, flash')
      /\ \A s \in Sectors : ~flash'[s].ok => Len(flash'[s].nodes) = 0
  <2>1. CASE bad # {} /\ flash' = Wipe(flash, Least(bad), Formatted)
    <3>1. PICK s : s = Least(bad)
      OBVIOUS
    <3>2. bad \subseteq Nat
      BY DEF Sectors
    <3>3. s \in Sectors /\ Len(flash[s].nodes) = 0
      BY <2>1, <3>1, <3>2, LeastIsLeast DEF EnvInv, Basic, Headers
    <3>4. SameView(flash, flash')
      BY <1>3, <2>1, <3>1, <3>3, NothingWiped
    <3>5. /\ flash' \in Flash /\ Len(Formatted.nodes) = 0
          /\ SetTo(flash, s, Formatted, flash')
      BY <1>3, <2>1, <3>1, <3>3, Wiped
    <3>6. QED BY <3>4, <3>5 DEF EnvInv, Basic, Headers, SetTo
  <2>2. CASE flash' = flash
    BY <1>3, <2>2 DEF EnvInv, Basic, Headers, SameView, SameNodes
  <2>3. QED BY <1>4, <2>1, <2>2
<1>6. /\ gc' \in [sec: 0..NumSectors + 1, pos: 0..Cap + 1,
                  back: {"none", "new_env", "idle", "recover"}]
      /\ gc'.sec = 0 /\ pc' \in {"headers", "gc", "recover"}
      /\ pc' = "gc" => gc'.back = "recover"
  BY <1>3, <1>4, EnvAssumption DEF EnvInv, Basic, TypeOK, NoGC
<1>7. TypeOK'
  BY <1>1, <1>2, <1>5, <1>6 DEF EnvInv, Basic, TypeOK, Flash
<1>8. Control'
  BY <1>1, <1>2, <1>6 DEF EnvInv, Basic, Control
<1>9. Headers' /\ Place' /\ Old'
  BY <1>5, <1>6, OutsideBasic DEF Headers, Collecting, Outside
<1>10. Data'
  BY <1>1, <1>2, <1>5, <1>6, OutsideData DEF Outside
<1>11. QED BY <1>7, <1>8, <1>9, <1>10 DEF EnvInv, Basic

\* What the end of the search means for the node to move.
LEMMA CopiedTells ==
    ASSUME EnvInv, pc = "move"
    PROVE  /\ ~is_copied => loading /\ \E b \in Written : KeyOf(b) = work.key
           /\ is_copied /\ loading => \A b \in Written : KeyOf(b) # work.key
<1>1. PICK k : k = work.key
  OBVIOUS
<1>2. flash \in Flash
  BY TypeFacts DEF EnvInv, Basic
<1>3. \/ /\ find_env_no_cache(k) = NoAddr
         /\ \A a \in Written : KeyOf(a) # k
      \/ /\ find_env_no_cache(k) \in Written
         /\ KeyOf(find_env_no_cache(k)) = k
  BY <1>2, SearchTells
<1>4. NoAddr \notin Written
  BY <1>2, LiveFacts, AddrsHold
<1>5. is_copied <=> ~loading \/ find_env_no_cache(k) = NoAddr
  BY <1>1 DEF is_copied
<1>6. QED BY <1>1, <1>3, <1>4, <1>5

LEMMA MoveEnvStep ==
    ASSUME EnvInv, move_env
    PROVE  EnvInv'
<1>1. /\ pc = "move" /\ flash' = flash /\ request' = request /\ gc' = gc
      /\ env_cache' = env_cache /\ may' = may /\ cut' = cut
      /\ failures' = failures
      /\ last_is_complete_del' \in {last_is_complete_del, TRUE, FALSE}
  BY DEF move_env
<1>2. /\ loading' <=> loading
      /\ loading' \in BOOLEAN /\ gc_request' \in BOOLEAN
  <2>1. loading' = loading /\ gc_request' = alloc_env.request
    BY DEF move_env
  <2>2. alloc_env.request \in BOOLEAN
    BY AllocFacts, TypeFacts DEF EnvInv, Basic
  <2>3. QED BY <2>1, <2>2, TypeFacts, Zenon DEF EnvInv, Basic
<1>3. PICK s : s = alloc_env.sec
  OBVIOUS
<1>4. s # 0 => /\ s \in Sectors /\ flash[s].ok
               /\ Len(flash[s].nodes) < Cap /\ flash[s].dirty # "GC"
  BY <1>3, AllocFacts, TypeFacts DEF EnvInv, Basic
<1>5. \/ /\ s = 0 /\ gc.sec # 0 /\ pc' = "gc_node" /\ work' = work
         /\ dropped' = dropped \union {work.key}
      \/ /\ s = 0 /\ gc.sec = 0 /\ pc' = "recovered" /\ work' = work
         /\ dropped' = dropped
      \/ /\ s # 0 /\ is_copied /\ pc' = "sector"
         /\ work' = [work EXCEPT !.sec = s] /\ dropped' = dropped
      \/ /\ s # 0 /\ ~is_copied /\ pc' = "delete" /\ work' = work
         /\ dropped' = dropped
  BY <1>3, Zenon DEF move_env
<1>6. /\ flash \in Flash /\ moving /\ (moving' <=> moving)
      /\ work.key \in Keys /\ work.val \in Vals
      /\ work.old \in PreparedIn(flash) /\ KeyOf(work.old) = work.key
      /\ ValOf(work.old) = work.val
      /\ gc.sec # 0 => work.old = <<gc.sec, gc.pos - 1>>
  BY <1>1, <1>2, TypeFacts
     DEF EnvInv, Basic, Control, Place, Old, Moves, moving
<1>7. /\ ~is_copied => loading /\ \E b \in Written : KeyOf(b) = work.key
      /\ is_copied /\ loading => \A b \in Written : KeyOf(b) # work.key
  BY <1>1, CopiedTells
<1>8. /\ Written' = Written /\ PreparedIn(flash') = PreparedIn(flash)
      /\ LiveNodes' = LiveNodes
      /\ \A a : KeyIn(flash', a) = KeyOf(a) /\ ValIn(flash', a) = ValOf(a)
  BY <1>1 DEF Written, LiveNodes, KeyOf, ValOf
<1>9. /\ work'.key = work.key /\ work'.val = work.val /\ work'.old = work.old
      /\ pc' = "sector" => work'.sec = s
      /\ work' \in [key: Keys \union {Absent}, val: Vals \union {Absent},
                    sec: 0..NumSectors, full: BOOLEAN, old: Addresses]
  BY <1>4, <1>5 DEF EnvInv, Basic, TypeOK, Sectors
<1>10. /\ dropped \subseteq dropped' /\ dropped' \subseteq Keys
       /\ Lost \subseteq Lost'
  BY <1>1, <1>5, <1>6 DEF EnvInv, Basic, TypeOK, Lost
<1>11. /\ pc' \in {"gc_node", "recovered", "sector", "delete"}
       /\ pc' = "gc_node" => gc.sec # 0
       /\ pc' = "recovered" => gc.sec = 0
       /\ Collecting' <=> Collecting
  BY <1>1, <1>5 DEF Collecting, Moves, Copying
<1>12. TypeOK'
  BY <1>1, <1>2, <1>9, <1>10, <1>11 DEF EnvInv, Basic, TypeOK
<1>13. Control'
  <2>1. gc.sec # 0 => gc.sec \in Sectors /\ gc.pos >= 1
    BY <1>1, <1>6, AddrsHold
       DEF EnvInv, Basic, TypeOK, Headers, Collecting, Moves, PreparedIn
  <2>2. QED BY <1>1, <1>2, <1>6, <1>11, <2>1
        DEF EnvInv, Basic, Control, moving
<1>14. Headers'
  BY <1>1, <1>11 DEF EnvInv, Basic, Headers
<1>15. Place'
  <2>1. gc.sec # 0 /\ s # 0 => s # gc.sec
    BY <1>1, <1>4 DEF EnvInv, Basic, Headers, Collecting, Moves
  <2>2. QED BY <1>1, <1>4, <1>5, <1>6, <1>9, <2>1
        DEF Place, Moves, Setting, Copying
<1>16. Old'
  BY <1>1, <1>6, <1>8, <1>9, <1>11
     DEF Old, Moves, Setting, Copying, PreparedIn, KeyOf, ValOf
<1>17. Values' /\ OneWritten'
  BY <1>1, <1>8, <1>10 DEF EnvInv, Data, Values, OneWritten, KeyOf, ValOf
<1>18. OnePrepared'
  <2>1. SUFFICES ASSUME ~loading, NEW a \in PreparedIn(flash),
                        KeyOf(a) \notin Lost'
                 PROVE  a = work.old /\ pc' \in {"delete", "sector"}
    BY <1>2, <1>8, <1>9 DEF OnePrepared, KeyOf, Copying
  <2>2. a = work.old
    BY <1>1, <1>10, <2>1 DEF EnvInv, Data, OnePrepared
  <2>3. work.key \notin dropped'
    BY <1>6, <2>1, <2>2 DEF Lost
  <2>4. gc.sec # 0 /\ is_copied
    BY <1>6, <1>7, <2>1 DEF moving
  <2>5. QED BY <1>5, <2>2, <2>3, <2>4
<1>19. NoneWritten'
  BY <1>1, <1>2, <1>5, <1>7, <1>8, <1>9, <1>10
     DEF EnvInv, Data, NoneWritten, KeyOf, Copying
<1>20. SomeWritten' /\ Done' /\ CacheIsOff'
  BY <1>5, <1>6, <1>7, <1>8, <1>9 DEF SomeWritten, Done, CacheIsOff, KeyOf
<1>21. Passed'
  BY <1>1, <1>8, <1>11 DEF EnvInv, Data, Passed
<1>22. Kept'
  <2>1. SUFFICES ASSUME NEW k \in Keys \ Lost', Absent \notin may[k]
                 PROVE  \E a \in LiveNodes : KeyOf(a) = k /\ Safe(a)'
    BY <1>1, <1>8 DEF Kept, KeyOf
  <2>2. PICK a \in LiveNodes : KeyOf(a) = k /\ Safe(a)
    BY <1>10, <2>1 DEF EnvInv, Data, Kept
  <2>3. CASE pc' = "sector" \/ ~Collecting
    <3>1. Safe(a)'
      BY <1>1, <1>9, <1>11, <2>2, <2>3 DEF Safe, Moves, Copying
    <3>2. QED BY <2>2, <3>1
  <2>4. CASE pc' # "sector" /\ Collecting /\ a # work.old
    <3>1. Safe(a)'
      BY <1>1, <1>11, <2>2, <2>4 DEF Safe
    <3>2. QED BY <2>2, <3>1
  <2>5. CASE pc' # "sector" /\ Collecting /\ a = work.old
    <3>1. ~is_copied
      BY <1>5, <1>6, <2>1, <2>2, <2>5 DEF Lost, Collecting
    <3>2. PICK b \in Written : KeyOf(b) = k
      BY <1>6, <1>7, <2>2, <2>5, <3>1
    <3>3. b[1] # gc.sec \/ b[2] >= gc.pos
      BY <2>5, <3>2 DEF EnvInv, Data, Passed
    <3>4. Safe(b)'
      BY <1>1, <1>11, <3>3 DEF Safe
    <3>5. QED BY <3>2, <3>4 DEF LiveNodes, Written
  <2>6. QED BY <2>3, <2>4, <2>5
<1>23. Cached'
  <2>1. SUFFICES ASSUME NEW k \in Keys \ dropped'
                 PROVE  CachedAt(k, env_cache[k])'
    BY DEF Cached
  <2>2. PICK c : c = env_cache[k]
    OBVIOUS
  <2>3. \/ c = NoAddr
        \/ /\ c \in Written /\ KeyOf(c) = k
           /\ loading => \A b \in Written : KeyOf(b) = k => b = c
        \/ /\ c \in PreparedIn(flash) /\ c = work.old /\ work.key = k
           /\ gc.sec # 0
           /\ loading => \A b \in Written : KeyOf(b) # k
    BY <1>1, <1>6, <1>10, <2>1, <2>2 DEF EnvInv, Data, Cached, CachedAt
  <2>4. CASE c \in PreparedIn(flash) /\ c = work.old /\ work.key = k
               /\ gc.sec # 0 /\ (loading => \A b \in Written : KeyOf(b) # k)
    <3>1. is_copied
      BY <1>7, <2>4
    <3>2. pc' = "sector"
      BY <1>5, <2>1, <2>4, <3>1
    <3>3. QED BY <1>1, <1>2, <1>6, <1>8, <1>9, <2>2, <2>4, <3>2
          DEF CachedAt, KeyOf, Copying
  <2>5. CASE \/ c = NoAddr
             \/ /\ c \in Written /\ KeyOf(c) = k
                /\ loading => \A b \in Written : KeyOf(b) = k => b = c
    BY <1>1, <1>2, <1>8, <2>2, <2>5 DEF CachedAt, KeyOf
  <2>6. QED BY <2>3, <2>4, <2>5
<1>24. QED
  BY <1>12, <1>13, <1>14, <1>15, <1>16, <1>17, <1>18, <1>19, <1>20, <1>21,
     <1>22,
     <1>23 DEF EnvInv, Basic, Data

LEMMA RecoverStep ==
    ASSUME EnvInv, recover
    PROVE  EnvInv'
<1> DEFINE pending == Prepared \union {a \in Addrs : At(a).status = "PRE_WRITE"}
<1>1. /\ pc = "recover" /\ gc' = gc /\ env_cache' = env_cache
      /\ request' = request /\ may' = may /\ cut' = cut /\ dropped' = dropped
      /\ failures' = failures
      /\ last_is_complete_del' \in {last_is_complete_del, TRUE, FALSE}
  BY DEF recover, ghosts
<1>2. /\ loading /\ (loading' <=> loading)
      /\ loading' \in BOOLEAN /\ gc_request' \in BOOLEAN
  BY <1>1, TypeFacts, Zenon DEF EnvInv, Basic, recover, Control
<1>3. flash \in Flash /\ gc.sec = 0
  BY <1>1, TypeFacts DEF EnvInv, Basic, Control
<1>4. PICK a : a = FirstAddr(pending)
  OBVIOUS
<1>5. pending # {} => /\ a \in AddrsIn(flash)
                      /\ \/ a \in PreparedIn(flash)
                         \/ NodeIn(flash, a).status = "PRE_WRITE"
  <2>1. /\ pending = PreparedIn(flash) \union
              {b \in AddrsIn(flash) : NodeIn(flash, b).status = "PRE_WRITE"}
        /\ PreparedIn(flash) \subseteq AddrsIn(flash)
        /\ AddrsIn(flash) \subseteq Sectors \X (1..Cap)
    BY <1>3, Words, AddrsHold, LiveFacts
  <2> HIDE DEF pending
  <2>2. pending \subseteq Nat \X Nat
    BY <2>1, EnvAssumption DEF Sectors
  <2>3. pending # {} => a \in pending
    BY <1>4, <2>2, FirstIsOne
  <2>4. QED BY <2>1, <2>3
<1>6. \/ flash' = flash /\ work' = work /\ pc' = "recovered"
      \/ /\ pending # {} /\ NodeIn(flash, a).status = "PRE_DELETE"
         /\ flash' = flash /\ pc' = "move"
         /\ work' = [NoWork EXCEPT !.key = KeyOf(a), !.val = ValOf(a),
                                   !.old = a]
      \/ /\ pending # {} /\ NodeIn(flash, a).status # "PRE_DELETE"
         /\ flash' = Mark(flash, a, "ERR_HDR") /\ work' = work
         /\ pc' \in {"recover", "recovered"}
  <2>1. /\ At(a).key = KeyOf(a) /\ At(a).val = ValOf(a)
        /\ At(a).status = NodeIn(flash, a).status
    BY <1>3, Words DEF KeyOf, ValOf, KeyIn, ValIn
  <2>2. QED BY <1>4, <2>1, Zenon DEF recover, SetStatus, Mark
<1>7. CASE work' = work /\ pc' \in {"recover", "recovered"}
  <2>1. /\ flash' \in Flash /\ SameView(flash, flash')
        /\ SameSectors(flash, flash')
    <3>1. CASE flash' = flash
      BY <1>3, <3>1 DEF SameView, SameNodes, SameSectors
    <3>2. CASE flash' = Mark(flash, a, "ERR_HDR") /\ pending # {}
                 /\ NodeIn(flash, a).status # "PRE_DELETE"
      <4>1. /\ "ERR_HDR" \in Statuses /\ a \in AddrsIn(flash)
            /\ NodeIn(flash, a).status = "PRE_WRITE"
        BY <1>5, <3>2 DEF Statuses, PreparedIn
      <4>2. a \notin WrittenIn(flash) /\ a \notin PreparedIn(flash)
        BY <4>1 DEF WrittenIn, PreparedIn
      <4>3. /\ flash' \in Flash /\ SameSectors(flash, flash')
            /\ SameNodes(flash, flash')
            /\ WrittenIn(flash') = WrittenIn(flash) \ {a}
            /\ PreparedIn(flash') = PreparedIn(flash) \ {a}
        BY <1>3, <3>2, <4>1, Marked
      <4>4. QED BY <4>2, <4>3 DEF SameView
    <3>3. QED BY <1>6, <1>7, <3>1, <3>2
  <2>2. TypeOK'
    <3>1. TypeOK
      BY DEF EnvInv, Basic
    <3>2. last_is_complete_del' \in BOOLEAN
      BY <1>1, <3>1, TypeFacts
    <3>3. /\ work' \in [key: Keys \union {Absent}, val: Vals \union {Absent},
                       sec: 0..NumSectors, full: BOOLEAN, old: Addresses]
          /\ gc' \in [sec: 0..NumSectors + 1, pos: 0..Cap + 1,
                     back: {"none", "new_env", "idle", "recover"}]
      BY <1>1, <1>7, <3>1, Zenon DEF TypeOK
    <3>4. QED BY <1>1, <1>2, <1>7, <2>1, <3>1, <3>2, <3>3, TypeStays
  <2>3. Control'
    BY <1>1, <1>2, <1>7 DEF EnvInv, Basic, Control
  <2>4. Headers' /\ Place' /\ Old'
    BY <1>1, <1>3, <1>7, <2>1, OutsideBasic
       DEF EnvInv, Basic, Headers, Collecting, Outside, SameSectors
  <2>5. Data'
    BY <1>1, <1>2, <1>7, <2>1, OutsideData DEF Outside
  <2>6. QED BY <2>2, <2>3, <2>4, <2>5 DEF EnvInv, Basic
<1>8. CASE /\ a \in PreparedIn(flash) /\ flash' = flash /\ pc' = "move"
           /\ work' = [NoWork EXCEPT !.key = KeyOf(a), !.val = ValOf(a),
                                     !.old = a]
  <2>1. KeyOf(a) \in Keys /\ ValOf(a) \in Vals /\ a \in Addresses
    BY <1>3, <1>8, LiveFacts, AddrsHold DEF Addresses, Sectors
  <2>2. /\ work'.key = KeyOf(a) /\ work'.val = ValOf(a) /\ work'.old = a
        /\ work' \in [key: Keys \union {Absent}, val: Vals \union {Absent},
                      sec: 0..NumSectors, full: BOOLEAN, old: Addresses]
    <3>1. /\ work' = MoveOf(KeyOf(a), ValOf(a), a)
          /\ work'.key = KeyOf(a) /\ work'.val = ValOf(a) /\ work'.old = a
      BY <1>8 DEF NoWork, MoveOf
    <3>2. MoveOf(KeyOf(a), ValOf(a), a) \in
              [key: Keys \union {Absent}, val: Vals \union {Absent},
               sec: 0..NumSectors, full: BOOLEAN, old: Addresses]
      BY <2>1, WorkTyped, Zenon
    <3>3. QED BY <3>1, <3>2
  <2>3. moving' /\ ~Collecting'
    BY <1>1, <1>2, <1>3 DEF moving, Collecting
  <2>4. TypeOK'
    BY <1>1, <1>2, <1>8, <2>2 DEF EnvInv, Basic, TypeOK
  <2>5. Control'
    BY <1>1, <1>2, <1>3, <1>8, <2>3 DEF EnvInv, Basic, Control
  <2>6. Headers' /\ Place' /\ Old'
    BY <1>1, <1>3, <1>8, <2>1, <2>2, <2>3
       DEF EnvInv, Basic, Headers, Place, Old, Moves, Setting, Copying, KeyOf,
           ValOf, PreparedIn
  <2>7. Values' /\ OneWritten'
    BY <1>1, <1>8
       DEF EnvInv, Data, Values, OneWritten, Lost, LiveNodes, Written, KeyOf,
           ValOf
  <2>8. /\ OnePrepared' /\ NoneWritten' /\ SomeWritten' /\ Done' /\ Passed'
         /\ CacheIsOff'
    BY <1>1, <1>2, <1>8, <2>3
       DEF OnePrepared, NoneWritten, SomeWritten, Done, Passed, CacheIsOff,
           Copying
  <2>9. Kept'
    BY <1>1, <1>8, <2>3 DEF EnvInv, Data, Kept, Safe, Lost, LiveNodes, KeyOf
  <2>10. Cached'
    BY <1>1, <1>2, <1>8
       DEF EnvInv, Data, Cached, CachedAt, Written, KeyOf, Copying
  <2>11. QED BY <2>4, <2>5, <2>6, <2>7, <2>8, <2>9, <2>10
         DEF EnvInv, Basic, Data
<1>9. QED BY <1>5, <1>6, <1>7, <1>8

\* What a call of get_env returns when no node is being written.
LEMMA GetTells ==
    ASSUME EnvInv, NEW k \in Keys \ dropped,
           pc \in {"idle", "new_env", "recovered"}
    PROVE  \/ get_env(k) = Absent /\ \A a \in Written : KeyOf(a) # k
           \/ \E a \in Written : KeyOf(a) = k /\ get_env(k) = ValOf(a)
<1>1. flash \in Flash
  BY TypeFacts DEF EnvInv, Basic
<1>2. PICK c : c = find_env(k)
  OBVIOUS
<1>3. \/ c = NoAddr /\ \A a \in Written : KeyOf(a) # k
      \/ c \in Written /\ KeyOf(c) = k
  BY <1>1, <1>2, FindTells DEF EnvInv, Data, Cached
<1>4. NoAddr \notin Written /\ At(c).val = ValOf(c)
  BY <1>1, LiveFacts, AddrsHold, Words DEF ValOf, ValIn
<1>5. get_env(k) = IF c = NoAddr THEN Absent ELSE ValOf(c)
  BY <1>2, <1>4, Zenon DEF get_env
<1>6. QED BY <1>3, <1>4, <1>5

LEMMA RecoveredStep ==
    ASSUME EnvInv, recovered
    PROVE  EnvInv'
<1>1. /\ pc = "recovered" /\ flash' = flash /\ env_cache' = env_cache
      /\ work' = work /\ request' = request /\ dropped' = dropped
      /\ failures' = failures
      /\ last_is_complete_del' \in {last_is_complete_del, TRUE, FALSE}
  BY DEF recovered
<1>2. /\ loading /\ loading' \in BOOLEAN /\ gc_request' \in BOOLEAN
  BY <1>1, TypeFacts, Zenon DEF EnvInv, Basic, recovered, Control
<1>3. flash \in Flash /\ gc.sec = 0 /\ SameView(flash, flash')
  BY <1>1, TypeFacts DEF EnvInv, Basic, Control, SameView, SameNodes
<1>4. \/ /\ gc' = [NoGC EXCEPT !.back = "recover"] /\ pc' = "gc"
         /\ loading' /\ may' = may /\ cut' = cut
      \/ /\ ~loading' /\ pc' = "idle" /\ gc' = gc
         /\ may' = [k \in Keys |-> IF get_env(k) \in may[k]
                                   THEN {get_env(k)} ELSE may[k]]
         /\ cut' = cut \union {At(a).key : a \in Prepared}
  BY <1>2, Zenon DEF recovered
<1>5. /\ gc' \in [sec: 0..NumSectors + 1, pos: 0..Cap + 1,
                  back: {"none", "new_env", "idle", "recover"}]
      /\ gc'.sec = 0
      /\ pc' = "gc" => gc'.back = "recover"
  BY <1>3, <1>4, EnvAssumption DEF EnvInv, Basic, TypeOK, NoGC
<1>6. /\ Written \subseteq LiveNodes /\ PreparedIn(flash) \subseteq LiveNodes
      /\ \A a \in LiveNodes : KeyOf(a) \in Keys /\ ValOf(a) \in Vals
  BY <1>3, LiveFacts DEF LiveNodes, Written
<1>7. /\ Absent \notin Vals
      /\ \A k \in Keys : may[k] \subseteq Vals \union {Absent}
  BY EnvAssumption DEF EnvInv, Basic, TypeOK
<1>8. CASE pc' = "gc"
  <2>1. TypeOK'
    BY <1>1, <1>2, <1>4, <1>5, <1>8 DEF EnvInv, Basic, TypeOK
  <2>2. Control'
    BY <1>1, <1>2, <1>4, <1>5, <1>8 DEF EnvInv, Basic, Control
  <2>3. Headers' /\ Place' /\ Old'
    BY <1>1, <1>5, <1>8, OutsideBasic
       DEF EnvInv, Basic, Headers, Collecting, Outside
  <2>4. Data'
    BY <1>1, <1>2, <1>3, <1>4, <1>8, OutsideData DEF Outside
  <2>5. QED BY <2>1, <2>2, <2>3, <2>4 DEF EnvInv, Basic
<1>9. CASE pc' = "idle"
  <2>1. /\ ~loading' /\ gc' = gc
        /\ \A k \in Keys : may'[k] = IF get_env(k) \in may[k]
                                     THEN {get_env(k)} ELSE may[k]
        /\ may' \in [Keys -> SUBSET (Vals \union {Absent})]
    BY <1>4, <1>7, <1>9
  <2>2. cut' = cut \union {KeyOf(a) : a \in PreparedIn(flash)}
    BY <1>3, <1>4, <1>9, Words DEF KeyOf, KeyIn
  <2>3. /\ Lost \subseteq Lost' /\ cut' \subseteq Keys
        /\ \A a \in PreparedIn(flash) : KeyOf(a) \in Lost'
    BY <1>1, <1>6, <2>2 DEF EnvInv, Basic, TypeOK, Lost
  <2>4. TypeOK'
    BY <1>1, <1>2, <1>5, <1>9, <2>1, <2>3 DEF EnvInv, Basic, TypeOK
  <2>5. Control'
    BY <1>1, <1>2, <1>5, <1>9, <2>1 DEF EnvInv, Basic, Control
  <2>6. Headers' /\ Place' /\ Old'
    BY <1>1, <1>5, <1>9, OutsideBasic
       DEF EnvInv, Basic, Headers, Collecting, Outside
  <2>7. OneWritten' /\ OnePrepared'
    BY <1>1, <2>3
       DEF EnvInv, Data, OneWritten, OnePrepared, Written, KeyOf
  <2>8. Values'
    <3>1. SUFFICES ASSUME NEW a \in LiveNodes, KeyOf(a) \notin Lost'
                   PROVE  ValOf(a) \in may'[KeyOf(a)]
      BY <1>1 DEF Values, LiveNodes, KeyOf, ValOf
    <3>2. PICK k : k = KeyOf(a)
      OBVIOUS
    <3>3. a \in Written /\ k \in Keys /\ k \notin Lost /\ k \notin dropped
      BY <1>6, <2>3, <3>1, <3>2 DEF LiveNodes, Written, Lost
    <3>4. \E b \in Written : KeyOf(b) = k /\ get_env(k) = ValOf(b)
      BY <1>1, <3>2, <3>3, GetTells
    <3>5. get_env(k) = ValOf(a)
      BY <3>2, <3>3, <3>4 DEF EnvInv, Data, OneWritten
    <3>6. ValOf(a) \in may[k]
      BY <3>2, <3>3 DEF EnvInv, Data, Values, LiveNodes, Written
    <3>7. QED BY <2>1, <3>2, <3>3, <3>5, <3>6
  <2>9. /\ NoneWritten' /\ SomeWritten' /\ Done' /\ Passed' /\ CacheIsOff'
    BY <1>5, <1>9 DEF NoneWritten, SomeWritten, Done, Passed, CacheIsOff,
                      Collecting, Copying
  <2>10. Kept'
    <3>1. SUFFICES ASSUME NEW k \in Keys \ Lost', Absent \notin may'[k]
                   PROVE  \E a \in LiveNodes : KeyOf(a) = k
      BY <1>1, <1>5 DEF Kept, Safe, Collecting, LiveNodes, KeyOf
    <3>2. k \notin Lost /\ k \in Keys \ dropped
      BY <2>3, <3>1 DEF Lost
    <3>3. CASE get_env(k) \in may[k]
      <4>1. get_env(k) # Absent
        BY <2>1, <3>1, <3>3
      <4>2. \E a \in Written : KeyOf(a) = k
        BY <1>1, <3>2, <4>1, GetTells
      <4>3. QED BY <1>6, <4>2
    <3>4. CASE get_env(k) \notin may[k]
      BY <2>1, <3>1, <3>2, <3>4 DEF EnvInv, Data, Kept
    <3>5. QED BY <3>3, <3>4
  <2>11. Cached'
    BY <1>1, <1>2, <1>9
       DEF EnvInv, Data, Cached, CachedAt, Written, KeyOf, Copying
  <2>12. QED BY <2>4, <2>5, <2>6, <2>7, <2>8, <2>9, <2>10, <2>11
         DEF EnvInv, Basic, Data
<1>10. QED BY <1>4, <1>8, <1>9

-----------------------------------------------------------------------------
(* The invariant is inductive.                                             *)

LEMMA StutterKeeps ==
    ASSUME EnvInv, UNCHANGED vars
    PROVE  EnvInv'
<1>1. /\ flash' = flash /\ pc' = pc /\ request' = request /\ work' = work
      /\ gc' = gc /\ env_cache' = env_cache /\ may' = may /\ cut' = cut
      /\ dropped' = dropped /\ failures' = failures
  BY DEF vars
<1>2. (loading' <=> loading) /\ (gc_request' <=> gc_request)
      /\ loading' \in BOOLEAN /\ gc_request' \in BOOLEAN
      /\ last_is_complete_del' \in BOOLEAN
  BY TypeFacts, Zenon DEF vars, EnvInv, Basic
<1>3. /\ Written' = Written /\ LiveNodes' = LiveNodes /\ Last' = Last
      /\ \A a : KeyOf(a)' = KeyOf(a) /\ ValOf(a)' = ValOf(a)
  BY <1>1 DEF Written, LiveNodes, Last, KeyOf, ValOf
<1>4. (moving' <=> moving) /\ (Collecting' <=> Collecting) /\ Lost' = Lost
  BY <1>1, <1>2 DEF moving, Collecting, Lost
<1>5. \A a : Safe(a)' <=> Safe(a)
  BY <1>1, <1>4 DEF Safe
<1>6. TypeOK'
  BY <1>1, <1>2 DEF EnvInv, Basic, TypeOK
<1>7. Control' /\ Headers'
  BY <1>1, <1>2, <1>4 DEF EnvInv, Basic, Control, Headers
<1>8. Place' /\ Old'
  BY <1>1, <1>2, <1>3, <1>4 DEF EnvInv, Basic, Place, Old
<1>9. Values' /\ OneWritten' /\ OnePrepared' /\ NoneWritten'
  BY <1>1, <1>2, <1>3, <1>4
     DEF EnvInv, Data, Values, OneWritten, OnePrepared, NoneWritten
<1>10. SomeWritten' /\ Done' /\ Passed' /\ CacheIsOff'
  BY <1>1, <1>3, <1>4
     DEF EnvInv, Data, SomeWritten, Done, Passed, CacheIsOff
<1>11. Kept'
  BY <1>1, <1>3, <1>4, <1>5 DEF EnvInv, Data, Kept
<1>12. Cached'
  BY <1>1, <1>2, <1>3, <1>4 DEF EnvInv, Data, Cached, CachedAt
<1>13. QED BY <1>6, <1>7, <1>8, <1>9, <1>10, <1>11, <1>12
       DEF EnvInv, Basic, Data

LEMMA NextKeeps == EnvInv /\ [Next]_vars => EnvInv'
<1> SUFFICES ASSUME EnvInv, [Next]_vars PROVE EnvInv'
  OBVIOUS
<1>1. ASSUME NEW k \in Keys, Get(k) PROVE EnvInv'
  BY <1>1, GetStep
<1>2. ASSUME NEW k \in Keys, NEW v \in Vals, Set(k, v) PROVE EnvInv'
  BY <1>2, SetStep
<1>3. CASE new_env
  BY <1>3, NewEnvStep
<1>4. CASE prepare
  BY <1>4, PrepareStep
<1>5. CASE dirty
  BY <1>5, DirtyStep
<1>6. CASE update_sec_status
  BY <1>6, UpdateSecStatusStep
<1>7. CASE pre_write
  BY <1>7, PreWriteStep
<1>8. CASE write_header \/ write_value
  BY <1>8, BodyStep
<1>9. CASE commit
  BY <1>9, CommitStep
<1>10. CASE delete
  BY <1>10, DeleteStep
<1>11. CASE end_set
  BY <1>11, EndSetStep
<1>12. CASE gc_check
  BY <1>12, GcCheckStep
<1>13. CASE gc_sector
  BY <1>13, GcSectorStep
<1>14. CASE gc_node
  BY <1>14, GcNodeStep
<1>15. CASE move_env
  BY <1>15, MoveEnvStep
<1>16. CASE erase
  BY <1>16, EraseStep
<1>17. CASE format
  BY <1>17, FormatStep
<1>18. CASE ef_load_env
  BY <1>18, LoadStep
<1>19. CASE check_headers
  BY <1>19, CheckHeadersStep
<1>20. CASE recover
  BY <1>20, RecoverStep
<1>21. CASE recovered
  BY <1>21, RecoveredStep
<1>22. CASE PowerFails
  BY <1>22, PowerFailsStep
<1>23. CASE UNCHANGED vars
  BY <1>23, StutterKeeps
<1>24. QED
  BY <1>1, <1>2, <1>3, <1>4, <1>5, <1>6, <1>7, <1>8, <1>9, <1>10, <1>11, <1>12,
     <1>13, <1>14, <1>15, <1>16, <1>17, <1>18, <1>19, <1>20, <1>21, <1>22,
     <1>23,
     Zenon DEF Next, Step

LEMMA InvHolds == Spec => []EnvInv
  BY Start, NextKeeps, PTL DEF Spec

-----------------------------------------------------------------------------
(* The store the flash holds.                                              *)

WrittenOf(f, k) == {a \in WrittenIn(f) : KeyIn(f, a) = k}
PreparedOf(f, k) == {a \in PreparedIn(f) : KeyIn(f, a) = k}

\* stored, of any contents of the flash.
HeldIn(f, k) ==
    IF WrittenOf(f, k) # {} THEN ValIn(f, FirstAddr(WrittenOf(f, k)))
    ELSE IF PreparedOf(f, k) # {} THEN ValIn(f, FirstAddr(PreparedOf(f, k)))
    ELSE Absent

\* a is b or comes before b.
Before(a, b) == a[1] < b[1] \/ (a[1] = b[1] /\ a[2] <= b[2])

\* The first address of a set comes before the others.
LEMMA FirstIsFirst ==
    ASSUME NEW A, A \subseteq Nat \X Nat, NEW a \in A
    PROVE  FirstAddr(A) \in A /\ Before(FirstAddr(A), a)
<1> DEFINE S == {b[1] : b \in A}
<1> DEFINE s == Least(S)
<1> DEFINE B == {b \in A : b[1] = s}
<1> DEFINE I == {b[2] : b \in B}
<1>1. S \subseteq Nat /\ S # {}
  OBVIOUS
<1>2. s \in S /\ \A y \in S : s <= y
  BY <1>1, LeastIsLeast
<1>3. PICK c \in A : c[1] = s
  BY <1>2
<1>4. I \subseteq Nat /\ I # {}
  BY <1>3
<1>5. Least(I) \in I /\ \A y \in I : Least(I) <= y
  BY <1>4, LeastIsLeast
<1>6. FirstAddr(A) = <<s, Least(I)>>
  BY DEF FirstAddr
<1>7. s <= a[1] /\ (a[1] = s => Least(I) <= a[2])
  BY <1>2, <1>5
<1>8. s \in Nat /\ a[1] \in Nat
  BY <1>1, <1>2
<1> HIDE DEF s, I
<1>9. Before(<<s, Least(I)>>, a)
  BY <1>7, <1>8 DEF Before
<1>10. QED BY <1>6, <1>9, FirstIsOne

\* The addresses of the nodes of a variable.
LEMMA OfFacts ==
    ASSUME NEW f \in Flash, NEW k
    PROVE  /\ WrittenOf(f, k) \subseteq Nat \X Nat
           /\ PreparedOf(f, k) \subseteq Nat \X Nat
           /\ WrittenOf(f, k) \subseteq AddrsIn(f)
           /\ PreparedOf(f, k) \subseteq AddrsIn(f)
           /\ \A a \in AddrsIn(f) : a \in Nat \X Nat
<1>1. AddrsIn(f) \subseteq Nat \X Nat
  BY AddrsHold, EnvAssumption DEF Sectors
<1>2. QED BY <1>1 DEF WrittenOf, PreparedOf, WrittenIn, PreparedIn

\* What the flash holds of a variable: the value of its one committed node,
\* or of a prepared node that agrees with those before it.
LEMMA HeldFacts ==
    ASSUME NEW f \in Flash, NEW k
    PROVE  /\ \A a \in WrittenOf(f, k) : (\A b \in WrittenOf(f, k) : b = a)
                  => HeldIn(f, k) = ValIn(f, a)
           /\ WrittenOf(f, k) = {} =>
                 \A a \in PreparedOf(f, k) :
                    (\A p \in PreparedOf(f, k) :
                        Before(p, a) => ValIn(f, p) = ValIn(f, a))
                    => HeldIn(f, k) = ValIn(f, a)
           /\ WrittenOf(f, k) = {} /\ PreparedOf(f, k) # {} =>
                 \E c \in PreparedOf(f, k) : HeldIn(f, k) = ValIn(f, c)
           /\ WrittenOf(f, k) = {} /\ PreparedOf(f, k) = {} =>
                 HeldIn(f, k) = Absent
<1>1. ASSUME NEW a \in WrittenOf(f, k), \A b \in WrittenOf(f, k) : b = a
      PROVE  HeldIn(f, k) = ValIn(f, a)
  <2>1. FirstAddr(WrittenOf(f, k)) = a
    BY <1>1, OfFacts, FirstIsFirst
  <2>2. QED BY <1>1, <2>1 DEF HeldIn
<1>2. ASSUME WrittenOf(f, k) = {}, NEW a \in PreparedOf(f, k)
      PROVE  /\ FirstAddr(PreparedOf(f, k)) \in PreparedOf(f, k)
             /\ Before(FirstAddr(PreparedOf(f, k)), a)
             /\ HeldIn(f, k) = ValIn(f, FirstAddr(PreparedOf(f, k)))
  <2>1. HeldIn(f, k) = ValIn(f, FirstAddr(PreparedOf(f, k)))
    BY <1>2 DEF HeldIn
  <2>2. QED BY <2>1, OfFacts, FirstIsFirst
<1>3. WrittenOf(f, k) = {} /\ PreparedOf(f, k) = {} => HeldIn(f, k) = Absent
  BY DEF HeldIn
<1>4. QED BY <1>1, <1>2, <1>3

\* With the same nodes the flash holds the same; prepared nodes do not count
\* while there is a committed one.
LEMMA SameHeld ==
    ASSUME NEW f \in Flash, NEW g \in Flash, NEW k, SameNodes(f, g),
           WrittenOf(g, k) = WrittenOf(f, k),
           WrittenOf(f, k) # {} \/ PreparedOf(g, k) = PreparedOf(f, k)
    PROVE  HeldIn(g, k) = HeldIn(f, k)
<1>1. \A a \in AddrsIn(f) \cap AddrsIn(g) : ValIn(g, a) = ValIn(f, a)
  BY DEF SameNodes
<1>2. CASE WrittenOf(f, k) # {}
  <2>1. FirstAddr(WrittenOf(f, k)) \in AddrsIn(f) \cap AddrsIn(g)
    BY <1>2, OfFacts, FirstIsFirst
  <2>2. QED BY <1>1, <1>2, <2>1 DEF HeldIn
<1>3. CASE WrittenOf(f, k) = {} /\ PreparedOf(f, k) # {}
  <2>1. FirstAddr(PreparedOf(f, k)) \in AddrsIn(f) \cap AddrsIn(g)
    BY <1>3, OfFacts, FirstIsFirst
  <2>2. QED BY <1>1, <1>3, <2>1 DEF HeldIn
<1>4. CASE WrittenOf(f, k) = {} /\ PreparedOf(f, k) = {}
  BY <1>4 DEF HeldIn
<1>5. QED BY <1>2, <1>3, <1>4

\* With the same view too.
LEMMA ViewHeld ==
    ASSUME NEW f \in Flash, NEW g \in Flash, SameView(f, g)
    PROVE  \A k : HeldIn(g, k) = HeldIn(f, k)
<1>1. SUFFICES ASSUME NEW k PROVE HeldIn(g, k) = HeldIn(f, k)
  OBVIOUS
<1>2. \A a \in WrittenIn(f) \union PreparedIn(f) : KeyIn(g, a) = KeyIn(f, a)
  BY DEF SameView, SameNodes, WrittenIn, PreparedIn
<1>3. WrittenOf(g, k) = WrittenOf(f, k) /\ PreparedOf(g, k) = PreparedOf(f, k)
  BY <1>2 DEF SameView, WrittenOf, PreparedOf
<1>4. QED BY <1>3, SameHeld DEF SameView

\* stored and HeldIn are the same.
LEMMA StoredIsHeld == flash \in Flash => \A k : stored(k) = HeldIn(flash, k)
<1> SUFFICES ASSUME flash \in Flash, NEW k PROVE stored(k) = HeldIn(flash, k)
  OBVIOUS
<1>1. \A a : At(a) = NodeIn(flash, a)
  BY Words
<1>2. Nodes(k, "WRITE") = WrittenOf(flash, k)
  BY <1>1, Words DEF Nodes, Whole, WrittenOf, WrittenIn, KeyIn
<1>3. Nodes(k, "PRE_DELETE") = PreparedOf(flash, k)
  BY <1>1, Words DEF Nodes, Whole, PreparedOf, PreparedIn, KeyIn
<1>4. QED BY <1>1, <1>2, <1>3, Zenon DEF stored, HeldIn, ValIn

-----------------------------------------------------------------------------
(* The part of the invariant that says why no step changes the store.      *)

\* The collection leaves no live node behind that must be there, but the one
\* it moves.
Left == \A a \in LiveNodes : KeyOf(a) \notin Lost =>
            \/ ~Collecting
            \/ a[1] # gc.sec
            \/ pc # "erase" /\ a[2] >= gc.pos
            \/ pc \in Moves /\ a = work.old

\* A node prepared in a sector that is not dirty is of a set or a move that
\* wrote no other value yet.
Clean == \A a \in PreparedIn(flash), b \in LiveNodes :
             /\ flash[a[1]].dirty = "FALSE"
             /\ KeyOf(a) = KeyOf(b) /\ KeyOf(a) \notin Lost
             => ValOf(a) = ValOf(b)

\* What is copied is the value of the variable.
Right == /\ moving /\ pc \in {"move"} \union Copying
         /\ work.key \notin Lost /\ (\A a \in Written : KeyOf(a) # work.key)
         => HeldIn(flash, work.key) = work.val

\* A set marks the sector of the old node before it writes the new one.
OldMarked == pc \in Copying /\ ~moving /\ work.old # NoAddr =>
                 flash[work.old[1]].dirty # "FALSE"

\* No sector the collection passed is dirty.
Swept == \A s \in Sectors : s < gc.sec /\ flash[s].ok =>
             flash[s].dirty = "FALSE"

StoreInv == Left /\ Clean /\ Right /\ OldMarked /\ Swept

\* A step changes no variable.
StoredSame == \A k \in Keys \ Lost' : HeldIn(flash', k) = HeldIn(flash, k)

\* Where nothing is copied or collected.
Quiet == Outside \union {"off", "prepare", "dirty", "dirty_moved", "end_set"}

LEMMA QuietParts ==
    ASSUME pc' \in Quiet
    PROVE  Left' /\ Right' /\ OldMarked'
  BY DEF Quiet, Outside, Left, Right, OldMarked, Collecting, Moves, Copying

\* A step that leaves the live nodes, and makes no sector of one clean.
LEMMA SteadyParts ==
    ASSUME EnvInv, EnvInv', StoreInv, SameView(flash, flash'),
           Lost \subseteq Lost',
           \A a \in PreparedIn(flash) : flash'[a[1]].dirty = "FALSE" =>
               flash[a[1]].dirty = "FALSE"
    PROVE  Clean' /\ StoredSame
<1>1. flash \in Flash /\ flash' \in Flash
  BY TypeFacts DEF EnvInv, Basic, TypeOK, Flash
<1>2. /\ Written' = Written /\ PreparedIn(flash') = PreparedIn(flash)
      /\ LiveNodes' = LiveNodes /\ PreparedIn(flash) \subseteq LiveNodes
      /\ \A a \in LiveNodes : /\ KeyIn(flash', a) = KeyOf(a)
                              /\ ValIn(flash', a) = ValOf(a)
  BY <1>1, ViewFacts DEF LiveNodes
<1>3. Clean'
  BY <1>2 DEF StoreInv, Clean, KeyOf, ValOf
<1>4. StoredSame
  BY <1>1, ViewHeld DEF StoredSame
<1>5. QED BY <1>3, <1>4

\* A step that writes nothing and comes to rest.
LEMMA QuietStep ==
    ASSUME EnvInv, EnvInv', StoreInv, flash' = flash, Lost \subseteq Lost',
           pc' \in Quiet, gc'.sec = gc.sec \/ gc'.sec <= 1
    PROVE  StoreInv' /\ StoredSame
<1>1. SameView(flash, flash')
  BY DEF SameView, SameNodes
<1>2. Clean' /\ StoredSame
  BY <1>1, SteadyParts
<1>3. Swept'
  BY DEF StoreInv, Swept, EnvInv, Basic, TypeOK, Sectors
<1>4. QED BY <1>2, <1>3, QuietParts DEF StoreInv

\* A step of the copy.
LEMMA CopySteady ==
    ASSUME EnvInv, EnvInv', StoreInv, SameView(flash, flash'),
           pc \in {"move", "dirty", "sector", "pre_write", "header", "value"},
           pc' \in Copying, moving' <=> moving, gc' = gc, Lost' = Lost,
           work'.key = work.key, work'.val = work.val, work'.old = work.old,
           \A s \in Sectors : /\ flash'[s].ok = flash[s].ok
                              /\ \/ flash'[s].dirty = flash[s].dirty
                                 \/ pc = "dirty" /\ flash'[s].dirty = "TRUE",
           pc = "dirty" => flash'[work.old[1]].dirty = "TRUE"
    PROVE  StoreInv' /\ StoredSame
<1>1. flash \in Flash /\ flash' \in Flash
  BY TypeFacts DEF EnvInv, Basic, TypeOK, Flash
<1>2. /\ Written' = Written /\ PreparedIn(flash') = PreparedIn(flash)
      /\ LiveNodes' = LiveNodes /\ LiveNodes \subseteq AddrsIn(flash)
      /\ Written \subseteq LiveNodes /\ PreparedIn(flash) \subseteq LiveNodes
      /\ \A a \in LiveNodes : /\ KeyIn(flash', a) = KeyOf(a)
                              /\ ValIn(flash', a) = ValOf(a)
  BY <1>1, ViewFacts, LiveFacts DEF LiveNodes, Written
<1>3. Clean' /\ StoredSame
  <2>1. \A a \in PreparedIn(flash) : flash'[a[1]].dirty = "FALSE" =>
               flash[a[1]].dirty = "FALSE"
    BY <1>1, <1>2, AddrsHold
  <2>2. QED BY <2>1, SteadyParts
<1>4. pc = "dirty" => gc.sec = 0
  BY DEF EnvInv, Basic, Control
<1>5. Left'
  BY <1>2, <1>4 DEF StoreInv, Left, Collecting, Moves, Copying, KeyOf
<1>6. Right'
  <2>1. HeldIn(flash', work.key) = HeldIn(flash, work.key)
    BY <1>1, ViewHeld
  <2>2. pc = "dirty" => ~moving
    BY <1>4 DEF EnvInv, Basic, Control, moving
  <2>3. QED BY <1>2, <2>1, <2>2 DEF StoreInv, Right, Copying, KeyOf
<1>7. OldMarked'
  <2>1. SUFFICES ASSUME ~moving, work.old # NoAddr
                 PROVE  flash'[work.old[1]].dirty # "FALSE"
    BY DEF OldMarked
  <2>2. pc # "move"
    BY <2>1 DEF EnvInv, Basic, Control
  <2>3. work.old[1] \in Sectors
    BY <1>1, <2>1, <2>2, AddrsHold
       DEF EnvInv, Basic, Old, Setting, Copying
  <2>4. QED BY <2>1, <2>2, <2>3 DEF StoreInv, OldMarked, Copying
<1>8. Swept'
  BY <1>4 DEF StoreInv, Swept, EnvInv, Basic, TypeOK, Sectors
<1>9. QED BY <1>3, <1>5, <1>6, <1>7, <1>8 DEF StoreInv

-----------------------------------------------------------------------------
(* The steps that write nothing, or no word of a node.                     *)

LEMMA StartStores == Init => StoreInv
<1> SUFFICES ASSUME Init PROVE StoreInv
  OBVIOUS
<1>1. Formatted.nodes = << >> /\ Formatted.dirty = "FALSE"
  BY DEF Formatted, Erased
<1>2. AddrsIn(flash) = {}
  BY <1>1 DEF AddrsIn, Init, Sectors
<1>3. LiveNodes = {} /\ PreparedIn(flash) = {}
  BY <1>2 DEF LiveNodes, WrittenIn, PreparedIn
<1>4. pc = "idle"
  BY DEF Init
<1>5. Swept
  BY <1>1 DEF Init, Swept
<1>6. QED BY <1>3, <1>4, <1>5 DEF StoreInv, Left, Clean, Right, OldMarked,
                                  Copying

\* A call, the end of one, the collector's decision to start.
LEMMA StillStores ==
    ASSUME EnvInv, EnvInv', StoreInv,
           \/ \E k \in Keys : Get(k)
           \/ \E k \in Keys, v \in Vals : Set(k, v)
           \/ end_set \/ gc_check \/ recovered \/ ef_load_env \/ PowerFails
    PROVE  StoreInv' /\ StoredSame
<1>1. flash' = flash /\ dropped' = dropped /\ cut \subseteq cut'
  BY DEF Get, Set, end_set, gc_check, recovered, ef_load_env, PowerFails,
         ghosts, vars
<1>2. Lost \subseteq Lost'
  BY <1>1 DEF Lost
<1>3. /\ gc'.sec = gc.sec \/ gc'.sec <= 1
      /\ pc' \in Quiet
  <2>1. CASE gc_check
    <3>1. gc' = [gc EXCEPT !.sec = 1] \/ gc' = NoGC
      BY <2>1 DEF gc_check, gc_end
    <3>2. gc'.sec \in {0, 1}
      BY <3>1 DEF NoGC, EnvInv, Basic, TypeOK
    <3>3. pc' = "gc_sector" \/ pc' = gc.back
      BY <2>1 DEF gc_check, gc_end
    <3>4. gc.back \in {"recover", "new_env", "idle"}
      BY <2>1, Zenon DEF EnvInv, Basic, Control, gc_check
    <3>5. QED BY <3>2, <3>3, <3>4 DEF Quiet, Outside
  <2>2. CASE end_set \/ recovered \/ PowerFails
    <3>1. gc' \in {[NoGC EXCEPT !.back = "idle"], NoGC, gc,
                   [NoGC EXCEPT !.back = "recover"]}
      BY <2>2 DEF end_set, recovered, PowerFails
    <3>2. pc' \in {"idle", "gc", "off"}
      BY <2>2 DEF end_set, recovered, PowerFails
    <3>3. QED BY <3>1, <3>2 DEF NoGC, Quiet, Outside
  <2>3. CASE \/ \E k \in Keys : Get(k)
             \/ \E k \in Keys, v \in Vals : Set(k, v)
             \/ ef_load_env
    BY <2>3 DEF Get, Set, ef_load_env, idle, Quiet, Outside
  <2>4. QED BY <2>1, <2>2, <2>3
<1>4. QED BY <1>1, <1>2, <1>3, QuietStep

LEMMA NewEnvStores ==
    ASSUME EnvInv, EnvInv', StoreInv, new_env
    PROVE  StoreInv' /\ StoredSame
<1>1. pc = "new_env" /\ flash' = flash /\ cut' = cut /\ dropped' = dropped
  BY DEF new_env, ghosts
<1>2. gc.sec = 0 /\ ~loading /\ ~loading'
  BY <1>1, Zenon DEF EnvInv, Basic, Control, new_env
<1>3. CASE alloc_env.sec # 0
  <2>1. PICK old : old = find_env(request.key)
    OBVIOUS
  <2>2. /\ work'.old = old /\ gc' = gc
        /\ pc' = IF old = NoAddr THEN "sector" ELSE "prepare"
    BY <1>3, <2>1 DEF new_env
  <2>3. ~moving' /\ ~Collecting'
    BY <1>2, <2>2 DEF moving, Collecting
  <2>4. SameView(flash, flash') /\ Lost' = Lost
    BY <1>1 DEF SameView, SameNodes, Lost
  <2>5. Clean' /\ StoredSame
    BY <1>1, <2>4, SteadyParts
  <2>6. Left' /\ Right' /\ OldMarked'
    BY <2>2, <2>3 DEF Left, Right, OldMarked, Copying
  <2>7. Swept'
    BY <1>1, <2>2 DEF StoreInv, Swept
  <2>8. QED BY <2>5, <2>6, <2>7 DEF StoreInv
<1>4. CASE alloc_env.sec = 0
  <2>1. gc' \in {gc, [NoGC EXCEPT !.back = "new_env"]} /\ pc' \in {"gc", "idle"}
    BY <1>4 DEF new_env
  <2>2. gc'.sec = 0
    BY <1>2, <2>1 DEF NoGC
  <2>3. Lost \subseteq Lost' /\ pc' \in Quiet
    BY <1>1, <2>1 DEF Lost, Quiet, Outside
  <2>4. QED BY <1>1, <1>2, <2>2, <2>3, QuietStep
<1>5. QED BY <1>3, <1>4

\* A sector is as it was, or has no nodes and its mark does not matter.
LEMMA SameOrEmpty ==
    ASSUME EnvInv, EnvInv', StoreInv, SameView(flash, flash'), Lost' = Lost,
           NEW s \in Sectors, NEW x \in Sector,
           Len(flash[s].nodes) = 0, SetTo(flash, s, x, flash')
    PROVE  Clean' /\ StoredSame
<1>1. flash \in Flash
  BY TypeFacts DEF EnvInv, Basic
<1>2. ASSUME NEW a \in PreparedIn(flash)
      PROVE  flash'[a[1]].dirty = flash[a[1]].dirty
  <2>1. a[1] \in Sectors /\ a[1] # s
    BY <1>1, <1>2, AddrsHold, LiveFacts
  <2>2. QED BY <2>1 DEF SetTo
<1>3. QED BY <1>2, SteadyParts

LEMMA CheckHeadersStores ==
    ASSUME EnvInv, EnvInv', StoreInv, check_headers
    PROVE  StoreInv' /\ StoredSame
<1> DEFINE bad == {t \in Sectors : ~flash[t].ok}
<1>1. pc = "headers" /\ cut' = cut /\ dropped' = dropped
  BY DEF check_headers, ghosts
<1>2. flash \in Flash /\ gc.sec = 0 /\ Lost' = Lost
  BY <1>1, TypeFacts DEF EnvInv, Basic, Control, Lost
<1>3. \/ /\ bad # {} /\ flash' = Wipe(flash, Least(bad), Formatted)
         /\ pc' = "headers" /\ gc' = gc
      \/ flash' = flash /\ pc' = "gc" /\ gc' = [NoGC EXCEPT !.back = "recover"]
      \/ flash' = flash /\ pc' = "recover" /\ gc' = gc
  BY <1>1, Zenon DEF check_headers, Wipe
<1>4. pc' \in Quiet /\ gc'.sec = 0
  BY <1>2, <1>3 DEF Quiet, Outside, NoGC
<1>5. CASE flash' = flash
  BY <1>2, <1>4, <1>5, QuietStep
<1>6. CASE bad # {} /\ flash' = Wipe(flash, Least(bad), Formatted)
  <2>1. PICK s : s = Least(bad)
    OBVIOUS
  <2>2. bad \subseteq Nat
    BY DEF Sectors
  <2>3. s \in Sectors /\ Len(flash[s].nodes) = 0
    BY <1>6, <2>1, <2>2, LeastIsLeast DEF EnvInv, Basic, Headers
  <2>4. SameView(flash, flash')
    BY <1>2, <1>6, <2>1, <2>3, NothingWiped
  <2>5. SetTo(flash, s, Formatted, flash') /\ Formatted \in Sector
    BY <1>2, <1>6, <2>1, <2>3, Wiped
  <2>6. Clean' /\ StoredSame
    BY <1>2, <2>3, <2>4, <2>5, SameOrEmpty
  <2>7. Swept'
    BY <1>4 DEF Swept, Sectors
  <2>8. QED BY <1>4, <2>6, <2>7, QuietParts DEF StoreInv
<1>7. QED BY <1>3, <1>5, <1>6

LEMMA FormatStores ==
    ASSUME EnvInv, EnvInv', StoreInv, format
    PROVE  StoreInv' /\ StoredSame
<1>1. /\ pc = "format" /\ pc' = "gc_sector"
      /\ flash' = Wipe(flash, gc.sec, Formatted)
      /\ gc' = [gc EXCEPT !.sec = gc.sec + 1]
      /\ cut' = cut /\ dropped' = dropped
  BY DEF format, Wipe, ghosts
<1>2. PICK s : s = gc.sec
  OBVIOUS
<1>3. /\ flash \in Flash /\ s \in Sectors /\ Len(flash[s].nodes) = 0
      /\ Lost' = Lost /\ gc'.sec = s + 1 /\ s \in Nat
  BY <1>1, <1>2, TypeFacts
     DEF EnvInv, Basic, Control, Headers, Lost, TypeOK, Sectors
<1>4. SameView(flash, flash')
  BY <1>1, <1>2, <1>3, NothingWiped
<1>5. SetTo(flash, s, Formatted, flash') /\ Formatted \in Sector
  BY <1>1, <1>2, <1>3, Wiped
<1>6. Clean' /\ StoredSame
  BY <1>3, <1>4, <1>5, SameOrEmpty
<1>7. Swept'
  <2>1. SUFFICES ASSUME NEW t \in Sectors, t < s + 1, flash'[t].ok
                 PROVE  flash'[t].dirty = "FALSE"
    BY <1>3 DEF Swept
  <2>2. t = s \/ t < s
    BY <1>3, <2>1 DEF Sectors
  <2>3. Formatted.dirty = "FALSE"
    BY DEF Formatted, Erased
  <2>4. QED BY <1>2, <1>5, <2>1, <2>2, <2>3 DEF StoreInv, Swept, SetTo
<1>8. pc' \in Quiet
  BY <1>1 DEF Quiet, Outside
<1>9. QED BY <1>6, <1>7, <1>8, QuietParts DEF StoreInv

LEMMA DirtyStores ==
    ASSUME EnvInv, EnvInv', StoreInv, dirty
    PROVE  StoreInv' /\ StoredSame
<1>1. /\ pc \in {"dirty", "dirty_moved"}
      /\ pc' = IF pc = "dirty" THEN "sector" ELSE "recover"
      /\ flash' = MarkDirty(flash, work.old[1], "TRUE")
      /\ work' = work /\ gc' = gc /\ cut' = cut /\ dropped' = dropped
  BY DEF dirty, MarkDirty, ghosts
<1>2. loading' <=> loading
  BY TypeFacts, Zenon DEF EnvInv, Basic, dirty
<1>3. /\ flash \in Flash /\ gc.sec = 0 /\ (moving' <=> moving) /\ Lost' = Lost
      /\ gc'.sec = 0
  BY <1>1, <1>2, TypeFacts DEF EnvInv, Basic, Control, moving, Lost
<1>4. PICK s : s = work.old[1]
  OBVIOUS
<1>5. s \in Sectors
  BY <1>1, <1>3, <1>4, AddrsHold DEF EnvInv, Basic, Old
<1>6. /\ flash' \in Flash /\ SameLogs(flash, flash') /\ flash'[s].dirty = "TRUE"
      /\ \A t \in Sectors \ {s} : flash'[t] = flash[t]
  <2>1. s \in Sectors /\ flash' = MarkDirty(flash, s, "TRUE")
    BY <1>1, <1>4, <1>5
  <2>2. flash' \in Flash /\ SameLogs(flash, flash') /\ flash'[s].dirty = "TRUE"
    BY <1>3, <2>1, DirtyMarked
  <2>3. \A t \in Sectors \ {s} : flash'[t] = flash[t]
    BY <1>3, <2>1 DEF MarkDirty, Flash
  <2>4. QED BY <2>2, <2>3
<1>7. SameView(flash, flash')
  BY <1>3, <1>6, SameLog
<1>8. CASE pc = "dirty"
  <2>1. \A t \in Sectors : /\ flash'[t].ok = flash[t].ok
                           /\ \/ flash'[t].dirty = flash[t].dirty
                              \/ pc = "dirty" /\ flash'[t].dirty = "TRUE"
    BY <1>6, <1>8 DEF SameLogs
  <2>2. pc' \in Copying
    BY <1>1, <1>8 DEF Copying
  <2>3. QED BY <1>1, <1>3, <1>4, <1>6, <1>7, <1>8, <2>1, <2>2, CopySteady
<1>9. CASE pc = "dirty_moved"
  <2>1. \A t \in Sectors : flash'[t].dirty = "FALSE" => flash[t].dirty = "FALSE"
    BY <1>6
  <2>2. \A a \in PreparedIn(flash) : a[1] \in Sectors
    BY <1>3, LiveFacts, AddrsHold
  <2>3. Clean' /\ StoredSame
    BY <1>3, <1>7, <2>1, <2>2, SteadyParts
  <2>4. Swept'
    BY <1>3 DEF Swept, Sectors
  <2>5. pc' \in Quiet
    BY <1>1, <1>9 DEF Quiet, Outside
  <2>6. QED BY <2>3, <2>4, <2>5, QuietParts DEF StoreInv
<1>10. QED BY <1>1, <1>8, <1>9

LEMMA UpdateSecStatusStores ==
    ASSUME EnvInv, EnvInv', StoreInv, update_sec_status
    PROVE  StoreInv' /\ StoredSame
<1>1. /\ pc = "sector" /\ pc' = "pre_write"
      /\ \E st \in {"EMPTY", "USING", "FULL"} :
            flash' = MarkStore(flash, work.sec, st)
      /\ gc' = gc /\ cut' = cut /\ dropped' = dropped
  BY DEF update_sec_status, MarkStore, ghosts
<1>2. PICK b \in BOOLEAN : work' = [work EXCEPT !.full = b]
  BY Zenon DEF update_sec_status
<1>3. loading' <=> loading
  BY TypeFacts, Zenon DEF EnvInv, Basic, update_sec_status
<1>4. /\ work.sec \in Sectors /\ flash \in Flash /\ (moving' <=> moving)
      /\ Lost' = Lost
      /\ work'.key = work.key /\ work'.val = work.val /\ work'.old = work.old
  BY <1>1, <1>2, <1>3, TypeFacts
     DEF EnvInv, Basic, TypeOK, Place, moving, Copying, Lost
<1>5. /\ flash' \in Flash /\ SameLogs(flash, flash')
      /\ SameSectors(flash, flash')
  <2>1. PICK st \in {"EMPTY", "USING", "FULL"} :
            flash' = MarkStore(flash, work.sec, st)
    BY <1>1
  <2>2. PICK s : s = work.sec
    OBVIOUS
  <2>3. s \in Sectors /\ flash' = MarkStore(flash, s, st)
    BY <1>4, <2>1, <2>2
  <2>4. QED BY <1>4, <2>3, StoreMarked
<1>6. SameView(flash, flash')
  BY <1>4, <1>5, SameLog
<1>7. QED BY <1>1, <1>4, <1>5, <1>6, CopySteady DEF Copying, SameSectors

LEMMA PreWriteStores ==
    ASSUME EnvInv, EnvInv', StoreInv, pre_write
    PROVE  StoreInv' /\ StoredSame
<1> DEFINE n == [status |-> "PRE_WRITE", body |-> "none",
                 key |-> work.key, val |-> work.val]
<1>1. /\ pc = "pre_write" /\ pc' = "header"
      /\ flash' = Grow(flash, work.sec, n)
      /\ work' = work /\ gc' = gc /\ cut' = cut /\ dropped' = dropped
  BY DEF pre_write, Grow, ghosts
<1>2. loading' <=> loading
  BY TypeFacts, Zenon DEF EnvInv, Basic, pre_write
<1>3. /\ work.sec \in Sectors /\ flash \in Flash /\ (moving' <=> moving)
      /\ Len(flash[work.sec].nodes) < Cap /\ flash[work.sec].ok
      /\ work.key \in Keys /\ work.val \in Vals /\ Lost' = Lost
  BY <1>1, <1>2, TypeFacts
     DEF EnvInv, Basic, Place, moving, Copying, Setting, Lost
<1>4. n \in Node /\ n.status = "PRE_WRITE"
  BY <1>3 DEF Node, Statuses
<1> HIDE DEF n
<1>5. /\ flash' \in Flash
      /\ AddrsIn(flash) \subseteq AddrsIn(flash')
      /\ SameView(flash, flash')
      /\ \A t \in Sectors : /\ flash'[t].ok = flash[t].ok
                            /\ flash'[t].dirty = flash[t].dirty
      /\ \A t \in Sectors : ~flash[t].ok =>
                               Len(flash'[t].nodes) = Len(flash[t].nodes)
      /\ <<work.sec, Len(flash'[work.sec].nodes)>> \in AddrsIn(flash')
      /\ NodeIn(flash', <<work.sec, Len(flash'[work.sec].nodes)>>) = n
  BY <1>1, <1>3, <1>4, Grown
<1>6. QED BY <1>1, <1>3, <1>5, CopySteady DEF Copying

LEMMA BodyStores ==
    ASSUME EnvInv, EnvInv', StoreInv, write_header \/ write_value
    PROVE  StoreInv' /\ StoredSame
<1>0. PICK l : l = Last
  OBVIOUS
<1>1. PICK bd \in {"header", "whole"} :
         /\ flash' = Fill(flash, l, bd)
         /\ \/ pc = "header" /\ pc' = "value"
            \/ pc = "value" /\ pc' = "commit"
  BY <1>0 DEF write_header, write_value, Fill
<1>2. work' = work /\ gc' = gc /\ cut' = cut /\ dropped' = dropped
  BY DEF write_header, write_value, ghosts
<1>3. loading' <=> loading
  <2>1. loading' = loading
    BY DEF write_header, write_value
  <2>2. QED BY <2>1
<1>4. /\ flash \in Flash /\ l \in AddrsIn(flash) /\ (moving' <=> moving)
      /\ NodeIn(flash, l).status = "PRE_WRITE" /\ Lost' = Lost
  BY <1>0, <1>1, <1>2, <1>3, TypeFacts
     DEF EnvInv, Basic, Place, moving, Lost
<1>5. SameSectors(flash, flash') /\ SameView(flash, flash')
  BY <1>1, <1>4, Bodied
<1>6. QED BY <1>1, <1>2, <1>4, <1>5, CopySteady DEF Copying, SameSectors

LEMMA MoveEnvStores ==
    ASSUME EnvInv, EnvInv', StoreInv, move_env
    PROVE  StoreInv' /\ StoredSame
<1>1. pc = "move" /\ flash' = flash /\ gc' = gc /\ cut' = cut
  BY DEF move_env
<1>2. loading' <=> loading
  BY TypeFacts, Zenon DEF EnvInv, Basic, move_env
<1>3. PICK s : s = alloc_env.sec
  OBVIOUS
<1>4. \/ /\ s = 0 /\ gc.sec # 0 /\ pc' = "gc_node" /\ work' = work
         /\ dropped' = dropped \union {work.key}
      \/ /\ s = 0 /\ gc.sec = 0 /\ pc' = "recovered" /\ work' = work
         /\ dropped' = dropped
      \/ /\ s # 0 /\ pc' = "sector"
         /\ work' = [work EXCEPT !.sec = s] /\ dropped' = dropped
      \/ s # 0 /\ pc' = "delete" /\ work' = work /\ dropped' = dropped
  BY <1>3, Zenon DEF move_env
<1>5. /\ flash \in Flash /\ moving /\ (moving' <=> moving)
      /\ KeyOf(work.old) = work.key
      /\ gc.sec # 0 => work.old = <<gc.sec, gc.pos - 1>>
  BY <1>1, <1>2, TypeFacts DEF EnvInv, Basic, Control, Old, Moves, moving
<1>6. /\ work'.key = work.key /\ work'.val = work.val /\ work'.old = work.old
      /\ SameView(flash, flash') /\ Lost \subseteq Lost'
      /\ LiveNodes' = LiveNodes
  BY <1>1, <1>4 DEF EnvInv, Basic, TypeOK, SameView, SameNodes, Lost, LiveNodes
<1>7. CASE pc' = "sector"
  <2>1. Lost' = Lost
    BY <1>1, <1>4, <1>7 DEF Lost
  <2>2. QED BY <1>1, <1>5, <1>6, <1>7, <2>1, CopySteady DEF Copying
<1>8. CASE pc' # "sector"
  <2>1. Clean' /\ StoredSame
    BY <1>1, <1>6, SteadyParts
  <2>2. Right' /\ OldMarked'
    BY <1>4, <1>8 DEF Right, OldMarked, Copying
  <2>3. Swept'
    BY <1>1 DEF StoreInv, Swept
  <2>4. Left'
    <3>1. SUFFICES ASSUME NEW a \in LiveNodes, KeyOf(a) \notin Lost',
                          Collecting', a[1] = gc.sec
                   PROVE  a[2] >= gc.pos \/ (pc' = "delete" /\ a = work.old)
      BY <1>1, <1>4, <1>6, <1>8 DEF Left, KeyOf, Moves, Collecting
    <3>2. Collecting
      BY <1>1, <3>1 DEF Collecting, Moves
    <3>3. a[2] >= gc.pos \/ a = work.old
      BY <1>6, <3>1, <3>2 DEF StoreInv, Left
    <3>4. pc' # "delete" => work.key \in Lost'
      BY <1>1, <1>4, <1>8, <3>2 DEF Lost, Collecting
    <3>5. a = work.old => KeyOf(a) = work.key
      BY <1>5
    <3>6. QED BY <3>1, <3>3, <3>4, <3>5
  <2>5. QED BY <2>1, <2>2, <2>3, <2>4 DEF StoreInv
<1>9. QED BY <1>7, <1>8

LEMMA GcSectorStores ==
    ASSUME EnvInv, EnvInv', StoreInv, gc_sector
    PROVE  StoreInv' /\ StoredSame
<1>1. pc = "gc_sector" /\ cut' = cut /\ dropped' = dropped
  BY DEF gc_sector, ghosts
<1>2. /\ flash \in Flash /\ gc.sec \in Nat /\ gc.sec # 0 /\ Lost' = Lost
      /\ gc.back \in {"recover", "new_env", "idle"}
  BY <1>1, TypeFacts, EnvAssumption
     DEF EnvInv, Basic, Control, TypeOK, Lost
<1>3. \/ /\ ~(gc.sec > NumSectors) /\ pc' = "gc_node"
         /\ flash' = MarkDirty(flash, gc.sec, "GC")
         /\ gc' = [gc EXCEPT !.pos = 1]
      \/ /\ ~(gc.sec > NumSectors) /\ pc' = pc
         /\ ~(flash[gc.sec].ok /\ flash[gc.sec].dirty # "FALSE")
         /\ flash' = flash /\ gc' = [gc EXCEPT !.sec = @ + 1]
      \/ flash' = flash /\ gc' = NoGC /\ pc' = gc.back
  BY Zenon DEF gc_sector, gc_end, MarkDirty
<1>4. CASE flash' = flash /\ gc' = NoGC /\ pc' = gc.back
  BY <1>2, <1>4, QuietStep DEF NoGC, Quiet, Outside
<1>5. CASE /\ pc' = pc /\ flash' = flash /\ gc' = [gc EXCEPT !.sec = @ + 1]
           /\ ~(flash[gc.sec].ok /\ flash[gc.sec].dirty # "FALSE")
  <2>1. gc'.sec = gc.sec + 1
    BY <1>5 DEF EnvInv, Basic, TypeOK
  <2>2. Swept'
    BY <1>2, <1>5, <2>1 DEF StoreInv, Swept, Sectors
  <2>3. Clean' /\ StoredSame
    BY <1>2, <1>5, SteadyParts DEF SameView, SameNodes
  <2>4. pc' \in Quiet
    BY <1>1, <1>5 DEF Quiet, Outside
  <2>5. QED BY <2>2, <2>3, <2>4, QuietParts DEF StoreInv
<1>6. CASE /\ ~(gc.sec > NumSectors) /\ pc' = "gc_node"
           /\ flash' = MarkDirty(flash, gc.sec, "GC")
           /\ gc' = [gc EXCEPT !.pos = 1]
  <2>1. PICK s : s = gc.sec
    OBVIOUS
  <2>2. s \in Sectors
    BY <1>2, <1>6, <2>1, EnvAssumption DEF Sectors
  <2>3. /\ flash' \in Flash /\ SameLogs(flash, flash')
        /\ flash'[s].dirty = "GC"
        /\ \A t \in Sectors \ {s} : flash'[t] = flash[t]
    <3>1. flash' = MarkDirty(flash, s, "GC")
      BY <1>6, <2>1
    <3>2. /\ flash' \in Flash /\ SameLogs(flash, flash')
          /\ flash'[s].dirty = "GC"
      BY <1>2, <2>2, <3>1, DirtyMarked
    <3>3. \A t \in Sectors \ {s} : flash'[t] = flash[t]
      BY <1>2, <2>2, <3>1 DEF MarkDirty, Flash
    <3>4. QED BY <3>2, <3>3
  <2>4. SameView(flash, flash')
    BY <1>2, <2>3, SameLog
  <2>5. gc'.sec = s /\ gc'.pos = 1
    BY <1>6, <2>1 DEF EnvInv, Basic, TypeOK
  <2>6. \A a \in LiveNodes \union PreparedIn(flash) :
           a[1] \in Sectors /\ a[2] >= 1
    BY <1>2, LiveFacts, AddrsHold
  <2>7. Clean' /\ StoredSame
    BY <1>2, <2>3, <2>4, <2>6, SteadyParts
  <2>8. LiveNodes' = LiveNodes
    BY <1>2, <2>3, <2>4, ViewFacts
  <2>9. Left'
    BY <1>6, <2>5, <2>6, <2>8 DEF Left
  <2>10. Right' /\ OldMarked'
    BY <1>6 DEF Right, OldMarked, Copying
  <2>11. Swept'
    BY <1>2, <2>1, <2>3, <2>5 DEF StoreInv, Swept, Sectors
  <2>12. QED BY <2>7, <2>9, <2>10, <2>11 DEF StoreInv
<1>7. QED BY <1>3, <1>4, <1>5, <1>6

-----------------------------------------------------------------------------
(* The steps that write a node's status, and the erasure.                  *)

\* A set prepares the one node of its variable.
LEMMA PrepareStores ==
    ASSUME EnvInv, EnvInv', StoreInv, prepare
    PROVE  StoreInv' /\ StoredSame
<1>1. /\ pc = "prepare" /\ pc' \in {"dirty", "sector"}
      /\ pc' = "sector" => flash[work.old[1]].dirty # "FALSE"
      /\ flash' = Mark(flash, work.old, "PRE_DELETE")
      /\ work' = work /\ gc' = gc /\ cut' = cut /\ dropped' = dropped
  BY DEF prepare, SetStatus, Mark, ghosts
<1>2. loading' <=> loading
  BY TypeFacts, Zenon DEF EnvInv, Basic, prepare
<1>3. /\ flash \in Flash /\ ~loading /\ gc.sec = 0 /\ ~moving /\ ~moving'
      /\ Lost' = Lost
  BY <1>1, <1>2, TypeFacts DEF EnvInv, Basic, Control, moving, Lost
<1>4. /\ work.old \in AddrsIn(flash) /\ KeyOf(work.old) = work.key
      /\ work.key \notin dropped => work.old \in Written
  BY <1>1, <1>3, AddrsHold DEF EnvInv, Basic, Old, Setting
<1>5. "PRE_DELETE" \in Statuses
  BY DEF Statuses
<1>6. /\ flash' \in Flash
      /\ SameSectors(flash, flash')
      /\ SameNodes(flash, flash')
      /\ AddrsIn(flash') = AddrsIn(flash)
      /\ Written' = Written \ {work.old}
      /\ PreparedIn(flash') \subseteq PreparedIn(flash) \union {work.old}
      /\ work.old \notin Written => LiveNodes' \subseteq LiveNodes \union {work.old}
      /\ work.old \in Written =>
            /\ PreparedIn(flash') = PreparedIn(flash) \union {work.old}
            /\ LiveNodes' = LiveNodes
      /\ PreparedIn(flash) \subseteq PreparedIn(flash') \union {work.old}
  BY <1>1, <1>3, <1>4, <1>5, Marked DEF Written, LiveNodes, WrittenIn
<1>7. /\ \A a \in AddrsIn(flash) :
            KeyIn(flash', a) = KeyOf(a) /\ ValIn(flash', a) = ValOf(a)
      /\ LiveNodes \subseteq AddrsIn(flash) /\ Written \subseteq LiveNodes
      /\ PreparedIn(flash) \subseteq LiveNodes
      /\ \A a \in AddrsIn(flash) : a[1] \in Sectors
  BY <1>3, <1>6, LiveFacts, AddrsHold
     DEF SameNodes, KeyOf, ValOf, LiveNodes, Written
<1>8. \A a \in PreparedIn(flash) : KeyOf(a) \in Lost
  BY <1>1, <1>3 DEF EnvInv, Data, OnePrepared, Copying
<1>9. work.key \notin Lost =>
         \A a \in LiveNodes : KeyOf(a) = work.key => a = work.old
  BY <1>4, <1>8
     DEF EnvInv, Data, OneWritten, LiveNodes, Written, Lost
<1>10. Clean'
  <2>1. SUFFICES ASSUME NEW a \in PreparedIn(flash'), NEW b \in LiveNodes',
                        KeyIn(flash', a) = KeyIn(flash', b),
                        KeyIn(flash', a) \notin Lost
                 PROVE  ValIn(flash', a) = ValIn(flash', b)
    BY <1>3 DEF Clean, KeyOf, ValOf
  <2>2. a = work.old /\ work.key \notin Lost /\ KeyIn(flash', a) = work.key
    BY <1>4, <1>6, <1>7, <1>8, <2>1
  <2>3. b = work.old
    BY <1>4, <1>6, <1>7, <1>9, <2>1, <2>2 DEF Lost
  <2>4. QED BY <2>2, <2>3
<1>11. StoredSame
  <2>1. SUFFICES ASSUME NEW k \in Keys \ Lost
                 PROVE  HeldIn(flash', k) = HeldIn(flash, k)
    BY <1>3 DEF StoredSame
  <2>2. CASE k # work.key
    <3>1. WrittenOf(flash', k) = WrittenOf(flash, k)
      BY <1>4, <1>6, <1>7, <2>2 DEF WrittenOf, Written, KeyOf
    <3>2. PreparedOf(flash', k) = PreparedOf(flash, k)
      BY <1>4, <1>6, <1>7, <2>2 DEF PreparedOf, KeyOf
    <3>3. QED BY <1>3, <1>6, <3>1, <3>2, SameHeld
  <2>3. CASE k = work.key
    <3>1. work.old \in Written /\ work.key \notin Lost
      BY <1>4, <2>1, <2>3 DEF Lost
    <3>2. WrittenOf(flash, k) = {work.old}
      BY <1>4, <1>7, <1>9, <2>3, <3>1 DEF WrittenOf, Written, KeyOf
    <3>3. HeldIn(flash, k) = ValOf(work.old)
      BY <1>3, <3>2, HeldFacts DEF ValOf
    <3>4. WrittenOf(flash', k) = {} /\ PreparedOf(flash', k) = {work.old}
      BY <1>4, <1>6, <1>7, <1>8, <1>9, <2>3, <3>1
         DEF WrittenOf, PreparedOf, Written, KeyOf
    <3>5. HeldIn(flash', k) = ValIn(flash', work.old)
      BY <1>6, <3>4, HeldFacts
    <3>6. QED BY <1>4, <1>7, <3>3, <3>5
  <2>4. QED BY <2>2, <2>3
<1>12. ~Collecting'
  BY <1>1, <1>3 DEF Collecting
<1>13. OldMarked'
  BY <1>1, <1>4, <1>6, <1>7 DEF OldMarked, SameSectors, Copying
<1>14. Left' /\ Right' /\ Swept'
  BY <1>1, <1>3, <1>12 DEF Left, Right, Swept, Sectors
<1>15. QED BY <1>10, <1>11, <1>13, <1>14 DEF StoreInv

\* Prepared nodes that come before the next node to move agree with it.
LEMMA EarlierAgree ==
    ASSUME EnvInv, StoreInv, pc = "gc_node", gc.sec # 0,
           NEW a \in LiveNodes, a[1] = gc.sec, a[2] >= gc.pos,
           KeyOf(a) \notin Lost,
           \A b \in LiveNodes : b[1] = gc.sec /\ b[2] >= gc.pos => a[2] <= b[2],
           NEW p \in PreparedIn(flash), KeyOf(p) = KeyOf(a), Before(p, a)
    PROVE  ValOf(p) = ValOf(a)
<1>1. flash \in Flash /\ Collecting
  BY TypeFacts DEF EnvInv, Basic, Collecting
<1>2. /\ p \in LiveNodes /\ p[1] \in Sectors /\ a[1] \in Sectors
      /\ p = <<p[1], p[2]>> /\ a = <<a[1], a[2]>>
      /\ p[2] \in Nat /\ a[2] \in Nat /\ p[2] >= 1
      /\ p[2] <= Len(flash[p[1]].nodes)
  BY <1>1, LiveFacts, AddrsHold DEF LiveNodes, AddrsIn
<1>3. CASE p[1] = a[1]
  <2>1. p[2] >= gc.pos
    BY <1>1, <1>2, <1>3 DEF StoreInv, Left, Moves, Copying
  <2>2. a[2] <= p[2] /\ p[2] <= a[2]
    BY <1>2, <1>3, <2>1 DEF Before, Sectors
  <2>3. p = a
    BY <1>2, <1>3, <2>2
  <2>4. QED BY <2>3
<1>4. CASE p[1] < a[1]
  <2>1. flash[p[1]].ok
    <3>1. Len(flash[p[1]].nodes) # 0
      BY <1>2
    <3>2. QED BY <1>2, <3>1 DEF EnvInv, Basic, Headers
  <2>2. flash[p[1]].dirty = "FALSE"
    BY <1>2, <1>4, <2>1 DEF StoreInv, Swept
  <2>3. QED BY <2>2 DEF StoreInv, Clean
<1>5. QED BY <1>3, <1>4 DEF Before

LEMMA GcNodeMovesStores ==
    ASSUME EnvInv, EnvInv', StoreInv, gc_node,
           NEW a \in LiveNodes, a[1] = gc.sec, a[2] >= gc.pos,
           \A b \in LiveNodes : b[1] = gc.sec /\ b[2] >= gc.pos => a[2] <= b[2],
           pc' = "move", flash' = Mark(flash, a, "PRE_DELETE"),
           gc' = [gc EXCEPT !.pos = a[2] + 1],
           work' = [NoWork EXCEPT !.key = KeyOf(a), !.val = ValOf(a), !.old = a]
    PROVE  StoreInv' /\ StoredSame
<1>1. pc = "gc_node" /\ cut' = cut /\ dropped' = dropped
  BY DEF gc_node, ghosts
<1>2. /\ flash \in Flash /\ a \in AddrsIn(flash)
      /\ NodeIn(flash, a).body = "whole"
      /\ a[1] \in Sectors /\ a[2] \in Nat /\ a = <<a[1], a[2]>>
      /\ gc.sec \in Sectors /\ gc.sec # 0 /\ Lost' = Lost
  BY <1>1, TypeFacts, LiveFacts, AddrsHold
     DEF EnvInv, Basic, Control, LiveNodes, WrittenIn, PreparedIn, Sectors, Lost
<1>3. "PRE_DELETE" \in Statuses
  BY DEF Statuses
<1>4. /\ flash' \in Flash
      /\ AddrsIn(flash') = AddrsIn(flash)
      /\ SameSectors(flash, flash')
      /\ SameNodes(flash, flash')
      /\ WrittenIn(flash') = WrittenIn(flash) \ {a}
      /\ PreparedIn(flash') = PreparedIn(flash) \union {a}
  BY <1>2, <1>3, Marked
<1>5. /\ LiveNodes' = LiveNodes /\ LiveNodes \subseteq AddrsIn(flash)
      /\ WrittenIn(flash) \subseteq LiveNodes
      /\ PreparedIn(flash) \subseteq LiveNodes
      /\ \A b \in LiveNodes :
            KeyIn(flash', b) = KeyOf(b) /\ ValIn(flash', b) = ValOf(b)
  BY <1>2, <1>4, LiveFacts DEF LiveNodes, SameNodes, KeyOf, ValOf
<1>6. /\ work'.key = KeyOf(a) /\ work'.val = ValOf(a) /\ work'.old = a
      /\ gc'.sec = gc.sec /\ gc'.pos = a[2] + 1
  BY DEF NoWork, EnvInv, Basic, TypeOK
<1>7. Collecting
  BY <1>1, <1>2 DEF Collecting
<1>8. KeyOf(a) \notin Lost =>
         \A p \in PreparedOf(flash', KeyOf(a)) :
            Before(p, a) => ValIn(flash', p) = ValIn(flash', a)
  <2>1. SUFFICES ASSUME KeyOf(a) \notin Lost, NEW p \in PreparedIn(flash),
                        KeyOf(p) = KeyOf(a), Before(p, a)
                 PROVE  ValOf(p) = ValOf(a)
    BY <1>4, <1>5 DEF PreparedOf, KeyOf
  <2>2. QED BY <1>1, <1>2, <2>1, EarlierAgree
<1>9. KeyOf(a) \notin Lost /\ WrittenOf(flash', KeyOf(a)) = {} =>
         HeldIn(flash', KeyOf(a)) = ValOf(a)
  <2>1. SUFFICES ASSUME KeyOf(a) \notin Lost, WrittenOf(flash', KeyOf(a)) = {}
                 PROVE  HeldIn(flash', KeyOf(a)) = ValIn(flash', a)
    BY <1>5
  <2>2. a \in PreparedOf(flash', KeyOf(a))
    BY <1>4, <1>5 DEF PreparedOf
  <2>3. QED BY <1>4, <1>8, <2>1, <2>2, HeldFacts
<1>10. StoredSame
  <2>1. SUFFICES ASSUME NEW k \in Keys \ Lost
                 PROVE  HeldIn(flash', k) = HeldIn(flash, k)
    BY <1>2 DEF StoredSame
  <2>2. CASE k # KeyOf(a) \/ a \in PreparedIn(flash)
    <3>1. a \in PreparedIn(flash) => a \notin WrittenIn(flash)
      BY <1>2, LiveFacts DEF Written
    <3>2. WrittenOf(flash', k) = WrittenOf(flash, k)
      BY <1>4, <1>5, <2>2, <3>1 DEF WrittenOf, KeyOf
    <3>3. PreparedOf(flash', k) = PreparedOf(flash, k)
      BY <1>4, <1>5, <2>2 DEF PreparedOf, KeyOf
    <3>4. QED BY <1>2, <1>4, <3>2, <3>3, SameHeld
  <2>3. CASE k = KeyOf(a) /\ a \in WrittenIn(flash)
    <3>1. \A b \in WrittenOf(flash, k) : b = a
      BY <2>1, <2>3 DEF EnvInv, Data, OneWritten, Written, WrittenOf, KeyOf
    <3>2. a \in WrittenOf(flash, k)
      BY <2>3 DEF WrittenOf, KeyOf
    <3>3. HeldIn(flash, k) = ValOf(a)
      BY <1>2, <3>1, <3>2, HeldFacts DEF ValOf
    <3>4. WrittenOf(flash', k) = {}
      BY <1>4, <1>5, <3>1 DEF WrittenOf, KeyOf
    <3>5. QED BY <1>9, <2>1, <2>3, <3>3, <3>4
  <2>4. QED BY <2>2, <2>3 DEF LiveNodes
<1>11. Right'
  <2>1. SUFFICES ASSUME KeyOf(a) \notin Lost,
                        \A b \in WrittenIn(flash') : KeyIn(flash', b) # KeyOf(a)
                 PROVE  HeldIn(flash', KeyOf(a)) = ValOf(a)
    BY <1>2, <1>6 DEF Right, Written, KeyOf
  <2>2. QED BY <1>9, <2>1 DEF WrittenOf
<1>12. Clean'
  <2>1. flash[a[1]].dirty = "GC"
    BY <1>7 DEF EnvInv, Basic, Headers
  <2>2. \A b \in PreparedIn(flash') : flash'[b[1]].dirty = flash[b[1]].dirty
    BY <1>2, <1>4, <1>5, AddrsHold DEF SameSectors, LiveNodes
  <2>3. QED BY <1>2, <1>4, <1>5, <2>1, <2>2
        DEF StoreInv, Clean, KeyOf, ValOf
<1>13. Left'
  <2>1. SUFFICES ASSUME NEW b \in LiveNodes, KeyOf(b) \notin Lost,
                        b[1] = gc.sec, b # a
                 PROVE  b[2] >= a[2] + 1
    BY <1>2, <1>5, <1>6 DEF Left, Moves, KeyOf
  <2>2. b[2] >= gc.pos
    BY <1>1, <1>7, <2>1 DEF StoreInv, Left, Moves, Copying
  <2>3. a[2] <= b[2] /\ b = <<b[1], b[2]>> /\ b[2] \in Nat
    BY <1>2, <2>1, <2>2, LiveFacts, AddrsHold
  <2>4. QED BY <1>2, <2>1, <2>3
<1>14. OldMarked'
  BY DEF OldMarked, Copying
<1>15. Swept'
  BY <1>4, <1>6 DEF StoreInv, Swept, SameSectors
<1>16. QED BY <1>10, <1>11, <1>12, <1>13, <1>14, <1>15 DEF StoreInv

LEMMA GcNodeStores ==
    ASSUME EnvInv, EnvInv', StoreInv, gc_node
    PROVE  StoreInv' /\ StoredSame
<1>1. pc = "gc_node" /\ cut' = cut /\ dropped' = dropped
  BY DEF gc_node, ghosts
<1>2. CASE NodeEnds
  <2>1. /\ flash' = flash /\ pc' = "erase" /\ gc' = gc /\ Lost' = Lost
        /\ LiveNodes' = LiveNodes
    BY <1>1, <1>2 DEF NodeEnds, Lost, LiveNodes
  <2>2. Clean' /\ StoredSame
    BY <2>1, SteadyParts DEF SameView, SameNodes
  <2>3. Collecting
    BY <1>1 DEF Collecting, EnvInv, Basic, Control, Sectors
  <2>4. ASSUME NEW a \in LiveNodes, KeyOf(a) \notin Lost
        PROVE  a[1] # gc.sec
    BY <1>1, <1>2, <2>3, <2>4 DEF NodeEnds, StoreInv, Left, Moves, Copying
  <2>5. Left'
    BY <2>1, <2>4 DEF Left, KeyOf
  <2>6. Right' /\ OldMarked' /\ Swept'
    BY <2>1 DEF Right, OldMarked, StoreInv, Swept, Copying
  <2>7. QED BY <2>2, <2>5, <2>6 DEF StoreInv
<1>3. ASSUME NEW a, NodeMoves(a) PROVE StoreInv' /\ StoredSame
  BY <1>3, GcNodeMovesStores DEF NodeMoves
<1>4. QED BY <1>2, <1>3, GcNodeCases

\* A recovery moves the first node that is prepared.
LEMMA RecoverStores ==
    ASSUME EnvInv, EnvInv', StoreInv, recover
    PROVE  StoreInv' /\ StoredSame
<1> DEFINE pending == Prepared \union {a \in Addrs : At(a).status = "PRE_WRITE"}
<1>1. pc = "recover" /\ gc' = gc /\ cut' = cut /\ dropped' = dropped
  BY DEF recover, ghosts
<1>2. flash \in Flash /\ gc.sec = 0 /\ Lost' = Lost
  BY <1>1, TypeFacts DEF EnvInv, Basic, Control, Lost
<1>3. PICK a : a = FirstAddr(pending)
  OBVIOUS
<1>4. pending # {} => /\ a \in AddrsIn(flash)
                      /\ \/ a \in PreparedIn(flash)
                         \/ NodeIn(flash, a).status = "PRE_WRITE"
                      /\ \A p \in PreparedIn(flash) : Before(a, p)
  <2>1. /\ pending = PreparedIn(flash) \union
              {b \in AddrsIn(flash) : NodeIn(flash, b).status = "PRE_WRITE"}
        /\ PreparedIn(flash) \subseteq AddrsIn(flash)
        /\ AddrsIn(flash) \subseteq Sectors \X (1..Cap)
    BY <1>2, Words, AddrsHold, LiveFacts
  <2> HIDE DEF pending
  <2>2. pending \subseteq Nat \X Nat
    BY <2>1, EnvAssumption DEF Sectors
  <2>3. pending # {} => a \in pending
    BY <1>3, <2>2, FirstIsOne
  <2>4. \A p \in pending : Before(a, p)
    BY <1>3, <2>2, FirstIsFirst
  <2>5. QED BY <2>1, <2>3, <2>4
<1>5. \/ flash' = flash /\ work' = work /\ pc' = "recovered"
      \/ /\ pending # {} /\ NodeIn(flash, a).status = "PRE_DELETE"
         /\ flash' = flash /\ pc' = "move"
         /\ work' = [NoWork EXCEPT !.key = KeyOf(a), !.val = ValOf(a),
                                   !.old = a]
      \/ /\ pending # {} /\ NodeIn(flash, a).status # "PRE_DELETE"
         /\ flash' = Mark(flash, a, "ERR_HDR")
         /\ pc' \in {"recover", "recovered"}
  <2>1. /\ At(a).key = KeyOf(a) /\ At(a).val = ValOf(a)
        /\ At(a).status = NodeIn(flash, a).status
    BY <1>2, Words DEF KeyOf, ValOf, KeyIn, ValIn
  <2>2. QED BY <1>3, <2>1, Zenon DEF recover, SetStatus, Mark
<1>6. Swept'
  BY <1>1, <1>2 DEF Swept, Sectors
<1>7. CASE flash' = flash /\ work' = work /\ pc' = "recovered"
  BY <1>1, <1>2, <1>7, QuietStep DEF Quiet, Outside
<1>8. CASE /\ pending # {} /\ NodeIn(flash, a).status # "PRE_DELETE"
           /\ flash' = Mark(flash, a, "ERR_HDR")
           /\ pc' \in {"recover", "recovered"}
  <2>1. /\ "ERR_HDR" \in Statuses /\ a \in AddrsIn(flash)
        /\ NodeIn(flash, a).status = "PRE_WRITE"
    BY <1>4, <1>8 DEF Statuses, PreparedIn
  <2>2. a \notin WrittenIn(flash) /\ a \notin PreparedIn(flash)
    BY <2>1 DEF WrittenIn, PreparedIn
  <2>3. /\ SameSectors(flash, flash')
        /\ SameNodes(flash, flash')
        /\ WrittenIn(flash') = WrittenIn(flash) \ {a}
        /\ PreparedIn(flash') = PreparedIn(flash) \ {a}
    BY <1>2, <1>8, <2>1, Marked
  <2>4. SameView(flash, flash')
    BY <2>2, <2>3 DEF SameView
  <2>5. \A b \in PreparedIn(flash) : flash'[b[1]].dirty = flash[b[1]].dirty
    BY <1>2, <2>3, LiveFacts, AddrsHold DEF SameSectors
  <2>6. Clean' /\ StoredSame
    BY <1>2, <2>4, <2>5, SteadyParts
  <2>7. pc' \in Quiet
    BY <1>8 DEF Quiet, Outside
  <2>8. QED BY <1>6, <2>6, <2>7, QuietParts DEF StoreInv
<1>9. CASE /\ a \in PreparedIn(flash) /\ flash' = flash /\ pc' = "move"
           /\ pending # {}
           /\ work' = [NoWork EXCEPT !.key = KeyOf(a), !.val = ValOf(a),
                                     !.old = a]
  <2>1. work'.key = KeyOf(a) /\ work'.val = ValOf(a)
    BY <1>9 DEF NoWork
  <2>2. Clean' /\ StoredSame
    BY <1>2, <1>9, SteadyParts DEF SameView, SameNodes
  <2>3. Left' /\ OldMarked'
    BY <1>1, <1>2, <1>9 DEF Left, Collecting, OldMarked, Copying
  <2>4. Right'
    <3>1. SUFFICES ASSUME \A b \in Written : KeyOf(b) # KeyOf(a)
                   PROVE  HeldIn(flash, KeyOf(a)) = ValOf(a)
      BY <1>9, <2>1 DEF Right, Written, KeyOf
    <3>2. WrittenOf(flash, KeyOf(a)) = {} /\ a \in PreparedOf(flash, KeyOf(a))
      BY <1>9, <3>1 DEF WrittenOf, PreparedOf, Written, KeyOf
    <3>3. ASSUME NEW p \in PreparedOf(flash, KeyOf(a)), Before(p, a)
          PROVE  p = a
      <4>1. Before(a, p) /\ p \in AddrsIn(flash) /\ a \in AddrsIn(flash)
        BY <1>4, <1>9, <3>3, LiveFacts, <1>2 DEF PreparedOf
      <4>2. /\ p = <<p[1], p[2]>> /\ a = <<a[1], a[2]>> /\ p[1] \in Nat
            /\ a[1] \in Nat /\ p[2] \in Nat /\ a[2] \in Nat
        BY <1>2, <4>1, AddrsHold DEF Sectors
      <4>3. p[1] = a[1] /\ p[2] = a[2]
        BY <3>3, <4>1, <4>2 DEF Before
      <4>4. QED BY <4>2, <4>3
    <3>4. QED BY <1>2, <3>2, <3>3, HeldFacts DEF ValOf
  <2>5. QED BY <1>6, <2>2, <2>3, <2>4 DEF StoreInv
<1>10. QED BY <1>4, <1>5, <1>7, <1>8, <1>9

LEMMA DeleteStores ==
    ASSUME EnvInv, EnvInv', StoreInv, delete
    PROVE  StoreInv' /\ StoredSame
<1>1. /\ pc = "delete"
      /\ flash' = Mark(flash, work.old, "DELETED")
      /\ work' = work /\ gc' = gc /\ cut' = cut /\ dropped' = dropped
  BY DEF delete, SetStatus, Mark, ghosts
<1>2. \/ ~moving /\ pc' = "end_set"
      \/ moving /\ gc.sec # 0 /\ pc' = "gc_node"
      \/ moving /\ gc.sec = 0 /\ loading /\ pc' \in {"dirty_moved", "recover"}
  BY DEF delete, moving
<1>3. /\ flash \in Flash /\ Lost' = Lost
      /\ work.old \in AddrsIn(flash) /\ KeyOf(work.old) = work.key
  BY <1>1, TypeFacts, AddrsHold
     DEF EnvInv, Basic, Old, Moves, Setting, moving, Lost
<1>4. "DELETED" \in Statuses
  BY DEF Statuses
<1>5. /\ flash' \in Flash
      /\ SameSectors(flash, flash')
      /\ SameNodes(flash, flash')
      /\ AddrsIn(flash') = AddrsIn(flash)
      /\ WrittenIn(flash') = WrittenIn(flash) \ {work.old}
      /\ PreparedIn(flash') = PreparedIn(flash) \ {work.old}
  BY <1>1, <1>3, <1>4, Marked
<1>6. /\ LiveNodes' = LiveNodes \ {work.old} /\ LiveNodes \subseteq AddrsIn(flash)
      /\ WrittenIn(flash) \subseteq LiveNodes
      /\ PreparedIn(flash) \subseteq LiveNodes
      /\ \A b \in AddrsIn(flash) :
            KeyIn(flash', b) = KeyOf(b) /\ ValIn(flash', b) = ValOf(b)
  BY <1>3, <1>5, LiveFacts DEF LiveNodes, SameNodes, KeyOf, ValOf
<1>7. work.key \notin Lost => work.old \notin WrittenIn(flash)
  <2>1. work.key \notin Lost => work.old \in PreparedIn(flash)
    BY <1>1, <1>3, AddrsHold DEF EnvInv, Basic, Old, Moves, Lost
  <2>2. QED BY <1>3, <2>1, LiveFacts DEF Written
<1>8. StoredSame
  <2>1. SUFFICES ASSUME NEW k \in Keys \ Lost
                 PROVE  HeldIn(flash', k) = HeldIn(flash, k)
    BY <1>3 DEF StoredSame
  <2>2. WrittenOf(flash', k) = WrittenOf(flash, k)
    BY <1>3, <1>5, <1>6, <1>7, <2>1 DEF WrittenOf, KeyOf
  <2>3. CASE k = work.key
    <3>1. WrittenOf(flash, k) # {}
      BY <1>1, <2>1, <2>3 DEF EnvInv, Data, SomeWritten, Written, WrittenOf, KeyOf
    <3>2. QED BY <1>3, <1>5, <2>2, <3>1, SameHeld
  <2>4. CASE k # work.key
    <3>1. PreparedOf(flash', k) = PreparedOf(flash, k)
      BY <1>3, <1>5, <1>6, <2>4 DEF PreparedOf, KeyOf
    <3>2. QED BY <1>3, <1>5, <2>2, <3>1, SameHeld
  <2>5. QED BY <2>3, <2>4
<1>9. Clean'
  <2>1. \A b \in PreparedIn(flash) : flash'[b[1]].dirty = flash[b[1]].dirty
    BY <1>3, <1>5, LiveFacts, AddrsHold DEF SameSectors
  <2>2. QED BY <1>3, <1>5, <1>6, <2>1 DEF StoreInv, Clean, KeyOf, ValOf
<1>10. Left'
  <2>1. SUFFICES ASSUME NEW a \in LiveNodes, a # work.old, KeyOf(a) \notin Lost,
                        Collecting', a[1] = gc.sec
                 PROVE  pc' # "erase" /\ a[2] >= gc.pos
    BY <1>1, <1>3, <1>6 DEF Left, KeyOf
  <2>2. Collecting
    BY <1>1, <2>1 DEF Collecting, Moves
  <2>3. QED BY <1>2, <2>1, <2>2 DEF StoreInv, Left
<1>11. Right' /\ OldMarked'
  BY <1>2 DEF Right, OldMarked, Copying
<1>12. Swept'
  BY <1>1, <1>5 DEF StoreInv, Swept, SameSectors
<1>13. QED BY <1>8, <1>9, <1>10, <1>11, <1>12 DEF StoreInv

\* The collection erases no live node that must be there.
LEMMA EraseStores ==
    ASSUME EnvInv, EnvInv', StoreInv, erase
    PROVE  StoreInv' /\ StoredSame
<1>1. /\ pc = "erase" /\ pc' = "format"
      /\ flash' = Wipe(flash, gc.sec, Erased)
      /\ work' = work /\ gc' = gc /\ cut' = cut /\ dropped' = dropped
  BY DEF erase, Wipe, ghosts
<1>2. PICK t : t = gc.sec
  OBVIOUS
<1>3. flash \in Flash /\ t \in Sectors /\ Collecting /\ Lost' = Lost
  BY <1>1, <1>2, TypeFacts DEF EnvInv, Basic, Control, Collecting, Sectors, Lost
<1>4. /\ flash' \in Flash
      /\ SetTo(flash, t, Erased, flash')
      /\ SameNodes(flash, flash')
      /\ NodesGone(flash, t, flash')
  BY <1>1, <1>2, <1>3, Wiped
<1>5. ASSUME NEW a \in LiveNodes, KeyOf(a) \notin Lost
      PROVE  a[1] # t
  BY <1>1, <1>2, <1>3, <1>5 DEF StoreInv, Left, Moves, Copying
<1>6. /\ LiveNodes \subseteq AddrsIn(flash)
      /\ WrittenIn(flash) \subseteq LiveNodes
      /\ PreparedIn(flash) \subseteq LiveNodes
      /\ LiveNodes' = {a \in LiveNodes : a[1] # t}
      /\ \A b \in LiveNodes' :
            KeyIn(flash', b) = KeyOf(b) /\ ValIn(flash', b) = ValOf(b)
  BY <1>3, <1>4, LiveFacts
     DEF LiveNodes, NodesGone, SameNodes, KeyOf, ValOf, WrittenIn, PreparedIn
<1>7. StoredSame
  <2>1. SUFFICES ASSUME NEW k \in Keys \ Lost
                 PROVE  HeldIn(flash', k) = HeldIn(flash, k)
    BY <1>3 DEF StoredSame
  <2>2. WrittenOf(flash', k) = WrittenOf(flash, k)
    BY <1>4, <1>5, <1>6, <2>1 DEF WrittenOf, NodesGone, KeyOf, LiveNodes
  <2>3. PreparedOf(flash', k) = PreparedOf(flash, k)
    BY <1>4, <1>5, <1>6, <2>1 DEF PreparedOf, NodesGone, KeyOf, LiveNodes
  <2>4. QED BY <1>3, <1>4, <2>2, <2>3, SameHeld
<1>8. Clean'
  <2>1. \A a \in PreparedIn(flash') : a \in PreparedIn(flash) /\ a[1] # t
    BY <1>4 DEF NodesGone
  <2>2. \A a \in PreparedIn(flash') : flash'[a[1]].dirty = flash[a[1]].dirty
    BY <1>3, <1>4, <2>1, LiveFacts, AddrsHold DEF SetTo
  <2>3. LiveNodes' \subseteq LiveNodes /\ PreparedIn(flash') \subseteq LiveNodes'
    BY <1>6, <2>1
  <2>4. QED BY <1>3, <1>6, <2>1, <2>2, <2>3 DEF StoreInv, Clean, KeyOf, ValOf
<1>9. Swept'
  BY <1>1, <1>2, <1>3, <1>4 DEF StoreInv, Swept, SetTo, Sectors
<1>10. pc' \in Quiet
  BY <1>1 DEF Quiet, Outside
<1>11. QED BY <1>7, <1>8, <1>9, <1>10, QuietParts DEF StoreInv

\* The write that commits a node: of a move it changes no variable, of a set
\* the one that is set.
LEMMA CommitStores ==
    ASSUME EnvInv, EnvInv', StoreInv, commit
    PROVE  /\ StoreInv'
           /\ moving => StoredSame
           /\ \A k \in Keys \ Lost :
                 HeldIn(flash', k) = IF k = work.key THEN work.val
                                     ELSE HeldIn(flash, k)
<1>0. PICK l : l = Last
  OBVIOUS
<1>1. /\ pc = "commit"
      /\ pc' = IF work.old = NoAddr THEN "end_set" ELSE "delete"
      /\ work' = work /\ gc' = gc /\ cut' = cut /\ dropped' = dropped
      /\ flash' = Mark(flash, l, "WRITE")
  BY <1>0, Zenon DEF commit, SetStatus, Mark, ghosts
<1>2. loading' <=> loading
  BY TypeFacts, Zenon DEF EnvInv, Basic, commit
<1>3. /\ flash \in Flash /\ l \in AddrsIn(flash) /\ Lost' = Lost
      /\ NodeIn(flash, l).status = "PRE_WRITE"
      /\ NodeIn(flash, l).body = "whole"
      /\ KeyOf(l) = work.key /\ ValOf(l) = work.val
      /\ work.key \in Keys
  BY <1>0, <1>1, TypeFacts DEF EnvInv, Basic, Place, Setting, Copying, Lost
<1>4. /\ flash' \in Flash
      /\ AddrsIn(flash') = AddrsIn(flash)
      /\ SameSectors(flash, flash')
      /\ SameNodes(flash, flash')
      /\ WrittenIn(flash') = WrittenIn(flash) \union {l}
      /\ PreparedIn(flash') = PreparedIn(flash) \ {l}
  <2>1. "WRITE" \in Statuses
    BY DEF Statuses
  <2>2. QED BY <1>1, <1>3, <2>1, Marked
<1>5. /\ l \notin PreparedIn(flash) /\ l \notin WrittenIn(flash)
      /\ PreparedIn(flash') = PreparedIn(flash)
      /\ LiveNodes' = LiveNodes \union {l} /\ LiveNodes \subseteq AddrsIn(flash)
      /\ WrittenIn(flash) \subseteq LiveNodes
      /\ PreparedIn(flash) \subseteq LiveNodes
  BY <1>3, <1>4, LiveFacts DEF PreparedIn, WrittenIn, LiveNodes
<1>6. \A a \in LiveNodes \union {l} :
         KeyIn(flash', a) = KeyOf(a) /\ ValIn(flash', a) = ValOf(a)
  BY <1>3, <1>4, <1>5 DEF SameNodes, KeyOf, ValOf
<1>7. work.key \notin Lost => WrittenOf(flash, work.key) = {}
  BY <1>1 DEF EnvInv, Data, NoneWritten, Copying, WrittenOf, Written, KeyOf
<1>8. ASSUME NEW k \in Keys \ Lost
      PROVE  HeldIn(flash', k) = IF k = work.key THEN work.val
                                 ELSE HeldIn(flash, k)
  <2>1. CASE k # work.key
    <3>1. WrittenOf(flash', k) = WrittenOf(flash, k)
      BY <1>3, <1>4, <1>5, <1>6, <2>1 DEF WrittenOf, KeyOf
    <3>2. PreparedOf(flash', k) = PreparedOf(flash, k)
      BY <1>5, <1>6 DEF PreparedOf, KeyOf
    <3>3. QED BY <1>3, <1>4, <2>1, <3>1, <3>2, SameHeld
  <2>2. CASE k = work.key
    <3>1. WrittenOf(flash', k) = {l}
      BY <1>3, <1>4, <1>5, <1>6, <1>7, <1>8, <2>2 DEF WrittenOf, KeyOf
    <3>2. HeldIn(flash', k) = ValIn(flash', l)
      BY <1>4, <3>1, HeldFacts
    <3>3. QED BY <1>3, <1>6, <2>2, <3>2
  <2>3. QED BY <2>1, <2>2
<1>9. moving /\ work.key \notin Lost => HeldIn(flash, work.key) = work.val
  BY <1>1, <1>7 DEF StoreInv, Right, Copying, WrittenOf, Written, KeyOf
<1>10. moving => StoredSame
  BY <1>3, <1>8, <1>9 DEF StoredSame
<1>11. ASSUME NEW a \in PreparedIn(flash), KeyOf(a) = work.key,
              work.key \notin Lost, flash[a[1]].dirty = "FALSE"
       PROVE  ValOf(a) = work.val
  <2>1. CASE moving
    <3>1. WrittenOf(flash, work.key) = {} /\ a \in PreparedOf(flash, work.key)
      BY <1>7, <1>11 DEF PreparedOf, KeyOf
    <3>2. PICK c \in PreparedOf(flash, work.key) :
              HeldIn(flash, work.key) = ValIn(flash, c)
      BY <1>3, <3>1, HeldFacts
    <3>3. ValOf(a) = ValOf(c)
      BY <1>5, <1>11, <3>2 DEF StoreInv, Clean, PreparedOf, KeyOf
    <3>4. QED BY <1>9, <1>11, <2>1, <3>2, <3>3 DEF ValOf
  <2>2. CASE ~moving
    <3>1. ~loading /\ a = work.old
      BY <1>1, <1>11, <2>2 DEF EnvInv, Data, OnePrepared, moving
    <3>2. work.old # NoAddr
      BY <1>3, <1>5, <1>11, <3>1, AddrsHold
    <3>3. QED BY <1>1, <1>11, <2>2, <3>1, <3>2
          DEF StoreInv, OldMarked, Copying
  <2>3. QED BY <2>1, <2>2
<1>12. Clean'
  <2>1. SUFFICES ASSUME NEW a \in PreparedIn(flash), NEW b \in LiveNodes \union {l},
                        flash'[a[1]].dirty = "FALSE",
                        KeyOf(a) = KeyOf(b), KeyOf(a) \notin Lost
                 PROVE  ValOf(a) = ValOf(b)
    BY <1>3, <1>5, <1>6 DEF Clean, KeyOf, ValOf
  <2>2. flash[a[1]].dirty = "FALSE"
    BY <1>3, <1>4, <1>5, <2>1, AddrsHold DEF SameSectors
  <2>3. CASE b = l
    BY <1>3, <1>11, <2>1, <2>2, <2>3
  <2>4. CASE b \in LiveNodes
    BY <2>1, <2>2, <2>4 DEF StoreInv, Clean
  <2>5. QED BY <2>1, <2>3, <2>4
<1>13. Left'
  <2>1. SUFFICES ASSUME Collecting', NEW a \in LiveNodes \union {l},
                        KeyOf(a) \notin Lost, a[1] = gc.sec
                 PROVE  a[2] >= gc.pos \/ a = work.old
    BY <1>1, <1>3, <1>5, <1>6 DEF Left, KeyOf, Collecting, Moves
  <2>2. Collecting
    BY <1>1, <2>1 DEF Collecting, Moves, Copying
  <2>3. a # l
    BY <1>0, <1>1, <2>1, <2>2
       DEF EnvInv, Basic, Place, Collecting, Copying, Last
  <2>4. QED BY <2>1, <2>2, <2>3 DEF StoreInv, Left
<1>14. Right' /\ OldMarked'
  BY <1>1 DEF Right, OldMarked, Copying
<1>15. Swept'
  BY <1>1, <1>4 DEF StoreInv, Swept, SameSectors
<1>16. QED BY <1>8, <1>10, <1>12, <1>13, <1>14, <1>15 DEF StoreInv

-----------------------------------------------------------------------------
(* All steps together, and the requests.                                   *)

LEMMA StutterStores ==
    ASSUME EnvInv, StoreInv, UNCHANGED vars
    PROVE  StoreInv' /\ StoredSame
<1>1. /\ flash' = flash /\ pc' = pc /\ request' = request /\ work' = work
      /\ gc' = gc /\ cut' = cut /\ dropped' = dropped
  BY DEF vars
<1>2. loading' <=> loading
  BY TypeFacts, Zenon DEF vars, EnvInv, Basic
<1>3. /\ Written' = Written /\ LiveNodes' = LiveNodes
      /\ \A a : KeyOf(a)' = KeyOf(a) /\ ValOf(a)' = ValOf(a)
  BY <1>1 DEF Written, LiveNodes, KeyOf, ValOf
<1>4. (moving' <=> moving) /\ (Collecting' <=> Collecting) /\ Lost' = Lost
  BY <1>1, <1>2 DEF moving, Collecting, Lost
<1>5. Left' /\ Clean' /\ Swept'
  BY <1>1, <1>3, <1>4 DEF StoreInv, Left, Clean, Swept
<1>6. Right' /\ OldMarked'
  BY <1>1, <1>3, <1>4 DEF StoreInv, Right, OldMarked
<1>7. StoredSame
  BY <1>1 DEF StoredSame
<1>8. QED BY <1>5, <1>6, <1>7 DEF StoreInv

\* Every step keeps StoreInv, and none but the commit of a set changes a
\* variable.
LEMMA StepStores ==
    ASSUME EnvInv, EnvInv', StoreInv, [Next]_vars
    PROVE  StoreInv' /\ (StoredSame \/ (commit /\ ~moving))
<1>1. CASE \/ \E k \in Keys : Get(k)
           \/ \E k \in Keys, v \in Vals : Set(k, v)
           \/ end_set \/ gc_check \/ recovered \/ ef_load_env \/ PowerFails
  BY <1>1, StillStores
<1>2. CASE new_env
  BY <1>2, NewEnvStores
<1>3. CASE prepare
  BY <1>3, PrepareStores
<1>4. CASE dirty
  BY <1>4, DirtyStores
<1>5. CASE update_sec_status
  BY <1>5, UpdateSecStatusStores
<1>6. CASE pre_write
  BY <1>6, PreWriteStores
<1>7. CASE write_header \/ write_value
  BY <1>7, BodyStores
<1>8. CASE commit
  BY <1>8, CommitStores
<1>9. CASE delete
  BY <1>9, DeleteStores
<1>10. CASE gc_sector
  BY <1>10, GcSectorStores
<1>11. CASE gc_node
  BY <1>11, GcNodeStores
<1>12. CASE move_env
  BY <1>12, MoveEnvStores
<1>13. CASE erase
  BY <1>13, EraseStores
<1>14. CASE format
  BY <1>14, FormatStores
<1>15. CASE check_headers
  BY <1>15, CheckHeadersStores
<1>16. CASE recover
  BY <1>16, RecoverStores
<1>17. CASE UNCHANGED vars
  BY <1>17, StutterStores
<1>18. QED
  BY <1>1, <1>2, <1>3, <1>4, <1>5, <1>6, <1>7, <1>8, <1>9, <1>10, <1>11, <1>12,
     <1>13, <1>14, <1>15, <1>16, <1>17, Zenon DEF Next, Step

\* Between two sets there is no request.
Calling ==
    /\ pc = "idle" => request.key \notin Keys
    /\ /\ pc \in {"gc", "gc_sector", "gc_node", "erase", "format"} \/ gc.sec # 0
       /\ gc.back = "idle"
       => request.key \notin Keys

LEMMA CallingKept ==
    ASSUME EnvInv, Calling, [Next]_vars
    PROVE  Calling'
<1>1. NoRequest.key \notin Keys
  BY EnvAssumption DEF NoRequest
<1>2. CASE \E k \in Keys : Get(k)
  BY <1>2 DEF Get, idle, Calling
<1>3. CASE \E k \in Keys, v \in Vals : Set(k, v)
  BY <1>3 DEF Set, idle, Calling, EnvInv, Basic, Control
<1>4. CASE new_env
  <2>1. pc = "new_env" /\ gc.sec = 0
    BY <1>4 DEF new_env, EnvInv, Basic, Control
  <2>2. \/ gc' = gc /\ pc' \in {"sector", "prepare"}
        \/ gc' = [NoGC EXCEPT !.back = "new_env"] /\ pc' = "gc"
        \/ gc' = gc /\ request' = NoRequest /\ pc' = "idle"
    BY <1>4 DEF new_env
  <2>3. QED BY <1>1, <2>1, <2>2 DEF Calling, NoGC
<1>5. CASE prepare \/ dirty \/ update_sec_status \/ pre_write
  BY <1>5 DEF prepare, dirty, update_sec_status, pre_write, Calling
<1>6. CASE write_header \/ write_value \/ commit
  BY <1>6, Zenon DEF write_header, write_value, commit, Calling
<1>7. CASE delete
  BY <1>7 DEF delete, Calling
<1>8. CASE end_set
  BY <1>1, <1>8, Zenon DEF end_set, Calling
<1>9. CASE gc_check
  <2>1. \/ gc' = [gc EXCEPT !.sec = 1] /\ pc' = "gc_sector"
        \/ gc' = NoGC /\ pc' = gc.back
    BY <1>9 DEF gc_check, gc_end
  <2>2. pc = "gc" /\ request' = request /\ gc.back \in {"recover", "new_env", "idle"}
    BY <1>9 DEF gc_check, EnvInv, Basic, Control
  <2>3. QED BY <2>1, <2>2 DEF Calling, NoGC, EnvInv, Basic, TypeOK
<1>10. CASE gc_sector
  <2>1. \/ gc' = NoGC /\ pc' = gc.back
        \/ gc' = [gc EXCEPT !.pos = 1] /\ pc' = "gc_node"
        \/ gc' = [gc EXCEPT !.sec = gc.sec + 1] /\ pc' = pc
    BY <1>10 DEF gc_sector, gc_end
  <2>2. /\ pc = "gc_sector" /\ request' = request
        /\ gc.back \in {"recover", "new_env", "idle"}
    BY <1>10 DEF gc_sector, EnvInv, Basic, Control
  <2>3. QED BY <2>1, <2>2 DEF Calling, NoGC, EnvInv, Basic, TypeOK
<1>11. CASE gc_node
  <2>1. /\ pc = "gc_node" /\ pc' \in {"erase", "move"} /\ request' = request
        /\ gc' = gc \/ \E i : gc' = [gc EXCEPT !.pos = i]
    BY <1>11, Zenon DEF gc_node
  <2>2. gc'.back = gc.back
    BY <2>1 DEF EnvInv, Basic, TypeOK
  <2>3. QED BY <2>1, <2>2 DEF Calling
<1>12. CASE move_env
  <2>1. /\ pc' \in {"gc_node", "recovered", "sector", "delete"}
        /\ gc' = gc /\ request' = request
        /\ pc' = "gc_node" => gc.sec # 0
    BY <1>12, Zenon DEF move_env
  <2>2. QED BY <2>1 DEF Calling
<1>13. CASE erase
  BY <1>13 DEF erase, Calling
<1>14. CASE format
  <2>1. gc'.back = gc.back
    BY <1>14 DEF format, EnvInv, Basic, TypeOK
  <2>2. QED BY <1>14, <2>1 DEF format, Calling
<1>15. CASE ef_load_env \/ check_headers \/ recover \/ recovered
  <2>1. request' = request /\ request.key \notin Keys
    BY <1>15 DEF ef_load_env, check_headers, recover, recovered,
                 EnvInv, Basic, Control
  <2>2. QED BY <2>1 DEF Calling
<1>16. CASE PowerFails
  BY <1>1, <1>16, Zenon DEF PowerFails, Calling
<1>17. CASE UNCHANGED vars
  BY <1>17 DEF vars, Calling
<1>18. QED
  BY <1>2, <1>3, <1>4, <1>5, <1>6, <1>7, <1>8, <1>9, <1>10, <1>11, <1>12,
     <1>13, <1>14, <1>15, <1>16, <1>17, Zenon DEF Next, Step

LEMMA StoresHold == Spec => [](EnvInv /\ StoreInv /\ Calling)
<1>1. Init => Calling
  BY EnvAssumption DEF Init, Calling, NoRequest, NoGC
<1>2. EnvInv /\ StoreInv /\ Calling /\ [Next]_vars
         => EnvInv' /\ StoreInv' /\ Calling'
  BY NextKeeps, StepStores, CallingKept
<1>3. QED BY <1>1, <1>2, Start, StartStores, PTL DEF Spec

-----------------------------------------------------------------------------
(* The refinement.                                                         *)

\* What the abstract store and its set under way are.
ShownHeld ==
    shown = [k \in Keys |-> IF k \in Lost THEN Absent ELSE HeldIn(flash, k)]

AskedHeld ==
    /\ request.key \in Keys =>
          asked = [key |-> request.key, val |-> request.val, taken |-> taken]
    /\ request.key \notin Keys => asked = Store!NoSet

LEMMA ShownTells == flash \in Flash => ShownHeld
  BY StoredIsHeld DEF shown, ShownHeld

LEMMA AskedTells == AskedHeld
  BY DEF asked, AskedHeld, Store!NoSet

\* A step that changes no variable that is not lost, and no request.
LEMMA SameIsLose ==
    ASSUME EnvInv, EnvInv', StoredSame, Lost \subseteq Lost', asked' = asked,
           ShownHeld, ShownHeld'
    PROVE  Store!Lose
<1>1. PICK S : S = Lost' \ Lost
  OBVIOUS
<1>2. S \in SUBSET Keys /\ Lost' = Lost \union S
  BY <1>1 DEF Lost, EnvInv, Basic, TypeOK
<1>3. shown' = [k \in Keys |-> IF k \in S THEN Absent ELSE shown[k]]
  BY <1>1 DEF StoredSame, ShownHeld
<1>4. QED BY <1>2, <1>3 DEF Store!Lose

\* What is asked for, in the steps of a set.
LEMMA AskedFacts ==
    /\ request.key \in Keys =>
          /\ asked = [key |-> request.key, val |-> request.val, taken |-> taken]
          /\ asked # Store!NoSet
          /\ asked.taken = taken
    /\ request.key \notin Keys => asked = Store!NoSet
  BY EnvAssumption DEF asked, Store!NoSet

\* Where a set has taken effect: only a commit enters, only its end and a
\* power failure leave.
LEMMA TakenStays ==
    ASSUME EnvInv, EnvInv', [Next]_vars, ~(commit /\ ~moving), ~end_set,
           ~PowerFails
    PROVE  taken' = taken
<1>1. CASE commit
  <2>1. moving' /\ moving
    <3>1. loading' <=> loading
      BY <1>1, TypeFacts, Zenon DEF EnvInv, Basic, commit
    <3>2. QED BY <1>1, <3>1 DEF commit, moving
  <2>2. QED BY <2>1 DEF taken
<1>2. CASE delete
  <2>1. /\ pc = "delete" /\ gc' = gc /\ (loading' <=> loading)
        /\ ~moving => pc' = "end_set"
        /\ moving => pc' \in {"gc_node", "dirty_moved", "recover"}
    <3>1. loading' <=> loading
      BY <1>2, TypeFacts, Zenon DEF EnvInv, Basic, delete
    <3>2. QED BY <1>2, <3>1, Zenon DEF delete
  <2>2. QED BY <2>1 DEF taken, moving
<1>3. CASE move_env
  <2>1. pc = "move" /\ gc' = gc /\ (loading' <=> loading)
    BY <1>3, TypeFacts, Zenon DEF EnvInv, Basic, move_env
  <2>2. moving /\ moving'
    BY <2>1 DEF EnvInv, Basic, Control, moving
  <2>3. QED BY <2>2 DEF taken
<1>4. CASE UNCHANGED vars \/ \E k \in Keys : Get(k)
  <2>1. pc' = pc /\ gc' = gc
    BY <1>4 DEF vars, Get
  <2>2. loading' <=> loading
    <3>1. CASE UNCHANGED vars
      BY <3>1, TypeFacts, Zenon DEF EnvInv, Basic, vars
    <3>2. CASE \E k \in Keys : Get(k)
      <4>1. PICK k \in Keys : Get(k)
        BY <3>2
      <4>2. QED BY <4>1, TypeFacts, Zenon DEF EnvInv, Basic, Get
    <3>3. QED BY <1>4, <3>1, <3>2
  <2>3. QED BY <2>1, <2>2 DEF taken, moving
<1>5. CASE \/ \E k \in Keys, v \in Vals : Set(k, v)
           \/ new_env \/ prepare \/ dirty \/ update_sec_status \/ pre_write
           \/ write_header \/ write_value
  BY <1>5 DEF Set, idle, new_env, prepare, dirty, update_sec_status, pre_write,
              write_header, write_value, taken
<1>6. CASE gc_check \/ gc_sector \/ gc_node \/ erase \/ format
  <2>1. /\ pc \notin {"delete", "end_set"}
        /\ \/ pc' \in {"gc_sector", "gc_node", "move", "erase", "format"}
           \/ pc' = gc.back
    BY <1>6, Zenon DEF gc_check, gc_sector, gc_node, erase, format, gc_end
  <2>2. gc.back \notin {"delete", "end_set"}
    BY DEF EnvInv, Basic, TypeOK
  <2>3. QED BY <2>1, <2>2 DEF taken
<1>7. CASE ef_load_env \/ check_headers \/ recover \/ recovered
  BY <1>7 DEF ef_load_env, check_headers, recover, recovered, taken
<1>8. QED
  BY <1>1, <1>2, <1>3, <1>4, <1>5, <1>6, <1>7, Zenon DEF Next, Step

\* Only a call makes a request, and only its answer and a power failure take
\* it back.
LEMMA RequestStays ==
    ASSUME EnvInv, [Next]_vars, ~end_set, ~PowerFails,
           ~\E k \in Keys, v \in Vals : Set(k, v),
           ~(new_env /\ request' = NoRequest)
    PROVE  request'.key = request.key /\ request'.val = request.val
<1>1. CASE new_env
  <2>1. request' \in {request, [request EXCEPT !.collected = TRUE]}
    BY <1>1 DEF new_env
  <2>2. QED BY <2>1 DEF EnvInv, Basic, TypeOK
<1>2. CASE UNCHANGED vars \/ \E k \in Keys : Get(k)
  BY <1>2 DEF vars, Get
<1>3. CASE \/ prepare \/ dirty \/ update_sec_status \/ pre_write
           \/ write_header \/ write_value \/ commit \/ delete
  BY <1>3 DEF prepare, dirty, update_sec_status, pre_write, write_header,
              write_value, commit, delete
<1>4. CASE gc_check \/ gc_sector \/ gc_node \/ move_env \/ erase \/ format
  BY <1>4 DEF gc_check, gc_sector, gc_node, move_env, erase, format
<1>5. CASE ef_load_env \/ check_headers \/ recover \/ recovered
  BY <1>5 DEF ef_load_env, check_headers, recover, recovered
<1>6. QED BY <1>1, <1>2, <1>3, <1>4, <1>5, Zenon DEF Next, Step

LEMMA LostStays ==
    ASSUME [Next]_vars
    PROVE  /\ Lost \subseteq Lost'
           /\ ~recovered /\ ~move_env => Lost' = Lost
<1>1. CASE \/ \E k \in Keys : Get(k)
           \/ \E k \in Keys, v \in Vals : Set(k, v)
           \/ new_env \/ end_set \/ PowerFails \/ UNCHANGED vars
  BY <1>1 DEF Get, Set, new_env, end_set, PowerFails, vars, ghosts, Lost
<1>2. CASE \/ prepare \/ dirty \/ update_sec_status \/ pre_write
           \/ write_header \/ write_value \/ commit \/ delete
  BY <1>2 DEF prepare, dirty, update_sec_status, pre_write, write_header,
              write_value, commit, delete, ghosts, Lost
<1>3. CASE gc_check \/ gc_sector \/ gc_node \/ erase \/ format
  BY <1>3 DEF gc_check, gc_sector, gc_node, erase, format, ghosts, Lost
<1>4. CASE ef_load_env \/ check_headers \/ recover
  BY <1>4 DEF ef_load_env, check_headers, recover, ghosts, Lost
<1>5. CASE move_env
  BY <1>5 DEF move_env, Lost
<1>6. CASE recovered
  <2>1. dropped' = dropped /\ cut \subseteq cut'
    BY <1>6 DEF recovered
  <2>2. QED BY <1>6, <2>1 DEF Lost
<1>7. QED BY <1>1, <1>2, <1>3, <1>4, <1>5, <1>6, Zenon DEF Next, Step

\* Each step is one of the abstract store.
LEMMA StepRefines ==
    ASSUME EnvInv, EnvInv', StoreInv, Calling, [Next]_vars,
           ShownHeld, ShownHeld', AskedHeld'
    PROVE  Store!Next
<1>0. NoRequest.key \notin Keys
  BY EnvAssumption DEF NoRequest
<1>1. StoredSame \/ (commit /\ ~moving)
  BY StepStores
<1>2. StoredSame /\ Lost' = Lost => shown' = shown
  BY DEF StoredSame, ShownHeld
<1>3. ASSUME NEW k \in Keys, NEW v \in Vals, Set(k, v)
      PROVE  Store!Begin(k, v)
  <2>1. asked = Store!NoSet
    BY <1>3, AskedFacts DEF Set, idle, Calling
  <2>2. asked' = [key |-> k, val |-> v, taken |-> FALSE]
    BY <1>3 DEF Set, taken, AskedHeld
  <2>3. StoredSame /\ Lost' = Lost
    BY <1>1, <1>3, LostStays DEF Set, idle, commit, recovered, move_env
  <2>4. QED BY <1>2, <2>1, <2>2, <2>3 DEF Store!Begin
<1>4. CASE new_env /\ request' = NoRequest
  <2>1. asked' = Store!NoSet /\ pc = "new_env"
    BY <1>0, <1>4 DEF new_env, AskedHeld
  <2>2. asked # Store!NoSet /\ ~asked.taken
    BY <2>1, AskedFacts DEF EnvInv, Basic, Control, taken
  <2>3. StoredSame /\ Lost' = Lost
    BY <1>1, <2>1, LostStays DEF commit, recovered, move_env
  <2>4. Store!GiveUp
    BY <1>2, <2>1, <2>2, <2>3 DEF Store!GiveUp
  <2>5. QED BY <2>4 DEF Store!Next
<1>5. CASE end_set
  <2>1. asked' = Store!NoSet /\ pc = "end_set"
    BY <1>0, <1>5 DEF end_set, AskedHeld
  <2>2. taken /\ request.key \in Keys
    BY <2>1 DEF EnvInv, Basic, Control, Place, Setting, taken, moving
  <2>3. StoredSame /\ Lost' = Lost
    BY <1>1, <2>1, LostStays DEF commit, recovered, move_env
  <2>4. Store!End
    BY <1>2, <2>1, <2>2, <2>3, AskedFacts DEF Store!End
  <2>5. QED BY <2>4 DEF Store!Next
<1>6. CASE commit /\ ~moving
  <2>1. /\ pc = "commit" /\ pc' \in {"end_set", "delete"}
        /\ gc' = gc /\ request' = request
    BY <1>6 DEF commit
  <2>2. request.key \in Keys /\ work.key = request.key /\ work.val = request.val
    BY <1>6, <2>1 DEF EnvInv, Basic, Place, Setting, Copying
  <2>3. ~taken /\ taken'
    <3>1. loading' <=> loading
      BY <1>6, TypeFacts, Zenon DEF EnvInv, Basic, commit
    <3>2. QED BY <1>6, <2>1, <3>1 DEF taken, moving
  <2>4. /\ asked = [key |-> request.key, val |-> request.val, taken |-> FALSE]
        /\ asked' = [key |-> request.key, val |-> request.val, taken |-> TRUE]
        /\ asked # Store!NoSet
    BY <2>1, <2>2, <2>3, AskedFacts DEF AskedHeld
  <2>5. Lost' = Lost
    BY <2>1, LostStays DEF recovered, move_env
  <2>6. \A k \in Keys \ Lost : HeldIn(flash', k) =
            IF k = request.key THEN request.val ELSE HeldIn(flash, k)
    BY <1>6, <2>2, CommitStores
  <2>7. shown' = [k \in Keys |-> IF k = asked.key /\ k \notin Lost
                                 THEN asked.val ELSE shown[k]]
    BY <2>4, <2>5, <2>6 DEF ShownHeld
  <2>8. Store!Take
    <3>1. ~asked.taken /\ asked' = [asked EXCEPT !.taken = TRUE]
      <4>1. PICK t, u : t = FALSE /\ u = TRUE
        OBVIOUS
      <4>2. [[key |-> request.key, val |-> request.val, taken |-> t]
                EXCEPT !.taken = u]
              = [key |-> request.key, val |-> request.val, taken |-> u]
        OBVIOUS
      <4>3. asked' = [asked EXCEPT !.taken = TRUE]
        BY <2>4, <4>1, <4>2, Zenon
      <4>4. QED BY <2>2, <2>3, <4>3, AskedFacts, Zenon
    <3>2. QED BY <2>4, <2>5, <2>7, <3>1, Zenon DEF Store!Take
  <2>9. QED BY <2>8 DEF Store!Next
<1>7. CASE PowerFails
  <2>1. asked' = Store!NoSet
    BY <1>0, <1>7 DEF PowerFails, AskedHeld
  <2>2. pc' = "off" /\ pc # "off"
    BY <1>7 DEF PowerFails
  <2>3. flash' = flash
    BY <1>7 DEF PowerFails
  <2>4. StoredSame /\ Lost' = Lost
    BY <1>7, <2>3 DEF StoredSame, PowerFails, Lost
  <2>5. CASE request.key \notin Keys
    <3>1. Store!Lose
      BY <2>1, <2>4, <2>5, AskedFacts, SameIsLose
    <3>2. QED BY <3>1 DEF Store!Next
  <2>6. CASE request.key \in Keys /\ taken
    <3>1. Store!End
      BY <1>2, <2>1, <2>4, <2>6, AskedFacts DEF Store!End
    <3>2. QED BY <3>1 DEF Store!Next
  <2>7. CASE request.key \in Keys /\ ~taken
    <3>1. Store!GiveUp
      BY <1>2, <2>1, <2>4, <2>7, AskedFacts DEF Store!GiveUp
    <3>2. QED BY <3>1 DEF Store!Next
  <2>8. QED BY <2>5, <2>6, <2>7
<1>8. CASE /\ ~end_set /\ ~PowerFails /\ ~(new_env /\ request' = NoRequest)
           /\ ~(commit /\ ~moving)
           /\ ~\E k \in Keys, v \in Vals : Set(k, v)
  <2>1. /\ request'.key = request.key /\ request'.val = request.val
        /\ taken' = taken
    BY <1>8, RequestStays, TakenStays
  <2>2. asked' = asked
    BY <2>1, AskedFacts DEF AskedHeld
  <2>3. Store!Lose
    BY <1>1, <1>8, <2>2, LostStays, SameIsLose
  <2>4. QED BY <2>3 DEF Store!Next
<1>9. CASE \E k \in Keys, v \in Vals : Set(k, v)
  BY <1>3, <1>9 DEF Store!Next
<1>10. QED BY <1>4, <1>5, <1>6, <1>7, <1>8, <1>9

LEMMA InitRefines == Init => Store!Init
<1> SUFFICES ASSUME Init PROVE Store!Init
  OBVIOUS
<1>1. flash \in Flash
  BY Start, TypeFacts DEF EnvInv, Basic
<1>2. Formatted.nodes = << >>
  BY DEF Formatted, Erased
<1>3. AddrsIn(flash) = {}
  BY <1>2 DEF AddrsIn, Init, Sectors
<1>4. \A k : HeldIn(flash, k) = Absent
  BY <1>3 DEF HeldIn, WrittenOf, PreparedOf, WrittenIn, PreparedIn
<1>5. Lost = {}
  BY DEF Init, Lost
<1>6. shown = [k \in Keys |-> Absent]
  BY <1>1, <1>4, ShownTells DEF ShownHeld
<1>7. request.key \notin Keys
  BY EnvAssumption DEF Init, NoRequest
<1>8. QED BY <1>5, <1>6, <1>7, AskedFacts DEF Store!Init

-----------------------------------------------------------------------------
(* The reserve.                                                            *)

\* What the theorem asks for: no set is refused as full, and the power does
\* not fail while a collection has the last empty sector in use.
Spared == /\ new_env => pc' # "idle"
          /\ PowerFails => EmptySectors # {}

EmptyIn(f) == {s \in Sectors : f[s].ok /\ f[s].store = "EMPTY"}

\* A sector a collection can move to has n nodes less than p, or fewer.
RoomIn(f, n, p) ==
    \E u \in Sectors : /\ f[u].ok /\ f[u].store = "USING"
                       /\ f[u].dirty = "FALSE"
                       /\ Len(f[u].nodes) + n <= p

Blank(f) == \A s \in Sectors : f[s].store = "EMPTY" =>
                Len(f[s].nodes) = 0 /\ f[s].dirty = "FALSE"

\* The sector a node is appended to is not marked as empty any more.
Opened == pc = "pre_write" => flash[work.sec].store # "EMPTY"

\* Outside a collection only the end of a set, or of a recovery that found
\* no room, has one asked for;
Unasked ==
    /\ pc \in {"idle", "new_env", "off", "headers", "recover", "dirty_moved"}
         => ~gc_request
    /\ loading /\ gc.sec = 0 /\ pc \in Moves => ~gc_request

\* in one it is always asked for.
AskedFor == pc \in {"gc", "gc_sector", "gc_node", "erase", "format"}
            \/ gc.sec # 0 => gc_request

\* Outside a collection there is an empty sector that is not about to be used.
Spare ==
    /\ gc.sec = 0 \/ pc = "gc_sector" => EmptyIn(flash) # {}
    /\ pc \in {"prepare", "dirty", "sector"} /\ gc.sec = 0
         => \E e \in EmptyIn(flash) : e # work.sec

\* In one there is, or a sector with room for what is left of the one that
\* is collected.
Roomy ==
    /\ pc \in {"move", "sector"} /\ gc.sec # 0
         => EmptyIn(flash) # {} \/ RoomIn(flash, 2, gc.pos)
    /\ pc = "pre_write" /\ gc.sec # 0
         => \/ EmptyIn(flash) # {} \/ RoomIn(flash, 2, gc.pos)
            \/ gc.pos > Cap
    /\ pc \in {"header", "value", "commit", "delete", "gc_node"} /\ gc.sec # 0
         => \/ EmptyIn(flash) # {} \/ RoomIn(flash, 1, gc.pos)
            \/ gc.pos > Cap

ReserveInv == /\ Blank(flash) /\ Opened /\ Unasked /\ AskedFor
              /\ Spare /\ Roomy /\ dropped = {}

\* No sector differs but in what its nodes hold.
SameShape(f, g) ==
    \A s \in Sectors : /\ g[s].ok = f[s].ok /\ g[s].store = f[s].store
                       /\ g[s].dirty = f[s].dirty
                       /\ Len(g[s].nodes) = Len(f[s].nodes)

LEMMA ShapeTells ==
    ASSUME NEW f, NEW g, SameShape(f, g)
    PROVE  /\ EmptyIn(g) = EmptyIn(f)
           /\ Blank(f) => Blank(g)
           /\ \A n, p : RoomIn(f, n, p) => RoomIn(g, n, p)
  BY DEF SameShape, EmptyIn, Blank, RoomIn

LEMMA MarkedShape ==
    ASSUME NEW f \in Flash, NEW a \in AddrsIn(f), NEW st \in Statuses,
           NEW g, g = Mark(f, a, st)
    PROVE  SameShape(f, g)
<1>1. SameSectors(f, g)
  BY Marked
<1>2. \A s \in Sectors : g[s].store = f[s].store
  BY AddrsHold DEF Mark, Flash, Sector
<1>3. QED BY <1>1, <1>2 DEF SameSectors, SameShape

LEMMA FilledShape ==
    ASSUME NEW f \in Flash, NEW a \in AddrsIn(f),
           NodeIn(f, a).status = "PRE_WRITE",
           NEW bd \in {"none", "header", "whole"},
           NEW g, g = Fill(f, a, bd)
    PROVE  SameShape(f, g)
<1>1. SameSectors(f, g)
  BY Bodied
<1>2. \A s \in Sectors : g[s].store = f[s].store
  BY AddrsHold DEF Fill, Flash, Sector
<1>3. QED BY <1>1, <1>2 DEF SameSectors, SameShape

\* What alloc_env answers, and when it answers.
LEMMA AllocSpares ==
    ASSUME EnvInv, Blank(flash)
    PROVE  /\ alloc_env.sec # 0 /\ ~gc_request =>
                 /\ alloc_env.request = gc_request
                 /\ EmptyIn(flash) # {} =>
                       \E e \in EmptyIn(flash) : e # alloc_env.sec
           /\ EmptyIn(flash) # {} => alloc_env.sec # 0 \/ alloc_env.request
           /\ gc_request => /\ alloc_env.request
                            /\ \/ EmptyIn(flash) # {}
                               \/ RoomIn(flash, 1, Cap)
                               => alloc_env.sec # 0
<1>1. flash \in Flash /\ gc_request \in BOOLEAN
  BY TypeFacts DEF EnvInv, Basic
<1> DEFINE u == Allocatable("USING")
<1> DEFINE e == Allocatable("EMPTY")
<1>2. \A store : /\ Allocatable(store) \subseteq Sectors
                 /\ \A s \in Allocatable(store) :
                       flash[s].ok /\ flash[s].store = store
  BY DEF Allocatable
<1>3. \A store : Allocatable(store) # {} =>
           /\ Least(Allocatable(store)) \in Allocatable(store)
           /\ Least(Allocatable(store)) # 0
  <2>1. SUFFICES ASSUME NEW store, Allocatable(store) # {}
                 PROVE  /\ Least(Allocatable(store)) \in Allocatable(store)
                        /\ Least(Allocatable(store)) # 0
    OBVIOUS
  <2>2. Allocatable(store) \subseteq Nat /\ 0 \notin Allocatable(store)
    BY <1>2 DEF Sectors
  <2>3. QED BY <2>1, <2>2, LeastIsLeast
<1>4. EmptyIn(flash) = EmptySectors
  BY DEF EmptyIn, EmptySectors
<1>5. \/ alloc_env.sec = Least(u) /\ u # {} /\ alloc_env.request = gc_request
      \/ /\ alloc_env.sec = Least(e) /\ e # {} /\ alloc_env.request = gc_request
         /\ u = {} /\ (Cardinality(EmptySectors) > 1 \/ gc_request)
      \/ /\ alloc_env.sec = 0 /\ u = {}
         /\ e = {} \/ ~gc_request
         /\ alloc_env.request = (gc_request \/ EmptySectors # {})
  BY Zenon DEF alloc_env, Threshold
<1>6. ASSUME alloc_env.sec # 0, ~gc_request, EmptyIn(flash) # {}
      PROVE  \E x \in EmptyIn(flash) : x # alloc_env.sec
  <2>1. CASE alloc_env.sec = Least(u) /\ u # {}
    BY <1>2, <1>3, <1>6, <2>1 DEF EmptyIn
  <2>2. CASE Cardinality(EmptySectors) > 1
    <3>1. ASSUME \A x \in EmptySectors : x = alloc_env.sec PROVE FALSE
      <4>1. EmptySectors = {alloc_env.sec}
        BY <1>4, <1>6, <3>1
      <4>2. Cardinality(EmptySectors) = 1
        BY <4>1, FS_Singleton
      <4>3. QED BY <2>2, <4>2
    <3>2. QED BY <1>4, <3>1
  <2>3. QED BY <1>5, <1>6, <2>1, <2>2
<1>7. ASSUME gc_request, EmptyIn(flash) # {} PROVE e # {}
  <2>1. PICK x \in Sectors : flash[x].ok /\ flash[x].store = "EMPTY"
    BY <1>7 DEF EmptyIn
  <2>2. Len(flash[x].nodes) = 0 /\ flash[x].dirty = "FALSE"
    BY <2>1 DEF Blank
  <2>3. x \in e
    BY <2>1, <2>2, EnvAssumption DEF Allocatable
  <2>4. QED BY <2>3
<1>8. ASSUME RoomIn(flash, 1, Cap) PROVE u # {}
  <2>1. PICK x \in Sectors : /\ flash[x].ok /\ flash[x].store = "USING"
                             /\ flash[x].dirty = "FALSE"
                             /\ Len(flash[x].nodes) + 1 <= Cap
    BY <1>8 DEF RoomIn
  <2>2. Len(flash[x].nodes) < Cap
    BY <1>1, <2>1, SectorHolds, EnvAssumption DEF Flash
  <2>3. x \in u
    BY <2>1, <2>2 DEF Allocatable
  <2>4. QED BY <2>3
<1>9. alloc_env.sec # 0 /\ ~gc_request => alloc_env.request = gc_request
  BY <1>5
<1>10. EmptyIn(flash) # {} => alloc_env.sec # 0 \/ alloc_env.request
  BY <1>3, <1>4, <1>5, Zenon
<1>11. gc_request => alloc_env.request
  BY <1>5, Zenon
<1>12. gc_request /\ (EmptyIn(flash) # {} \/ RoomIn(flash, 1, Cap))
          => alloc_env.sec # 0
  BY <1>3, <1>5, <1>7, <1>8, Zenon
<1>13. QED BY <1>6, <1>9, <1>10, <1>11, <1>12

LEMMA SameFlash == SameShape(flash, flash)
  BY DEF SameShape

\* The steps that leave the sectors as they are, by where they go.
LEMMA QuietReserve ==
    ASSUME EnvInv, ReserveInv, SameShape(flash, flash'), dropped' = dropped,
           gc'.sec = 0,
           EmptyIn(flash) # {},
           pc' \in {"idle", "new_env", "gc", "off", "headers", "recover",
                    "recovered", "dirty_moved", "end_set"},
           pc' \in {"idle", "new_env", "off", "headers", "recover",
                    "dirty_moved"} => ~gc_request',
           pc' = "gc" => gc_request'
    PROVE  ReserveInv'
<1>1. EmptyIn(flash') = EmptyIn(flash) /\ Blank(flash')
  BY ShapeTells DEF ReserveInv
<1>2. Opened' /\ Unasked' /\ AskedFor' /\ Spare' /\ Roomy'
  BY <1>1 DEF Opened, Unasked, AskedFor, Spare, Roomy, Moves, Copying
<1>3. QED BY <1>1, <1>2 DEF ReserveInv

LEMMA CallReserve ==
    ASSUME EnvInv, ReserveInv, Spared,
           \/ \E k \in Keys : Get(k)
           \/ \E k \in Keys, v \in Vals : Set(k, v)
           \/ end_set \/ (gc_check /\ gc'.sec = 0)
           \/ recovered \/ ef_load_env \/ PowerFails
    PROVE  ReserveInv'
<1>1. flash' = flash /\ dropped' = dropped
  BY DEF Get, Set, end_set, gc_check, recovered, ef_load_env, PowerFails, ghosts
<1>2. EmptyIn(flash) # {}
  <2>1. CASE PowerFails
    BY <2>1 DEF Spared, EmptyIn, EmptySectors
  <2>2. CASE ~PowerFails
    <3>1. gc.sec = 0
      BY <2>2 DEF Get, Set, idle, end_set, gc_check, recovered, ef_load_env,
                  EnvInv, Basic, Control
    <3>2. QED BY <3>1 DEF ReserveInv, Spare
  <2>3. QED BY <2>1, <2>2
<1>3. CASE \E k \in Keys : Get(k)
  <2>1. pc' = "idle" /\ gc' = gc /\ ~gc_request /\ gc.sec = 0
    BY <1>3 DEF Get, idle, ReserveInv, Unasked, EnvInv, Basic, Control
  <2>2. ~gc_request'
    <3>1. PICK k \in Keys : Get(k)
      BY <1>3
    <3>2. QED BY <2>1, <3>1, Zenon DEF Get
  <2>3. QED BY <1>1, <1>2, <2>1, <2>2, SameFlash, QuietReserve
<1>4. CASE \E k \in Keys, v \in Vals : Set(k, v)
  <2>1. pc' = "new_env" /\ gc' = gc /\ ~gc_request /\ gc.sec = 0
    BY <1>4 DEF Set, idle, ReserveInv, Unasked, EnvInv, Basic, Control
  <2>2. ~gc_request'
    <3>1. PICK k \in Keys, v \in Vals : Set(k, v)
      BY <1>4
    <3>2. QED BY <2>1, <3>1, Zenon DEF Set
  <2>3. QED BY <1>1, <1>2, <2>1, <2>2, SameFlash, QuietReserve
<1>5. CASE end_set
  <2>1. /\ gc' = IF gc_request THEN [NoGC EXCEPT !.back = "idle"] ELSE NoGC
        /\ pc' = IF gc_request THEN "gc" ELSE "idle"
    BY <1>5 DEF end_set
  <2>2. gc_request' <=> gc_request
    BY <1>5, Zenon DEF end_set
  <2>3. gc'.sec = 0
    BY <2>1 DEF NoGC
  <2>4. QED BY <1>1, <1>2, <2>1, <2>2, <2>3, SameFlash, QuietReserve
<1>6. CASE gc_check /\ gc'.sec = 0
  <2>1. PICK g : g = [gc EXCEPT !.sec = 1]
    OBVIOUS
  <2>2. gc' # [gc EXCEPT !.sec = 1]
    <3>1. g.sec = 1
      BY <2>1 DEF EnvInv, Basic, TypeOK
    <3>2. gc' # g
      BY <1>6, <3>1
    <3>3. QED BY <2>1, <3>2, Zenon
  <2>3. ~gc_request' /\ pc' = gc.back /\ pc = "gc"
    BY <1>6, <2>2, Zenon DEF gc_check, gc_end
  <2>4. gc.back \in {"new_env", "idle", "recover"}
    BY <2>3 DEF EnvInv, Basic, Control
  <2>5. QED BY <1>1, <1>2, <1>6, <2>3, <2>4, SameFlash, QuietReserve
<1>7. CASE recovered
  <2>1. \/ gc' = [NoGC EXCEPT !.back = "recover"] /\ pc' = "gc" /\ gc_request
        \/ gc' = gc /\ pc' = "idle" /\ ~gc_request
    BY <1>7 DEF recovered
  <2>2. gc_request' <=> gc_request
    BY <1>7, Zenon DEF recovered
  <2>3. gc'.sec = 0
    BY <1>7, <2>1 DEF NoGC, EnvInv, Basic, Control, recovered
  <2>4. QED BY <1>1, <1>2, <2>1, <2>2, <2>3, SameFlash, QuietReserve
<1>8. CASE ef_load_env
  <2>1. pc = "off" /\ pc' = "headers" /\ gc' = gc
    BY <1>8 DEF ef_load_env
  <2>2. gc_request' <=> gc_request
    BY <1>8, Zenon DEF ef_load_env
  <2>3. ~gc_request /\ gc.sec = 0
    BY <2>1 DEF ReserveInv, Unasked, EnvInv, Basic, Control
  <2>4. QED BY <1>1, <1>2, <2>1, <2>2, <2>3, SameFlash, QuietReserve
<1>9. CASE PowerFails
  <2>1. pc' = "off" /\ gc' = NoGC
    BY <1>9 DEF PowerFails
  <2>2. ~gc_request'
    BY <1>9, Zenon DEF PowerFails
  <2>3. gc'.sec = 0
    BY <2>1 DEF NoGC
  <2>4. QED BY <1>1, <1>2, <2>1, <2>2, <2>3, SameFlash, QuietReserve
<1>10. QED BY <1>3, <1>4, <1>5, <1>6, <1>7, <1>8, <1>9

LEMMA GcCheckReserve ==
    ASSUME EnvInv, ReserveInv, Spared, gc_check
    PROVE  ReserveInv'
<1>1. CASE gc'.sec = 0
  BY <1>1, CallReserve
<1>2. CASE gc'.sec # 0
  <2>1. pc' = "gc_sector" /\ pc = "gc" /\ flash' = flash /\ dropped' = dropped
    BY <1>2 DEF gc_check, gc_end, NoGC, ghosts
  <2>2. gc_request' <=> gc_request
    <3>1. gc' # NoGC
      BY <1>2 DEF NoGC
    <3>2. QED BY <3>1, Zenon DEF gc_check, gc_end
  <2>3. gc_request /\ EmptyIn(flash) # {}
    BY <2>1 DEF ReserveInv, AskedFor, Spare, EnvInv, Basic, Control
  <2>4. QED BY <1>2, <2>1, <2>2, <2>3
        DEF ReserveInv, Opened, Unasked, AskedFor, Spare, Roomy, Moves, Copying
<1>3. QED BY <1>1, <1>2

LEMMA NewEnvReserve ==
    ASSUME EnvInv, ReserveInv, Spared, new_env
    PROVE  ReserveInv'
<1>1. /\ pc = "new_env" /\ flash' = flash /\ dropped' = dropped
      /\ (gc_request' <=> alloc_env.request)
      /\ gc.sec = 0 /\ ~loading /\ ~loading' /\ ~gc_request
  <2>1. pc = "new_env" /\ flash' = flash /\ dropped' = dropped
    BY DEF new_env, ghosts
  <2>2. gc.sec = 0 /\ ~loading /\ ~gc_request
    BY <2>1 DEF EnvInv, Basic, Control, ReserveInv, Unasked
  <2>3. ~loading' /\ (gc_request' <=> alloc_env.request)
    BY <2>2, Zenon DEF new_env
  <2>4. QED BY <2>1, <2>2, <2>3
<1>2. EmptyIn(flash) # {} /\ Blank(flash)
  BY <1>1 DEF ReserveInv, Spare
<1>3. CASE alloc_env.sec # 0
  <2>1. PICK old : old = find_env(request.key)
    OBVIOUS
  <2>2. /\ work'.sec = alloc_env.sec /\ gc' = gc
        /\ pc' \in {"sector", "prepare"}
    BY <1>3, <2>1 DEF new_env
  <2>3. \E e \in EmptyIn(flash) : e # alloc_env.sec
    BY <1>1, <1>2, <1>3, AllocSpares
  <2>4. QED BY <1>1, <1>2, <2>2, <2>3
        DEF ReserveInv, Opened, Unasked, AskedFor, Spare, Roomy, Moves, Copying
<1>4. CASE alloc_env.sec = 0
  <2>1. pc' = "gc" /\ gc' = [NoGC EXCEPT !.back = "new_env"]
    BY <1>4 DEF new_env, Spared
  <2>2. gc_request' /\ gc'.sec = 0
    BY <1>1, <1>2, <1>4, <2>1, AllocSpares DEF NoGC
  <2>3. QED BY <1>1, <1>2, <2>1, <2>2, SameFlash, QuietReserve
<1>5. QED BY <1>3, <1>4

\* The steps on a node's words outside the collector's own.
LEMMA NodeReserve ==
    ASSUME EnvInv, ReserveInv, Spared,
           prepare \/ write_header \/ write_value \/ commit \/ delete
    PROVE  ReserveInv'
<1>1. gc' = gc /\ dropped' = dropped /\ work' = work
  BY DEF prepare, write_header, write_value, commit, delete, ghosts
<1>2. flash \in Flash
  BY TypeFacts DEF EnvInv, Basic
<1>3. SameShape(flash, flash')
  <2>1. CASE prepare \/ delete
    <3>1. \E st \in Statuses : flash' = Mark(flash, work.old, st)
      BY <2>1 DEF prepare, delete, SetStatus, Mark, Statuses
    <3>2. work.old \in AddrsIn(flash)
      BY <2>1 DEF prepare, delete, EnvInv, Basic, Old
    <3>3. QED BY <1>2, <3>1, <3>2, MarkedShape
  <2>2. PICK l : l = Last
    OBVIOUS
  <2>3. CASE write_header \/ write_value \/ commit
    <3>1. pc \in {"header", "value", "commit"}
      BY <2>3 DEF write_header, write_value, commit
    <3>2. l \in AddrsIn(flash) /\ NodeIn(flash, l).status = "PRE_WRITE"
      BY <2>2, <3>1 DEF EnvInv, Basic, Place
    <3>3. CASE commit
      <4>1. flash' = Mark(flash, l, "WRITE")
        BY <2>2, <3>3 DEF commit, SetStatus, Mark
      <4>2. "WRITE" \in Statuses
        BY DEF Statuses
      <4>3. QED BY <1>2, <3>2, <4>1, <4>2, MarkedShape
    <3>4. CASE write_header \/ write_value
      <4>1. \E bd \in {"none", "header", "whole"} : flash' = Fill(flash, l, bd)
        BY <2>2, <3>4 DEF write_header, write_value, Fill
      <4>2. QED BY <1>2, <3>2, <4>1, FilledShape
    <3>5. QED BY <2>3, <3>3, <3>4
  <2>4. QED BY <2>1, <2>3
<1>4. /\ EmptyIn(flash') = EmptyIn(flash) /\ Blank(flash')
      /\ \A n, p : RoomIn(flash, n, p) => RoomIn(flash', n, p)
  BY <1>3, ShapeTells DEF ReserveInv
<1>5. /\ loading' <=> loading
      /\ gc_request => gc_request'
      /\ gc_request' => gc_request \/ (pc = "commit" /\ ~moving)
  <2>0. loading \in BOOLEAN /\ gc_request \in BOOLEAN
    BY TypeFacts DEF EnvInv, Basic
  <2>1. CASE prepare
    BY <2>0, <2>1, Zenon DEF prepare
  <2>2. CASE write_header
    BY <2>0, <2>2, Zenon DEF write_header
  <2>3. CASE write_value
    BY <2>0, <2>3, Zenon DEF write_value
  <2>4. CASE commit
    BY <2>0, <2>4, Zenon DEF commit
  <2>5. CASE delete
    BY <2>0, <2>5, Zenon DEF delete
  <2>6. QED BY <2>1, <2>2, <2>3, <2>4, <2>5
<1>8. CASE prepare
  <2>1. /\ pc = "prepare" /\ pc' \in {"dirty", "sector"} /\ gc.sec = 0
        /\ ~loading
    BY <1>8 DEF prepare, EnvInv, Basic, Control
  <2>2. QED BY <1>1, <1>4, <1>5, <2>1
        DEF ReserveInv, Opened, Unasked, AskedFor, Spare, Roomy
<1>9. CASE write_header \/ write_value \/ commit
  <2>1. /\ pc \in {"header", "value", "commit"}
        /\ pc' \in {"value", "commit", "delete", "end_set"}
    BY <1>9 DEF write_header, write_value, commit
  <2>2. gc.sec # 0 => pc' # "end_set"
    <3>1. ASSUME gc.sec # 0, pc = "commit" PROVE work.old # NoAddr
      BY <1>2, <3>1, AddrsHold, LiveFacts
         DEF EnvInv, Basic, Old, Moves, Copying, moving
    <3>2. QED BY <1>9, <3>1 DEF write_header, write_value, commit
  <2>3. ~(loading /\ gc.sec = 0 /\ gc_request')
    BY <1>5, <2>1 DEF ReserveInv, Unasked, Moves, Copying, moving
  <2>4. QED BY <1>1, <1>4, <1>5, <2>1, <2>2, <2>3
        DEF ReserveInv, Opened, Unasked, AskedFor, Spare, Roomy
<1>10. CASE delete
  <2>1. /\ pc = "delete"
        /\ \/ ~moving /\ pc' = "end_set"
           \/ moving /\ gc.sec # 0 /\ pc' = "gc_node"
           \/ moving /\ gc.sec = 0 /\ pc' \in {"dirty_moved", "recover"}
    BY <1>10 DEF delete
  <2>2. pc # "commit"
    BY <2>1
  <2>3. ~(loading /\ gc.sec = 0 /\ gc_request')
    BY <1>5, <2>1 DEF ReserveInv, Unasked, Moves
  <2>4. QED BY <1>1, <1>4, <1>5, <2>1, <2>3
        DEF ReserveInv, Opened, Unasked, AskedFor, Spare, Roomy, moving
<1>11. QED BY <1>8, <1>9, <1>10

LEMMA DirtyReserve ==
    ASSUME EnvInv, ReserveInv, Spared, dirty
    PROVE  ReserveInv'
<1>1. /\ pc \in {"dirty", "dirty_moved"}
      /\ pc' = IF pc = "dirty" THEN "sector" ELSE "recover"
      /\ flash' = MarkDirty(flash, work.old[1], "TRUE")
      /\ gc' = gc /\ work' = work /\ dropped' = dropped
  BY DEF dirty, MarkDirty, ghosts
<1>2. flash \in Flash /\ gc.sec = 0 /\ work.old \in AddrsIn(flash)
  BY <1>1, TypeFacts DEF EnvInv, Basic, Control, Old
<1>3. PICK t : t = work.old[1]
  OBVIOUS
<1>4. /\ t \in Sectors /\ Len(flash[t].nodes) # 0
  BY <1>2, <1>3, AddrsHold, SectorHolds DEF Flash
<1>5. \A s \in Sectors : /\ flash'[s].ok = flash[s].ok
                         /\ flash'[s].store = flash[s].store
                         /\ flash'[s].nodes = flash[s].nodes
                         /\ s # t => flash'[s].dirty = flash[s].dirty
  BY <1>1, <1>2, <1>3, <1>4 DEF MarkDirty, Flash, Sector
<1>6. EmptyIn(flash') = EmptyIn(flash)
  BY <1>5 DEF EmptyIn
<1>7. Blank(flash')
  BY <1>4, <1>5 DEF ReserveInv, Blank
<1>8. gc_request' <=> gc_request
  BY TypeFacts, Zenon DEF dirty, EnvInv, Basic
<1>9. loading' <=> loading
  BY TypeFacts, Zenon DEF dirty, EnvInv, Basic
<1>10. pc = "dirty" => ~loading
  BY DEF EnvInv, Basic, Control
<1>11. QED BY <1>1, <1>2, <1>6, <1>7, <1>8, <1>9, <1>10
       DEF ReserveInv, Opened, Unasked, AskedFor, Spare, Roomy, Moves, Copying

LEMMA UpdateSecStatusReserve ==
    ASSUME EnvInv, ReserveInv, Spared, update_sec_status
    PROVE  ReserveInv'
<1> DEFINE t == work.sec
<1> DEFINE fills == flash[t].store = "USING" /\ Len(flash[t].nodes) + 1 = Cap
<1>1. /\ pc = "sector" /\ pc' = "pre_write"
      /\ flash' = MarkStore(flash, t, IF fills THEN "FULL" ELSE "USING")
      /\ gc' = gc /\ dropped' = dropped /\ work'.sec = t
  BY DEF update_sec_status, MarkStore, ghosts, EnvInv, Basic, TypeOK
<1>2. /\ flash \in Flash /\ t \in Sectors /\ flash[t].ok
      /\ Len(flash[t].nodes) < Cap
  BY <1>1, TypeFacts DEF EnvInv, Basic, Place, Copying
<1> HIDE DEF t
<1>3. \A s \in Sectors :
         /\ flash'[s].ok = flash[s].ok /\ flash'[s].dirty = flash[s].dirty
         /\ flash'[s].nodes = flash[s].nodes
         /\ flash'[s].store = IF s # t THEN flash[s].store
                              ELSE IF fills THEN "FULL" ELSE "USING"
  BY <1>1, <1>2 DEF MarkStore, Flash, Sector
<1>4. EmptyIn(flash') = EmptyIn(flash) \ {t}
  BY <1>3 DEF EmptyIn
<1>5. Blank(flash')
  BY <1>3 DEF ReserveInv, Blank
<1>6. flash'[t].store # "EMPTY"
  BY <1>2, <1>3
<1>7. gc_request' <=> gc_request
  BY TypeFacts, Zenon DEF update_sec_status, EnvInv, Basic
<1>8. loading' <=> loading
  BY TypeFacts, Zenon DEF update_sec_status, EnvInv, Basic
<1>9. gc.sec = 0 => EmptyIn(flash') # {}
  BY <1>1, <1>4 DEF ReserveInv, Spare, t
<1>10. ASSUME gc.sec # 0
       PROVE  \/ EmptyIn(flash') # {} \/ RoomIn(flash', 2, gc.pos)
              \/ gc.pos > Cap
  <2>1. gc.pos \in 2..Cap + 1
    <3>1. work.old = <<gc.sec, gc.pos - 1>> /\ work.old \in AddrsIn(flash)
      BY <1>1, <1>2, <1>10, LiveFacts
         DEF EnvInv, Basic, Old, Moves, Copying, moving
    <3>2. gc.pos - 1 \in 1..Cap /\ gc.pos \in 0..Cap + 1
      BY <1>2, <3>1, AddrsHold DEF EnvInv, Basic, TypeOK
    <3>3. QED BY <3>2, EnvAssumption
  <2>2. CASE t \in EmptyIn(flash)
    <3>1. flash[t].store = "EMPTY" /\ flash[t].ok
      BY <2>2 DEF EmptyIn
    <3>2. Len(flash[t].nodes) = 0 /\ flash[t].dirty = "FALSE"
      BY <1>2, <3>1 DEF ReserveInv, Blank
    <3>3. flash'[t].store = "USING"
      BY <1>2, <1>3, <3>1
    <3>4. RoomIn(flash', 2, gc.pos)
      BY <1>2, <1>3, <2>1, <3>1, <3>2, <3>3, EnvAssumption DEF RoomIn
    <3>5. QED BY <3>4
  <2>3. CASE t \notin EmptyIn(flash) /\ EmptyIn(flash) # {}
    BY <1>4, <2>3
  <2>4. CASE EmptyIn(flash) = {}
    <3>1. RoomIn(flash, 2, gc.pos)
      BY <1>1, <1>10, <2>4 DEF ReserveInv, Roomy
    <3>2. PICK u \in Sectors : /\ flash[u].ok /\ flash[u].store = "USING"
                               /\ flash[u].dirty = "FALSE"
                               /\ Len(flash[u].nodes) + 2 <= gc.pos
      BY <3>1 DEF RoomIn
    <3>3. CASE u = t /\ fills
      <4>1. gc.pos > Cap
        BY <2>1, <3>2, <3>3, EnvAssumption
      <4>2. QED BY <4>1
    <3>4. CASE ~(u = t /\ fills)
      <4>1. flash'[u].store = "USING"
        BY <1>3, <3>2, <3>4
      <4>2. RoomIn(flash', 2, gc.pos)
        BY <1>3, <3>2, <4>1 DEF RoomIn
      <4>3. QED BY <4>2
    <3>5. QED BY <3>3, <3>4
  <2>5. QED BY <2>2, <2>3, <2>4
<1>11. QED BY <1>1, <1>5, <1>6, <1>7, <1>8, <1>9, <1>10
       DEF ReserveInv, Opened, Unasked, AskedFor, Spare, Roomy, Moves, Copying, t

LEMMA PreWriteReserve ==
    ASSUME EnvInv, ReserveInv, Spared, pre_write
    PROVE  ReserveInv'
<1> DEFINE n == [status |-> "PRE_WRITE", body |-> "none", key |-> work.key,
                 val |-> work.val]
<1>0. PICK t : t = work.sec
  OBVIOUS
<1>1. /\ pc = "pre_write" /\ pc' = "header"
      /\ flash' = Grow(flash, t, n)
      /\ gc' = gc /\ dropped' = dropped /\ work' = work
  BY <1>0 DEF pre_write, Grow, ghosts
<1>2. /\ flash \in Flash /\ t \in Sectors /\ flash[t].store # "EMPTY"
      /\ Len(flash[t].nodes) \in Nat /\ flash[t].nodes \in Seq(Node)
  BY <1>0, <1>1, TypeFacts, SectorHolds
     DEF EnvInv, Basic, Place, Copying, ReserveInv, Opened, Flash
<1>3. n \in Node
  BY <1>1 DEF EnvInv, Basic, Place, Setting, Copying, Node, Statuses
<1> HIDE DEF n
<1>4. Len(Append(flash[t].nodes, n)) = Len(flash[t].nodes) + 1
  BY <1>2, <1>3
<1>5. \A s \in Sectors :
         /\ flash'[s].ok = flash[s].ok /\ flash'[s].dirty = flash[s].dirty
         /\ flash'[s].store = flash[s].store
         /\ Len(flash'[s].nodes) = IF s = t THEN Len(flash[s].nodes) + 1
                                   ELSE Len(flash[s].nodes)
  BY <1>1, <1>2, <1>4 DEF Grow, Flash, Sector
<1>6. EmptyIn(flash') = EmptyIn(flash)
  BY <1>5 DEF EmptyIn
<1>7. Blank(flash')
  BY <1>2, <1>5 DEF ReserveInv, Blank
<1>8. RoomIn(flash, 2, gc.pos) => RoomIn(flash', 1, gc.pos)
  <2>1. SUFFICES ASSUME NEW u \in Sectors, flash[u].ok,
                        flash[u].store = "USING", flash[u].dirty = "FALSE",
                        Len(flash[u].nodes) + 2 <= gc.pos
                 PROVE  RoomIn(flash', 1, gc.pos)
    BY DEF RoomIn
  <2>2. Len(flash[u].nodes) \in Nat /\ gc.pos \in Nat
    BY <1>2, SectorHolds, EnvAssumption DEF Flash, EnvInv, Basic, TypeOK
  <2>3. Len(flash'[u].nodes) + 1 <= gc.pos
    BY <1>5, <2>1, <2>2
  <2>4. QED BY <1>5, <2>1, <2>3 DEF RoomIn
<1>9. (gc_request' <=> gc_request) /\ (loading' <=> loading)
  BY TypeFacts, Zenon DEF pre_write, EnvInv, Basic
<1>10. QED BY <1>1, <1>6, <1>7, <1>8, <1>9
       DEF ReserveInv, Opened, Unasked, AskedFor, Spare, Roomy, Moves, Copying

LEMMA GcSectorReserve ==
    ASSUME EnvInv, ReserveInv, Spared, gc_sector
    PROVE  ReserveInv'
<1>1. /\ pc = "gc_sector" /\ dropped' = dropped
      /\ EmptyIn(flash) # {} /\ gc_request
  BY DEF gc_sector, ghosts, ReserveInv, Spare, AskedFor
<1>2. flash \in Flash /\ gc.back \in {"recover", "new_env", "idle"}
      /\ gc.sec # 0
  BY <1>1, TypeFacts DEF EnvInv, Basic, Control
<1>3. CASE gc.sec > NumSectors
  <2>1. gc' = NoGC /\ pc' = gc.back /\ flash' = flash
    BY <1>3 DEF gc_sector, gc_end
  <2>2. ~gc_request'
    BY <1>3, Zenon DEF gc_sector, gc_end
  <2>3. gc'.sec = 0
    BY <2>1 DEF NoGC
  <2>4. QED BY <1>1, <1>2, <2>1, <2>2, <2>3, SameFlash, QuietReserve
<1>4. CASE ~(gc.sec > NumSectors)
  <2>1. PICK t : t = gc.sec
    OBVIOUS
  <2>2. t \in Sectors
    BY <1>2, <1>4, <2>1, EnvAssumption DEF EnvInv, Basic, TypeOK, Sectors
  <2>3. gc_request'
    BY <1>1, <1>4, Zenon DEF gc_sector
  <2>4. CASE flash[t].ok /\ flash[t].dirty # "FALSE"
    <3>1. /\ flash' = MarkDirty(flash, t, "GC")
          /\ gc' = [gc EXCEPT !.pos = 1] /\ pc' = "gc_node"
      BY <1>4, <2>1, <2>4 DEF gc_sector, MarkDirty
    <3>2. \A s \in Sectors : /\ flash'[s].ok = flash[s].ok
                             /\ flash'[s].store = flash[s].store
                             /\ flash'[s].nodes = flash[s].nodes
                             /\ s # t => flash'[s].dirty = flash[s].dirty
      BY <1>2, <2>2, <3>1 DEF MarkDirty, Flash, Sector
    <3>3. flash[t].store # "EMPTY"
      BY <2>2, <2>4 DEF ReserveInv, Blank
    <3>4. EmptyIn(flash') = EmptyIn(flash)
      BY <3>2 DEF EmptyIn
    <3>5. Blank(flash')
      BY <3>2, <3>3 DEF ReserveInv, Blank
    <3>6. gc'.sec # 0
      BY <1>2, <3>1 DEF EnvInv, Basic, TypeOK
    <3>7. QED BY <1>1, <2>3, <3>1, <3>4, <3>5, <3>6
          DEF ReserveInv, Opened, Unasked, AskedFor, Spare, Roomy, Moves, Copying
  <2>5. CASE ~(flash[t].ok /\ flash[t].dirty # "FALSE")
    <3>1. flash' = flash /\ pc' = pc /\ gc' = [gc EXCEPT !.sec = gc.sec + 1]
      BY <1>4, <2>1, <2>5 DEF gc_sector
    <3>2. gc'.sec # 0
      BY <2>1, <2>2, <3>1 DEF EnvInv, Basic, TypeOK, Sectors
    <3>3. QED BY <1>1, <2>3, <3>1, <3>2
          DEF ReserveInv, Opened, Unasked, AskedFor, Spare, Roomy, Moves, Copying
  <2>6. QED BY <2>4, <2>5
<1>5. QED BY <1>3, <1>4

LEMMA GcNodeReserve ==
    ASSUME EnvInv, ReserveInv, Spared, gc_node
    PROVE  ReserveInv'
<1>1. /\ pc = "gc_node" /\ dropped' = dropped
      /\ gc.sec # 0 /\ gc.sec \in Sectors /\ gc.pos \in Nat
      /\ flash \in Flash
  BY TypeFacts, EnvAssumption
     DEF gc_node, ghosts, EnvInv, Basic, Control, TypeOK, Sectors
<1>2. gc_request /\ gc_request'
  <2>1. gc_request
    BY <1>1 DEF ReserveInv, AskedFor
  <2>2. QED BY <2>1, Zenon DEF gc_node
<1>3. \/ pc' = "erase" /\ flash' = flash /\ gc' = gc
      \/ \E a \in LiveNodes : /\ a[1] = gc.sec /\ a[2] >= gc.pos
                              /\ pc' = "move"
                              /\ flash' = Mark(flash, a, "PRE_DELETE")
                              /\ gc' = [gc EXCEPT !.pos = a[2] + 1]
  <2>1. CASE NodeEnds
    BY <2>1 DEF NodeEnds
  <2>2. CASE \E a : NodeMoves(a)
    BY <2>2 DEF NodeMoves
  <2>3. QED BY <2>1, <2>2, GcNodeCases
<1>4. CASE pc' = "erase" /\ flash' = flash /\ gc' = gc
  BY <1>1, <1>2, <1>4
     DEF ReserveInv, Opened, Unasked, AskedFor, Spare, Roomy, Moves, Copying
<1>5. CASE \E a \in LiveNodes : /\ a[1] = gc.sec /\ a[2] >= gc.pos
                                /\ pc' = "move"
                                /\ flash' = Mark(flash, a, "PRE_DELETE")
                                /\ gc' = [gc EXCEPT !.pos = a[2] + 1]
  <2>1. PICK a \in LiveNodes : /\ a[1] = gc.sec /\ a[2] >= gc.pos
                               /\ pc' = "move"
                               /\ flash' = Mark(flash, a, "PRE_DELETE")
                               /\ gc' = [gc EXCEPT !.pos = a[2] + 1]
    BY <1>5
  <2>2. a \in AddrsIn(flash) /\ a[2] \in Nat /\ a[2] <= Cap
    BY <1>1, <2>1, LiveFacts, AddrsHold, EnvAssumption
  <2>3. "PRE_DELETE" \in Statuses
    BY DEF Statuses
  <2>4. /\ EmptyIn(flash') = EmptyIn(flash) /\ Blank(flash')
        /\ \A n, p : RoomIn(flash, n, p) => RoomIn(flash', n, p)
    BY <1>1, <2>1, <2>2, <2>3, MarkedShape, ShapeTells DEF ReserveInv
  <2>5. gc'.sec = gc.sec /\ gc'.pos = a[2] + 1
    BY <2>1 DEF EnvInv, Basic, TypeOK
  <2>6. EmptyIn(flash) # {} \/ RoomIn(flash, 2, a[2] + 1)
    <3>1. EmptyIn(flash) # {} \/ RoomIn(flash, 1, gc.pos)
      BY <1>1, <2>1, <2>2, EnvAssumption DEF ReserveInv, Roomy
    <3>2. RoomIn(flash, 1, gc.pos) => RoomIn(flash, 2, a[2] + 1)
      <4>1. \A s \in Sectors : Len(flash[s].nodes) \in Nat
        BY <1>1, SectorHolds, EnvAssumption DEF Flash
      <4>2. QED BY <1>1, <2>1, <2>2, <4>1 DEF RoomIn
    <3>3. QED BY <3>1, <3>2
  <2>7. QED BY <1>1, <1>2, <2>1, <2>4, <2>5, <2>6
        DEF ReserveInv, Opened, Unasked, AskedFor, Spare, Roomy, Moves, Copying
<1>6. QED BY <1>3, <1>4, <1>5

LEMMA MoveEnvReserve ==
    ASSUME EnvInv, ReserveInv, Spared, move_env
    PROVE  ReserveInv'
<1>1. /\ pc = "move" /\ flash' = flash /\ gc' = gc
      /\ (gc_request' <=> alloc_env.request) /\ (loading' <=> loading)
      /\ Blank(flash)
  <2>1. pc = "move" /\ flash' = flash /\ gc' = gc
    BY DEF move_env
  <2>2. loading' <=> loading
    BY TypeFacts, Zenon DEF move_env, EnvInv, Basic
  <2>3. gc_request' <=> alloc_env.request
    BY Zenon DEF move_env
  <2>4. QED BY <2>1, <2>2, <2>3 DEF ReserveInv
<1>2. alloc_env.sec # 0 =>
         /\ dropped' = dropped
         /\ \/ pc' = "sector" /\ work'.sec = alloc_env.sec
            \/ pc' = "delete"
  <2>1. SUFFICES ASSUME alloc_env.sec # 0
                 PROVE  /\ dropped' = dropped
                        /\ \/ pc' = "sector" /\ work'.sec = alloc_env.sec
                           \/ pc' = "delete"
    OBVIOUS
  <2>2. /\ dropped' = dropped
        /\ \/ pc' = "sector" /\ work' = [work EXCEPT !.sec = alloc_env.sec]
           \/ pc' = "delete"
    BY <2>1, Zenon DEF move_env
  <2>3. QED BY <2>2 DEF EnvInv, Basic, TypeOK
<1>3. CASE gc.sec # 0
  <2>1. gc_request /\ gc_request'
    BY <1>1, <1>3, AllocSpares DEF ReserveInv, AskedFor
  <2>2. EmptyIn(flash) # {} \/ RoomIn(flash, 2, gc.pos)
    BY <1>1, <1>3 DEF ReserveInv, Roomy
  <2>3. gc.pos \in 0..Cap + 1
    BY DEF EnvInv, Basic, TypeOK
  <2>4. /\ RoomIn(flash, 2, gc.pos) => RoomIn(flash, 1, Cap)
        /\ RoomIn(flash, 2, gc.pos) => RoomIn(flash, 1, gc.pos)
    <3>1. \A s \in Sectors : Len(flash[s].nodes) \in Nat
      BY TypeFacts, SectorHolds, EnvAssumption DEF Flash, EnvInv, Basic
    <3>2. QED BY <2>3, <3>1, EnvAssumption DEF RoomIn
  <2>5. alloc_env.sec # 0
    BY <1>1, <2>1, <2>2, <2>4, AllocSpares
  <2>6. pc' \in {"sector", "delete"} /\ dropped' = dropped
    BY <1>2, <2>5
  <2>7. QED BY <1>1, <1>3, <2>1, <2>2, <2>4, <2>6
        DEF ReserveInv, Opened, Unasked, AskedFor, Spare, Roomy, Moves, Copying
<1>4. CASE gc.sec = 0
  <2>1. loading /\ ~gc_request /\ EmptyIn(flash) # {}
    BY <1>1, <1>4
       DEF ReserveInv, Unasked, Spare, Moves, EnvInv, Basic, Control, moving
  <2>2. CASE alloc_env.sec # 0
    <3>1. ~gc_request' /\ \E e \in EmptyIn(flash) : e # alloc_env.sec
      BY <1>1, <2>1, <2>2, AllocSpares
    <3>2. QED BY <1>1, <1>2, <1>4, <2>1, <2>2, <3>1
          DEF ReserveInv, Opened, Unasked, AskedFor, Spare, Roomy, Moves, Copying
  <2>3. CASE alloc_env.sec = 0
    <3>1. pc' = "recovered" /\ dropped' = dropped
      BY <1>4, <2>3 DEF move_env
    <3>2. QED BY <1>1, <1>4, <2>1, <3>1, SameFlash, QuietReserve
  <2>4. QED BY <2>2, <2>3
<1>5. QED BY <1>3, <1>4

LEMMA EraseReserve ==
    ASSUME EnvInv, ReserveInv, Spared, erase \/ format
    PROVE  ReserveInv'
<1>0. PICK t : t = gc.sec
  OBVIOUS
<1>1. /\ pc \in {"erase", "format"} /\ dropped' = dropped
      /\ pc = "erase" => pc' = "format" /\ gc' = gc
      /\ pc = "format" => pc' = "gc_sector" /\ gc' = [gc EXCEPT !.sec = t + 1]
      /\ \/ flash' = Wipe(flash, t, Erased)
         \/ pc = "format" /\ flash' = Wipe(flash, t, Formatted)
  BY <1>0 DEF erase, format, Wipe, ghosts
<1>2. flash \in Flash /\ t \in Sectors
  BY <1>0, <1>1, TypeFacts DEF EnvInv, Basic, Control
<1>3. PICK x \in {Erased, Formatted} :
          flash' = Wipe(flash, t, x) /\ (pc = "format" => x = Formatted)
  <2>1. pc = "format" => flash' = Wipe(flash, t, Formatted)
    BY <1>0 DEF erase, format, Wipe
  <2>2. QED BY <1>1, <2>1
<1>4. SetTo(flash, t, x, flash') /\ Len(x.nodes) = 0
  BY <1>2, <1>3, Wiped
<1>5. /\ x.store = "EMPTY" /\ x.dirty = "FALSE"
      /\ pc = "format" => x.ok
  BY <1>3 DEF Erased, Formatted
<1>6. Blank(flash')
  BY <1>4, <1>5 DEF ReserveInv, Blank, SetTo
<1>7. pc = "format" => EmptyIn(flash') # {}
  BY <1>2, <1>4, <1>5 DEF EmptyIn, SetTo
<1>8. gc'.sec # 0
  BY <1>0, <1>1, <1>2 DEF EnvInv, Basic, TypeOK, Sectors
<1>9. gc_request'
  <2>1. gc_request
    BY <1>1 DEF ReserveInv, AskedFor
  <2>2. QED BY <2>1, Zenon DEF erase, format
<1>10. QED BY <1>1, <1>6, <1>7, <1>8, <1>9
       DEF ReserveInv, Opened, Unasked, AskedFor, Spare, Roomy, Moves, Copying

LEMMA CheckHeadersReserve ==
    ASSUME EnvInv, ReserveInv, Spared, check_headers
    PROVE  ReserveInv'
<1> DEFINE bad == {s \in Sectors : ~flash[s].ok}
<1>1. /\ pc = "headers" /\ dropped' = dropped /\ gc.sec = 0
      /\ EmptyIn(flash) # {} /\ ~gc_request /\ flash \in Flash
  BY TypeFacts
     DEF check_headers, ghosts, EnvInv, Basic, Control, ReserveInv, Spare,
         Unasked
<1>2. CASE bad # {}
  <2>1. PICK t : t = Least(bad)
    OBVIOUS
  <2>2. /\ flash' = Wipe(flash, t, Formatted) /\ pc' = "headers" /\ gc' = gc
    BY <1>1, <1>2, <2>1 DEF check_headers, Wipe
  <2>3. ~gc_request'
    BY <1>1, <1>2, Zenon DEF check_headers
  <2>4. bad \subseteq Nat
    BY DEF Sectors
  <2>5. t \in Sectors
    BY <1>2, <2>1, <2>4, LeastIsLeast
  <2>6. SetTo(flash, t, Formatted, flash') /\ Len(Formatted.nodes) = 0
    BY <1>1, <2>2, <2>5, Wiped
  <2>7. /\ Formatted.store = "EMPTY" /\ Formatted.dirty = "FALSE"
        /\ Formatted.ok
    BY DEF Formatted, Erased
  <2>8. Blank(flash') /\ EmptyIn(flash') # {}
    BY <2>5, <2>6, <2>7 DEF ReserveInv, Blank, SetTo, EmptyIn
  <2>9. QED BY <1>1, <2>2, <2>3, <2>8
        DEF ReserveInv, Opened, Unasked, AskedFor, Spare, Roomy, Moves, Copying
<1>3. CASE bad = {}
  <2>1. /\ flash' = flash
        /\ \/ pc' = "gc" /\ gc' = [NoGC EXCEPT !.back = "recover"]
           \/ pc' = "recover" /\ gc' = gc
    BY <1>3 DEF check_headers
  <2>2. /\ pc' = "gc" => gc_request'
        /\ pc' = "recover" => ~gc_request'
    BY <1>1, <1>3 DEF check_headers
  <2>3. gc'.sec = 0
    BY <1>1, <2>1 DEF NoGC
  <2>4. QED BY <1>1, <2>1, <2>2, <2>3, SameFlash, QuietReserve
<1>4. QED BY <1>2, <1>3

LEMMA RecoverReserve ==
    ASSUME EnvInv, ReserveInv, Spared, recover
    PROVE  ReserveInv'
<1> DEFINE pending == Prepared \union {a \in Addrs : At(a).status = "PRE_WRITE"}
<1>1. /\ pc = "recover" /\ dropped' = dropped /\ gc' = gc /\ gc.sec = 0
      /\ EmptyIn(flash) # {} /\ ~gc_request /\ flash \in Flash
  BY TypeFacts
     DEF recover, ghosts, EnvInv, Basic, Control, ReserveInv, Spare, Unasked
<1>2. ~gc_request'
  BY <1>1, Zenon DEF recover
<1>3. PICK a : a = FirstAddr(pending)
  OBVIOUS
<1>4. pending # {} => a \in AddrsIn(flash)
  <2>1. pending \subseteq AddrsIn(flash)
    BY <1>1, Words, LiveFacts
  <2> HIDE DEF pending
  <2>2. pending \subseteq Nat \X Nat
    BY <1>1, <2>1, AddrsHold, EnvAssumption DEF Sectors
  <2>3. QED BY <1>3, <2>1, <2>2, FirstIsOne
<1>5. /\ pc' \in {"recovered", "move", "recover"}
      /\ \/ flash' = flash
         \/ pending # {} /\ flash' = Mark(flash, a, "ERR_HDR")
  BY <1>3, Zenon DEF recover, SetStatus, Mark
<1>6. "ERR_HDR" \in Statuses
  BY DEF Statuses
<1>7. SameShape(flash, flash')
  BY <1>1, <1>4, <1>5, <1>6, SameFlash, MarkedShape
<1>8. EmptyIn(flash') = EmptyIn(flash) /\ Blank(flash')
  BY <1>7, ShapeTells DEF ReserveInv
<1>9. QED BY <1>1, <1>2, <1>5, <1>8
      DEF ReserveInv, Opened, Unasked, AskedFor, Spare, Roomy, Moves, Copying

LEMMA StutterReserve ==
    ASSUME EnvInv, ReserveInv, UNCHANGED vars
    PROVE  ReserveInv'
<1>1. /\ flash' = flash /\ pc' = pc /\ gc' = gc /\ work' = work
      /\ dropped' = dropped
  BY DEF vars
<1>2. (gc_request' <=> gc_request) /\ (loading' <=> loading)
  BY TypeFacts, Zenon DEF vars, EnvInv, Basic
<1>3. QED BY <1>1, <1>2
      DEF ReserveInv, Opened, Unasked, AskedFor, Spare, Roomy

LEMMA StartReserve == Init => ReserveInv
<1> SUFFICES ASSUME Init PROVE ReserveInv
  OBVIOUS
<1>1. /\ Formatted.nodes = << >> /\ Formatted.dirty = "FALSE"
      /\ Formatted.store = "EMPTY" /\ Formatted.ok
  BY DEF Formatted, Erased
<1>2. Blank(flash)
  BY <1>1 DEF Init, Blank
<1>3. 1 \in Sectors
  BY EnvAssumption DEF Sectors
<1>4. EmptyIn(flash) # {}
  BY <1>1, <1>3 DEF Init, EmptyIn
<1>5. QED BY <1>2, <1>4
      DEF Init, NoGC, ReserveInv, Opened, Unasked, AskedFor, Spare, Roomy, Moves,
          Copying

LEMMA NextReserve == EnvInv /\ ReserveInv /\ [Next]_vars /\ Spared => ReserveInv'
<1> SUFFICES ASSUME EnvInv, ReserveInv, [Next]_vars, Spared PROVE ReserveInv'
  OBVIOUS
<1>1. CASE \/ \E k \in Keys : Get(k)
           \/ \E k \in Keys, v \in Vals : Set(k, v)
           \/ end_set \/ recovered \/ ef_load_env \/ PowerFails
  BY <1>1, CallReserve
<1>2. CASE prepare \/ write_header \/ write_value \/ commit \/ delete
  BY <1>2, NodeReserve
<1>3. CASE new_env
  BY <1>3, NewEnvReserve
<1>4. CASE dirty
  BY <1>4, DirtyReserve
<1>5. CASE update_sec_status
  BY <1>5, UpdateSecStatusReserve
<1>6. CASE pre_write
  BY <1>6, PreWriteReserve
<1>7. CASE gc_check
  BY <1>7, GcCheckReserve
<1>8. CASE gc_sector
  BY <1>8, GcSectorReserve
<1>9. CASE gc_node
  BY <1>9, GcNodeReserve
<1>10. CASE move_env
  BY <1>10, MoveEnvReserve
<1>11. CASE erase \/ format
  BY <1>11, EraseReserve
<1>12. CASE check_headers
  BY <1>12, CheckHeadersReserve
<1>13. CASE recover
  BY <1>13, RecoverReserve
<1>14. CASE UNCHANGED vars
  BY <1>14, StutterReserve
<1>15. QED
  BY <1>1, <1>2, <1>3, <1>4, <1>5, <1>6, <1>7, <1>8, <1>9, <1>10, <1>11, <1>12,
     <1>13, <1>14, Zenon DEF Next, Step

-----------------------------------------------------------------------------
(* The theorems.                                                           *)

\* At every moment, the power failed or not, the flash is a row of sectors
\* of at most Cap nodes each and the other variables have their types: no
\* address is written that is not there (ef_env.c, all of it).
THEOREM EnvTypeCorrect == Spec => []TypeOK
<1>1. EnvInv => TypeOK
  BY DEF EnvInv, Basic
<1>2. QED BY <1>1, InvHolds, PTL

\* For any number of sectors, of variables and of power failures, at every
\* idle moment a variable reads as the value it was last set to, or as one
\* that a set cut off by a power failure may have left, unless a recovery
\* gave up before its node or a collection had no room for it (set_env,
\* del_env, move_env, do_gc, ef_load_env).
THEOREM ReadsAreRight == Spec => []ReadsTellTheLastSet
<1>1. EnvInv => ReadsTellTheLastSet
  <2>1. SUFFICES ASSUME EnvInv, pc = "idle",
                        NEW k \in Keys \ Lost
                 PROVE  get_env(k) \in may[k]
    BY DEF ReadsTellTheLastSet, idle
  <2>2. k \in Keys \ dropped /\ k \notin Lost
    BY DEF Lost
  <2>3. CASE get_env(k) = Absent /\ \A a \in Written : KeyOf(a) # k
    <3>1. SUFFICES ASSUME NEW a \in LiveNodes, KeyOf(a) = k PROVE FALSE
      BY <2>1, <2>2, <2>3 DEF EnvInv, Data, Kept
    <3>2. a \in PreparedIn(flash)
      BY <2>3, <3>1 DEF LiveNodes, Written
    <3>3. ~loading
      BY <2>1 DEF EnvInv, Basic, Control
    <3>4. QED BY <2>1, <2>2, <3>1, <3>2, <3>3
          DEF EnvInv, Data, OnePrepared, Copying
  <2>4. CASE \E a \in Written : KeyOf(a) = k /\ get_env(k) = ValOf(a)
    BY <2>1, <2>2, <2>4 DEF EnvInv, Data, Values, LiveNodes, Written
  <2>5. QED BY <2>1, <2>2, <2>3, <2>4, GetTells
<1>2. QED BY <1>1, InvHolds, PTL

\* For any number of sectors, of variables and of power failures, what the
\* table of found variables points at between two operations is the
\* committed node of the variable (update_env_cache, move_env, do_gc).
THEOREM CacheIsRight == Spec => []CacheTellsFlash
<1>1. EnvInv => CacheTellsFlash
  <2>1. SUFFICES ASSUME EnvInv, pc = "idle", NEW k \in Keys \ dropped,
                        env_cache[k] # NoAddr
                 PROVE  /\ env_cache[k] \in Addrs
                        /\ Whole(env_cache[k])
                        /\ At(env_cache[k]).status = "WRITE"
                        /\ At(env_cache[k]).key = k
    BY DEF CacheTellsFlash, idle
  <2>2. PICK c : c = env_cache[k]
    OBVIOUS
  <2>3. c \in Written /\ KeyOf(c) = k
    BY <2>1, <2>2 DEF EnvInv, Data, Cached, CachedAt, Copying
  <2>4. /\ Addrs = AddrsIn(flash) /\ At(c) = NodeIn(flash, c)
    <3>1. flash \in Flash
      BY <2>1, TypeFacts DEF EnvInv, Basic
    <3>2. QED BY <3>1, Words, Zenon
  <2>5. /\ c \in Addrs /\ Whole(c) /\ At(c).status = "WRITE" /\ At(c).key = k
    BY <2>3, <2>4 DEF Written, WrittenIn, KeyOf, KeyIn, Whole
  <2>6. QED BY <2>2, <2>5
<1>2. QED BY <1>1, InvHolds, PTL

\* For any number of sectors, of variables and of power failures, the flash is
\* a store whose variables change in one step each: the write that commits the
\* new node.  Neither a power failure in the middle of a set, of a collection
\* or of a recovery nor what these do afterwards changes a variable that is
\* not lost (set_env, del_env, move_env, do_gc, ef_load_env).
THEOREM FlashIsAStore == Spec => ImplementsStore
<1>1. EnvInv => ShownHeld
  BY ShownTells, TypeFacts DEF EnvInv, Basic
<1>2. EnvInv /\ EnvInv' /\ StoreInv /\ Calling /\ ShownHeld /\ ShownHeld'
         /\ AskedHeld' /\ [Next]_vars => Store!Next
  BY StepRefines
<1>3. QED BY <1>1, <1>2, AskedTells, StoresHold, InitRefines, PTL
      DEF Spec, ImplementsStore, Store!Spec

\* At every idle moment a variable reads as what the flash holds of it, its
\* committed node or else the first one prepared for deletion, unless it is
\* lost: the table of found variables hides no change (find_env, find_env_cb,
\* get_env_from_cache).
THEOREM ReadsTellFlash == Spec => []ReadsTellTheStore
<1>1. EnvInv => ReadsTellTheStore
  <2>1. SUFFICES ASSUME EnvInv, pc = "idle", NEW k \in Keys \ Lost
                 PROVE  get_env(k) = stored(k)
    BY DEF ReadsTellTheStore, idle
  <2>2. flash \in Flash /\ k \in Keys \ dropped /\ ~loading
    BY <2>1, TypeFacts DEF EnvInv, Basic, Control, Lost
  <2>3. stored(k) = HeldIn(flash, k)
    BY <2>2, StoredIsHeld
  <2>4. PreparedOf(flash, k) = {}
    BY <2>1, <2>2 DEF EnvInv, Data, OnePrepared, Copying, PreparedOf, KeyOf
  <2>5. CASE get_env(k) = Absent /\ \A a \in Written : KeyOf(a) # k
    <3>1. WrittenOf(flash, k) = {}
      BY <2>5 DEF WrittenOf, Written, KeyOf
    <3>2. QED BY <2>2, <2>3, <2>4, <2>5, <3>1, HeldFacts
  <2>6. CASE \E a \in Written : KeyOf(a) = k /\ get_env(k) = ValOf(a)
    <3>1. PICK a \in Written : KeyOf(a) = k /\ get_env(k) = ValOf(a)
      BY <2>6
    <3>2. a \in WrittenOf(flash, k) /\ \A b \in WrittenOf(flash, k) : b = a
      BY <2>1, <3>1 DEF EnvInv, Data, OneWritten, WrittenOf, Written, KeyOf
    <3>3. QED BY <2>2, <2>3, <3>1, <3>2, HeldFacts DEF ValOf
  <2>7. QED BY <2>1, <2>2, <2>5, <2>6, GetTells
<1>2. QED BY <1>1, InvHolds, PTL

\* As long as no set is refused as full and the power does not fail while a
\* collection has the last empty sector in use, there is an empty sector
\* between any two operations and no collection fails to move a variable: one
\* empty sector is enough for a collection of any number of sectors, because
\* what it moves out of a sector fits in one (alloc_env, do_gc, gc_collect;
\* ef_cfg.h: at least one empty sector for GC).
THEOREM ReserveIsEnough == Spec /\ [][Spared]_vars => []ReserveIsKept
<1>1. ReserveInv /\ EnvInv => ReserveIsKept
  <2>1. SUFFICES ASSUME ReserveInv, EnvInv
                 PROVE  (pc = "idle" => EmptySectors # {}) /\ dropped = {}
    BY DEF ReserveIsKept, idle
  <2>2. EmptySectors = EmptyIn(flash)
    BY DEF EmptySectors, EmptyIn
  <2>3. pc = "idle" => gc.sec = 0
    BY <2>1 DEF EnvInv, Basic, Control
  <2>4. QED BY <2>1, <2>2, <2>3 DEF ReserveInv, Spare
<1>2. EnvInv /\ ReserveInv /\ [Next]_vars /\ [Spared]_vars => ReserveInv'
  BY NextReserve, StutterReserve
<1>3. QED BY <1>1, <1>2, StartReserve, InvHolds, PTL DEF Spec
=============================================================================
