---- MODULE Netlink ----
(* The netlink package: operations on links, addresses, routes and neighbours by
   several callers, on devices the kernel lets any of them create, rename and delete.
   An operation is a program of steps, left in todo[p]:
     [do |-> "ensure", who]     ensureIndex on the link or the master object
     [do |-> "send", ...]       one request on a socket of its own, and its answer
     [do |-> "dump", table]     a NLM_F_DUMP request, read one answer at a time
     [do |-> "search", who]     linkByNameDump picks the link from the dumped ones
     [do |-> "filter", table]   a list keeps what belongs to the link
   The kernel handles a request while it is sent. A device is
     [name, master, flags, tab]  the settings that are on, the tables with an entry for it.
   kept, claims, steady and sent only record history. *)
EXTENDS Naturals, Sequences

CONSTANTS Procs, Names, Bridge,
          Ops,          \* the operations the callers use
          MaxOps,       \* operations per caller
          MaxIndex,     \* devices ever created
          Namespaces,   \* LinkAdd may name another namespace
          OldKernels,   \* may the kernel refuse a lookup by name?
          Faults        \* may a Receive fail?

VARIABLES links,         \* index -> device, in this network namespace
          last,          \* the last index the kernel gave
          old,           \* the kernel knows no lookup by name
          lookupByDump,
          todo, obj, count, ret, pos, got, kept, sent, claims, steady

vars == <<links, last, old, lookupByDump, todo, obj, count, ret, pos, got, kept, sent, claims, steady>>

Device(n) == [name |-> n, master |-> 0, flags |-> {}, tab |-> {}]

(* The index a name denotes, 0 if none. *)
Named(ls, n) == IF \E i \in DOMAIN ls : ls[i].name = n
                THEN CHOOSE i \in DOMAIN ls : ls[i].name = n ELSE 0

(* What a dump of a table reports of device i. *)
Entries(ls, table, i) ==
    IF table = "link" THEN {<<i, ls[i].name>>} ELSE {<<i, t>> : t \in ls[i].tab \cap {table}}

Init ==
    /\ links = [i \in {1} |-> Device(Bridge)]
    /\ last = 1
    /\ old \in OldKernels
    /\ lookupByDump = FALSE
    /\ todo = [p \in Procs |-> <<>>]
    /\ obj = [p \in Procs |-> [link |-> [name |-> Bridge, index |-> 0],
                               master |-> [name |-> Bridge, index |-> 0]]]
    /\ count = [p \in Procs |-> 0]
    /\ ret = [p \in Procs |-> [op |-> "none", err |-> FALSE, done |-> TRUE]]
    /\ pos = [p \in Procs |-> 0]
    /\ got = [p \in Procs |-> {}]
    /\ kept = [p \in Procs |-> 0]
    /\ sent = [p \in Procs |-> [index |-> 0, kept |-> 0]]
    /\ claims = [i \in 1..MaxIndex |-> 0]
    /\ steady = [p \in Procs |-> {}]

----------------------------------------------------------------------------
(* The steps of the programs *)

Ensure(who) == [do |-> "ensure", who |-> who]
Dump(table) == [do |-> "dump", table |-> table]
Filter(table) == [do |-> "filter", table |-> table]
Send(type, key) == [do |-> "send", type |-> type, key |-> key]

(* A caller starts an operation on a new link object. *)
Start(p, op, prog) ==
    /\ op \in Ops /\ todo[p] = <<>> /\ count[p] < MaxOps
    /\ count' = [count EXCEPT ![p] = @ + 1]
    /\ todo' = [todo EXCEPT ![p] = prog]
    /\ \E n \in Names :
          /\ obj' = [obj EXCEPT ![p] = [link |-> [name |-> n, index |-> 0],
                                        master |-> [name |-> Bridge, index |-> 0]]]
          /\ kept' = [kept EXCEPT ![p] = Named(links, n)]
    /\ ret' = [ret EXCEPT ![p] = [op |-> op, err |-> FALSE, done |-> FALSE]]
    /\ pos' = [pos EXCEPT ![p] = 0]
    /\ got' = [got EXCEPT ![p] = {}]
    /\ sent' = [sent EXCEPT ![p] = [index |-> 0, kept |-> 0]]
    /\ steady' = [steady EXCEPT ![p] = {}]
    /\ UNCHANGED <<links, last, old, lookupByDump, claims>>

SetLink(type, key) == <<Ensure("link"), Send(type, key)>>
LinkSetUp(p) == Start(p, "LinkSetUp", SetLink("on", "up"))
LinkSetDown(p) == Start(p, "LinkSetDown", SetLink("off", "up"))
LinkSetMTU(p) == Start(p, "LinkSetMTU", SetLink("on", "mtu"))
LinkSetName(p) == \E n \in Names : Start(p, "LinkSetName", SetLink("name", n))
LinkSetHardwareAddr(p) == Start(p, "LinkSetHardwareAddr", SetLink("on", "hw"))
LinkSetNsPid(p) == Start(p, "LinkSetNsPid", SetLink("netns", "pid"))
LinkSetNsFd(p) == Start(p, "LinkSetNsFd", SetLink("netns", "fd"))
LinkDel(p) == Start(p, "LinkDel", SetLink("del", "link"))

LinkSetMasterByIndex == SetLink("master", "master")
LinkSetMaster(p) == Start(p, "LinkSetMaster", <<Ensure("master")>> \o LinkSetMasterByIndex)
LinkSetNoMaster(p) == Start(p, "LinkSetNoMaster", SetLink("nomaster", "master"))

setProtinfoAttr(mode, attr) == SetLink(IF mode THEN "on" ELSE "off", attr)
LinkSetHairpin(p) == \E mode \in BOOLEAN : Start(p, "LinkSetHairpin", setProtinfoAttr(mode, "hairpin"))
LinkSetGuard(p) == \E mode \in BOOLEAN : Start(p, "LinkSetGuard", setProtinfoAttr(mode, "guard"))
LinkSetFastLeave(p) == \E mode \in BOOLEAN : Start(p, "LinkSetFastLeave", setProtinfoAttr(mode, "fastleave"))
LinkSetLearning(p) == \E mode \in BOOLEAN : Start(p, "LinkSetLearning", setProtinfoAttr(mode, "learning"))
LinkSetRootBlock(p) == \E mode \in BOOLEAN : Start(p, "LinkSetRootBlock", setProtinfoAttr(mode, "rootblock"))
LinkSetFlood(p) == \E mode \in BOOLEAN : Start(p, "LinkSetFlood", setProtinfoAttr(mode, "flood"))

(* The master can only be set once the link exists, on the index found by its name. *)
LinkAdd(p) ==
    \E master, elsewhere \in BOOLEAN :
       /\ elsewhere => Namespaces
       /\ Start(p, "LinkAdd", <<Send("create", IF elsewhere THEN "elsewhere" ELSE "here"), Ensure("link")>>
                                 \o (IF master THEN <<Ensure("master")>> \o LinkSetMasterByIndex ELSE <<>>))

LinkList(p) == Start(p, "LinkList", <<Dump("link")>>)

addrHandle(type) == SetLink(type, "addr")
AddrAdd(p) == Start(p, "AddrAdd", addrHandle("excl"))
AddrDel(p) == Start(p, "AddrDel", addrHandle("remove"))
(* The addresses are dumped first; then the link is looked up to choose among them. *)
AddrList(p) == Start(p, "AddrList", <<Dump("addr"), Ensure("link"), Filter("addr")>>)

(* Routes and neighbours carry the index their caller took from a link it looked up. *)
routeHandle(type) == SetLink(type, "route")
RouteAdd(p) == Start(p, "RouteAdd", routeHandle("excl"))
RouteDel(p) == Start(p, "RouteDel", routeHandle("remove"))
RouteList(p) == Start(p, "RouteList", <<Dump("route"), Ensure("link"), Filter("route")>>)
neighHandle(type) == SetLink(type, "neigh")
NeighAdd(p) == Start(p, "NeighAdd", neighHandle("excl"))
NeighSet(p) == Start(p, "NeighSet", neighHandle("replace"))
NeighAppend(p) == Start(p, "NeighAppend", neighHandle("append"))
NeighDel(p) == Start(p, "NeighDel", neighHandle("remove"))
NeighList(p) == Start(p, "NeighList", <<Ensure("link"), Dump("neigh"), Filter("neigh")>>)

----------------------------------------------------------------------------
(* The kernel *)

(* A request that names no index is for the device with the name it carries. *)
Target(i, s) == IF i = 0 /\ s.type = "name" THEN Named(links, s.key) ELSE i

Refused(i, s, m) ==
    \/ i \notin DOMAIN links
    \/ s.type = "name" /\ Named(links, s.key) \notin {0, i}
    \/ s.type = "master" /\ (m \notin DOMAIN links \/ m = i)
    \/ s.type = "excl" /\ s.key \in links[i].tab
    \/ s.type = "remove" /\ s.key \notin links[i].tab

(* links after request s for device i, m the index of the master. *)
Handled(i, s, m) ==
    CASE s.type = "on" -> [links EXCEPT ![i].flags = @ \cup {s.key}]
      [] s.type = "off" -> [links EXCEPT ![i].flags = @ \ {s.key}]
      [] s.type = "name" -> [links EXCEPT ![i].name = s.key]
      [] s.type = "master" -> [links EXCEPT ![i].master = m]
      [] s.type = "nomaster" -> [links EXCEPT ![i].master = 0]
      [] s.type \in {"del", "netns"} ->
            [j \in DOMAIN links \ {i} |-> IF links[j].master = i THEN [links[j] EXCEPT !.master = 0] ELSE links[j]]
      [] s.type \in {"excl", "replace", "append"} -> [links EXCEPT ![i].tab = @ \cup {s.key}]
      [] s.type = "remove" -> [links EXCEPT ![i].tab = @ \ {s.key}]

----------------------------------------------------------------------------
(* Running a program *)

Doing(p, do) == todo[p] # <<>> /\ Head(todo[p]).do = do
Return(p, err, done) == ret' = [ret EXCEPT ![p] = [@ EXCEPT !.err = err, !.done = done]]
Advance(p) == todo' = [todo EXCEPT ![p] = Tail(@)]

(* What every step may take from the others: a name that came to denote another
   device, an entry that was not there all the time. *)
Watch(p) ==
    /\ kept' = [q \in Procs |-> IF Named(links', obj[q].link.name) = kept[q] THEN kept[q]
                               ELSE IF q = p /\ Doing(p, "send") /\ Head(todo[p]).type = "create"
                                    THEN Named(links', obj[p].link.name) ELSE 0]
    /\ steady' = [q \in Procs |-> {e \in steady[q] : \E t \in {"link", "addr", "route", "neigh"} :
                                     e[1] \in DOMAIN links' /\ e \in Entries(links', t, e[1])}]

(* Which objects ensureIndex looks up: those without an index. *)
Unresolved(o) == o.index = 0

Resolved(p, i) ==
    LET who == Head(todo[p]).who IN
    /\ obj' = [obj EXCEPT ![p][who].index = i]
    /\ Advance(p)

(* ensureIndex: nothing to do. *)
ensureIndexDone(p) ==
    /\ Doing(p, "ensure") /\ ~Unresolved(obj[p][Head(todo[p]).who])
    /\ Advance(p)
    /\ UNCHANGED <<links, last, old, lookupByDump, obj, count, ret, pos, got, kept, sent, claims, steady>>

(* An old kernel answers EINVAL; from then on every lookup dumps the links. *)
NoFallBack(e) == FALSE      \* mutant: the lookup fails as with any other error
FallsBack(e) == e

LinkByName(p) ==
    /\ Doing(p, "ensure") /\ Unresolved(obj[p][Head(todo[p]).who]) /\ ~lookupByDump
    /\ \/ /\ ~old
          /\ Resolved(p, Named(links, obj[p][Head(todo[p]).who].name))
          /\ UNCHANGED lookupByDump
       \/ /\ FallsBack(old)
          /\ lookupByDump' = TRUE
          /\ UNCHANGED <<todo, obj>>
       \/ /\ Faults \/ (old /\ ~FallsBack(old))   \* the error is ignored
          /\ Advance(p)
          /\ UNCHANGED <<obj, lookupByDump>>
    /\ UNCHANGED <<links, last, old, count, ret, pos, got, kept, sent, claims, steady>>

(* linkByNameDump is LinkList and a search of its result. *)
linkByNameDump(p) ==
    LET o == obj[p][Head(todo[p]).who] IN
    /\ Doing(p, "ensure") /\ Unresolved(o) /\ lookupByDump
    /\ todo' = [todo EXCEPT ![p] = <<Dump("link"), [do |-> "search", who |-> Head(@).who]>> \o Tail(@)]
    /\ UNCHANGED <<links, last, old, lookupByDump, obj, count, ret, pos, got, kept, sent, claims, steady>>

Lowest(S) == CHOOSE i \in S : \A j \in S : i <= j
FoundIn(ls, n) == LET hits == {e[1] : e \in {x \in ls : x[2] = n}} IN IF hits = {} THEN 0 ELSE Lowest(hits)

Search(p) ==
    /\ Doing(p, "search")
    /\ Resolved(p, FoundIn({e \in got[p] : e[2] \in Names}, obj[p][Head(todo[p]).who].name))
    /\ got' = [got EXCEPT ![p] = {e \in @ : e[2] \notin Names}]
    /\ steady' = [steady EXCEPT ![p] = {e \in @ : e[2] \notin Names}]
    /\ UNCHANGED <<links, last, old, lookupByDump, count, ret, pos, kept, sent, claims>>

(* Execute reads the answers of a dump until NLMSG_DONE; the kernel goes on from the
   device it reported last, whatever happened to the devices in between. *)
EndsAtOnce(more, at) == at # 0      \* mutant: one Receive is all
EndsDump(more, at) == more = {}

DumpReceive(p) ==
    LET table == Head(todo[p]).table
        more == {i \in DOMAIN links : i > pos[p]}
    IN
    /\ Doing(p, "dump")
    /\ steady' = [steady EXCEPT ![p] = IF pos[p] # 0 THEN @
                                       ELSE @ \cup UNION {Entries(links, table, i) : i \in DOMAIN links}]
    /\ IF EndsDump(more, pos[p])
       THEN /\ Advance(p)
            /\ pos' = [pos EXCEPT ![p] = 0]
            /\ UNCHANGED got
       ELSE /\ more # {}
            /\ got' = [got EXCEPT ![p] = @ \cup Entries(links, table, Lowest(more))]
            /\ pos' = [pos EXCEPT ![p] = Lowest(more)]
            /\ UNCHANGED todo
    /\ UNCHANGED <<links, last, old, lookupByDump, obj, count, ret, kept, sent, claims>>

(* A failed dump fails the list; ensureIndex goes on without an index. *)
DumpFails(p) ==
    /\ Faults /\ Doing(p, "dump")
    /\ pos' = [pos EXCEPT ![p] = 0]
    /\ IF Len(todo[p]) > 1 /\ todo[p][2].do = "search"
       THEN /\ todo' = [todo EXCEPT ![p] = Tail(Tail(@))]
            /\ got' = [got EXCEPT ![p] = {e \in @ : e[2] \notin Names}]
            /\ steady' = [steady EXCEPT ![p] = {e \in @ : e[2] \notin Names}]
            /\ UNCHANGED ret
       ELSE /\ todo' = [todo EXCEPT ![p] = <<>>]
            /\ Return(p, TRUE, FALSE)
            /\ UNCHANGED <<got, steady>>
    /\ UNCHANGED <<links, last, old, lookupByDump, obj, count, kept, sent, claims>>

(* A list of addresses or routes with a link that was not found is empty; NeighList
   takes index 0 for every link. *)
Keeps(table, i, e) == e[1] = i \/ (table = "neigh" /\ i = 0)

FilterList(p) ==
    /\ Doing(p, "filter")
    /\ got' = [got EXCEPT ![p] = {e \in @ : Keeps(Head(todo[p]).table, obj[p].link.index, e)}]
    /\ Advance(p)
    /\ UNCHANGED <<links, last, old, lookupByDump, obj, count, ret, pos, kept, sent, claims, steady>>

(* Execute: the answer to a request is an errno, 0 for an acknowledgement. *)
ErrnoLost(refused) == FALSE    \* mutant: an error answer is taken for an acknowledgement
Errno(refused) == refused

Answered(p, refused, done) ==
    \/ /\ ~Errno(refused)
       /\ Advance(p)
       /\ ret' = [ret EXCEPT ![p] = [@ EXCEPT !.done = done]]
    \/ /\ Errno(refused) \/ Faults
       /\ todo' = [todo EXCEPT ![p] = <<>>]
       /\ Return(p, TRUE, FALSE)

Execute(p) ==
    LET s == Head(todo[p])
        i == obj[p].link.index
        m == obj[p].master.index
        refused == Refused(Target(i, s), s, m)
    IN
    /\ Doing(p, "send") /\ s.type # "create"
    /\ links' = IF refused \/ i = 0 THEN links ELSE Handled(i, s, m)
    /\ sent' = [sent EXCEPT ![p] = [index |-> i, kept |-> kept[p]]]
    /\ Answered(p, refused, ~refused /\ i # 0)
    /\ Watch(p)
    /\ UNCHANGED <<last, old, lookupByDump, obj, count, pos, got, claims>>

LinkAddFlags == {"CREATE", "EXCL", "ACK"}

CreateLink(p) ==
    LET s == Head(todo[p])
        there == Named(links, obj[p].link.name)
        refused == (there # 0 /\ "EXCL" \in LinkAddFlags) \/ (there = 0 /\ last = MaxIndex)
        made == IF there # 0 THEN there ELSE last + 1
    IN
    /\ Doing(p, "send") /\ s.type = "create" /\ s.key = "here"
    /\ IF refused \/ there # 0 THEN UNCHANGED <<links, last>>
       ELSE /\ links' = [i \in DOMAIN links \cup {made} |-> IF i = made THEN Device(obj[p].link.name) ELSE links[i]]
            /\ last' = made
    /\ claims' = IF refused THEN claims ELSE [claims EXCEPT ![made] = @ + 1]
    /\ Answered(p, refused, ~refused)
    /\ Watch(p)
    /\ UNCHANGED <<old, lookupByDump, obj, count, pos, got, sent>>

(* The other namespace may have a link of this name, or not. *)
CreateElsewhere(p) ==
    /\ Doing(p, "send") /\ Head(todo[p]).type = "create" /\ Head(todo[p]).key = "elsewhere"
    /\ \E refused \in BOOLEAN : Answered(p, refused, ~refused)
    /\ UNCHANGED <<links, last, old, lookupByDump, obj, count, pos, got, kept, sent, claims, steady>>

Next ==
    \E p \in Procs :
       \/ LinkSetUp(p) \/ LinkSetDown(p) \/ LinkSetMTU(p) \/ LinkSetName(p) \/ LinkSetHardwareAddr(p)
       \/ LinkSetNsPid(p) \/ LinkSetNsFd(p) \/ LinkDel(p) \/ LinkSetMaster(p) \/ LinkSetNoMaster(p)
       \/ LinkSetHairpin(p) \/ LinkSetGuard(p) \/ LinkSetFastLeave(p) \/ LinkSetLearning(p)
       \/ LinkSetRootBlock(p) \/ LinkSetFlood(p) \/ LinkAdd(p) \/ LinkList(p)
       \/ AddrAdd(p) \/ AddrDel(p) \/ AddrList(p) \/ RouteAdd(p) \/ RouteDel(p) \/ RouteList(p)
       \/ NeighAdd(p) \/ NeighSet(p) \/ NeighAppend(p) \/ NeighDel(p) \/ NeighList(p)
       \/ ensureIndexDone(p) \/ LinkByName(p) \/ linkByNameDump(p) \/ Search(p)
       \/ DumpReceive(p) \/ DumpFails(p) \/ FilterList(p)
       \/ Execute(p) \/ CreateLink(p) \/ CreateElsewhere(p)

Spec == Init /\ [][Next]_vars

----------------------------------------------------------------------------
(* The request of p was for the device its name denoted during the whole call. *)
TargetsKept(p) ==
    sent[p].kept # 0 => sent[p].index = sent[p].kept \/ (Faults /\ sent[p].index = 0)

(* An operation on a link given by its name goes to the device that bore the name
   during the whole call, if there was one, whatever the others create, rename and
   delete meanwhile, and also when the kernel knows no lookup by name; only a failed
   Receive makes ensureIndex send no index. *)
TargetsNamed == \A p \in Procs : TargetsKept(p)

(* An operation that returned nil was carried out by the kernel, all its requests; and of two
   callers of LinkAdd who want the same name one fails. *)
NilMeansDone ==
    /\ \A p \in Procs : todo[p] = <<>> /\ ~ret[p].err /\ sent[p].kept # 0 => ret[p].done
    /\ \A i \in 1..MaxIndex : claims[i] <= 1

(* What was there from the first to the last answer of a dump is in the list, while
   devices come and go: for a list of one link, if its name denoted the same device. *)
SteadyIsListed ==
    \A p \in Procs :
        /\ todo[p] = <<>> /\ ~ret[p].err
        /\ ret[p].op \in {"LinkList", "AddrList", "RouteList", "NeighList"}
        => {e \in steady[p] : ret[p].op = "LinkList" \/ (e[1] = kept[p] /\ obj[p].link.index = kept[p])}
              \subseteq got[p]

----------------------------------------------------------------------------
(* The inductive invariant behind these: what the kernel, a program and the histories have in
   common at every step, whoever else is at work. *)

Tables == {"addr", "route", "neigh"}
Dumps == {"link"} \cup Tables
Settings == {"up", "mtu", "hw", "pid", "fd", "link", "master", "hairpin", "guard", "fastleave", "learning",
             "rootblock", "flood", "here", "elsewhere"}
Steps ==
    [do : {"ensure", "search"}, who : {"link", "master"}]
      \cup [do : {"dump", "filter"}, table : Dumps]
      \cup [do : {"send"}, type : {"name"}, key : Names]
      \cup [do : {"send"}, type : {"excl", "replace", "append", "remove"}, key : Tables]
      \cup [do : {"send"}, type : {"on", "off", "master", "nomaster", "del", "netns", "create"}, key : Settings]

Listed == Nat \X (Names \cup Tables)
Objects == [link : [name : Names, index : Nat], master : [name : Names, index : Nat]]
Devices == [name : Names, master : Nat, flags : SUBSET Settings, tab : SUBSET Tables]

KernelTypeOK ==
    /\ last \in 1 .. MaxIndex /\ DOMAIN links \subseteq 1 .. last
    /\ \A i \in DOMAIN links : links[i] \in Devices
    /\ links = [i \in DOMAIN links |-> links[i]]
    /\ claims \in [1 .. MaxIndex -> Nat]
LinkTypeOK ==
    /\ KernelTypeOK
    /\ old \in BOOLEAN /\ lookupByDump \in BOOLEAN
    /\ todo \in [Procs -> Seq(Steps)]
    /\ obj \in [Procs -> Objects]
    /\ ret \in [Procs -> [op : Ops \cup {"none"}, err : BOOLEAN, done : BOOLEAN]]
    /\ pos \in [Procs -> Nat]
    /\ got \in [Procs -> SUBSET Listed]
    /\ steady \in [Procs -> SUBSET Listed]
    /\ kept \in [Procs -> Nat]
    /\ sent \in [Procs -> [index : Nat, kept : Nat]]

(* Of the constants: names of links are no names of tables, and the first device is the bridge. *)
LinkConstants ==
    /\ Bridge \in Names /\ Names \cap Dumps = {}
    /\ MaxIndex \in Nat \ {0} /\ OldKernels \subseteq BOOLEAN

(* The kernel gives no name to two devices. *)
NamesUnique == \A i, j \in DOMAIN links : links[i].name = links[j].name => i = j

(* An index is claimed by the one caller whose LinkAdd made the device. *)
ClaimedOnce == \A i \in 1 .. MaxIndex : claims[i] <= 1 /\ (i > last => claims[i] = 0)

Creates(s) == s.do = "send" /\ s.type = "create"
Requests(s) == s.do = "send" /\ s.type # "create"
LooksUp(s) == s.do \in {"ensure", "search"} /\ s.who = "link"

(* A link is created first and set last, a list filtered last, and what is searched was dumped
   just before. *)
Placed(op, prog, k) ==
    /\ Requests(prog[k]) => k = Len(prog)
    /\ Creates(prog[k]) => k = 1
    /\ prog[k].do = "filter" => k = Len(prog) /\ op # "LinkList"
    /\ prog[k].do = "search" => k = 1 \/ prog[k - 1] = Dump("link")
    /\ Requests(prog[k]) /\ prog[k].type = "name" => op = "LinkSetName"
InOrder(op, prog) == \A k \in DOMAIN prog : Placed(op, prog, k)

(* kept is the device of this name; the object has its index or none. *)
NameHeld(p) ==
    /\ kept[p] # 0 => kept[p] = Named(links, obj[p].link.name)
    /\ kept[p] # 0 /\ obj[p].link.index # 0 => obj[p].link.index = kept[p]

(* A request that is still to come has its lookup before it, or has had it; one that follows the
   creation of the link has it before it. *)
LookedUp(p) ==
    (\E k \in DOMAIN todo[p] : Requests(todo[p][k])) =>
       \/ \E k \in DOMAIN todo[p] : LooksUp(todo[p][k])
       \/ ~Creates(Head(todo[p])) /\ (Faults \/ kept[p] = 0 \/ obj[p].link.index = kept[p])

(* Of the links dumped for a lookup the one with this name is the device that is kept, and it
   was met if the kernel is past its index. *)
NameDumped(p) ==
    /\ \A e \in got[p] : kept[p] # 0 /\ e[2] = obj[p].link.name => e[1] = kept[p]
    /\ kept[p] # 0 /\ Doing(p, "search") => <<kept[p], obj[p].link.name>> \in got[p]
    /\ kept[p] # 0 /\ Doing(p, "dump") /\ Head(todo[p]).table = "link" =>
          kept[p] > pos[p] \/ <<kept[p], obj[p].link.name>> \in got[p]

TableOf(e) == IF e[2] \in Names THEN "link" ELSE e[2]

(* What was there since a dump began is there, and in the list unless the dump has not come to
   it or it is of another link than the one listed. *)
SteadyThere(p) == \A e \in steady[p] : e[1] \in DOMAIN links /\ e \in Entries(links, TableOf(e), e[1])
SteadyKnown(p) ==
    ~ret[p].err =>
       \A e \in steady[p] :
          \/ e \in got[p]
          \/ Doing(p, "dump") /\ TableOf(e) = Head(todo[p]).table /\ e[1] > pos[p]
          \/ todo[p] = <<>> /\ ret[p].op # "LinkList" /\ ~(e[1] = kept[p] /\ obj[p].link.index = kept[p])

(* An operation under way has failed in nothing and set nothing; before its first step it knows
   nothing. *)
Underway(p) ==
    /\ todo[p] # <<>> => sent[p].kept = 0 /\ ~ret[p].err
    /\ ~Doing(p, "dump") => pos[p] = 0
    /\ todo[p] # <<>> /\ Creates(Head(todo[p])) => got[p] = {} /\ obj[p].link.index = 0

(* What returned nil is done, but for a name: a request without an index is for the device that
   has the new name already. *)
Carried(p) ==
    todo[p] = <<>> /\ ~ret[p].err /\ sent[p].kept # 0 =>
       ret[p].done \/ (ret[p].op = "LinkSetName" /\ sent[p].index = 0)

Sound(p) ==
    /\ InOrder(ret[p].op, todo[p]) /\ NameHeld(p) /\ LookedUp(p) /\ NameDumped(p)
    /\ SteadyThere(p) /\ SteadyKnown(p) /\ Underway(p) /\ Carried(p) /\ TargetsKept(p)

LinkInv == LinkTypeOK /\ NamesUnique /\ ClaimedOnce /\ \A p \in Procs : Sound(p)
====
