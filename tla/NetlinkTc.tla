---- MODULE NetlinkTc ----
(* Traffic control in the netlink package: qdiscs, classes and filters of one link, the
   requests the operations make and what the lists read back. The kernel's table is
   external. Numbers of 32 bits are taken modulo U, percentages and rates are small
   numbers. Duplicate and Corrupt of netem go the way of Loss and Reorder, a peak rate
   that of a rate; buffers, computed in floating point, are left out, and so are the rates of
   64 bits other programs may set, which parseTbfData reads from 4 bytes. *)
EXTENDS Naturals, Sequences, FiniteSets, TLC

CONSTANTS U,          \* 2^32 of the model
          Rates,      \* rates in bits, some of them at least 8 * U
          Kinds,      \* kinds of qdisc the caller uses
          Others,     \* names of the objects other programs create
          MaxOps

VARIABLES table,    \* the kernel's objects: [what, parent, handle, info, opt]
          clock,    \* /proc/net/psched: ticks per microsecond, 0 if it cannot be read
          last,     \* the last operation: [op, arg, err, before]
          count

vars == <<table, clock, last, count>>

HANDLE_ROOT == 0
HANDLE_INGRESS == 9
IngressHandle == 99
Only(S, f) == [x \in S |-> f[x]]

----------------------------------------------------------------------------
(* Numbers *)

MakeHandle(major, minor) == major * 65536 + minor
MajorMinor(h) == <<(h \div 65536) % 65536, h % 65536>>
Swap16(x) == (x % 256) * 256 + x \div 256
FilterInfo(prio, protocol) == MakeHandle(prio, Swap16(protocol))
DelInfo(prio, protocol) == MakeHandle(prio, Swap16(protocol))

TickInUsec == clock
time2Tick(t) == (t * TickInUsec) % U
Percentage2u32(p) == IF p = 100 THEN U - 1 ELSE ((U - 1) * p) \div 100

(* AlignToAtm, AdjustSize: the bytes a packet takes on the line. *)
AlignToAtm(size) == (size \div 48 + (IF size % 48 > 0 THEN 1 ELSE 0)) * 53
AdjustSize(sz, mpu, linklayer) ==
    LET s == IF sz < mpu THEN mpu ELSE sz IN IF linklayer = "atm" THEN AlignToAtm(s) ELSE s

(* CalcRtable: the shift that brings the sizes up to the MTU into 256 cells, stored in the
   rate; the size a cell stands for. The table itself is an array, passed by value: the
   caller's stays zero. *)
TableMtu(mtu) == IF mtu = 0 THEN 2047 ELSE mtu
OneShort(m, c) == m \div 2^c > 511        \* mutant: a cell log that is too small
TooWide(m, c) == m \div 2^c > 255
CellLog(mtu) == CHOOSE c \in 0..24 : ~TooWide(TableMtu(mtu), c) /\ \A d \in 0..(c - 1) : TooWide(TableMtu(mtu), d)
SizeOf(i, log, mpu, linklayer) == AdjustSize((i + 1) * 2^log, mpu, linklayer)
CalcRtable(rtab, log, mpu, linklayer) == rtab

----------------------------------------------------------------------------
(* Objects *)

NewPrio == [kind |-> "prio", Bands |-> 3, Map |-> <<1, 2, 2, 2, 1, 2, 0, 0, 1, 1, 1, 1, 1, 1, 1, 1>>]
NewHtb == [kind |-> "htb", Version |-> 3, Defcls |-> 0, Rate2Quantum |-> 10]
NewTbf(rate) == [kind |-> "tbf", Rate |-> rate, Limit |-> 1, Buffer |-> 2]

(* A correlation counts only with the thing it correlates; a reordering needs a gap. *)
NewNetem(n) ==
    LET loss == Percentage2u32(n.Loss)
        reorder == Percentage2u32(n.ReorderProb)
        latency == time2Tick(n.Latency)
    IN [kind |-> "netem", Latency |-> latency, Loss |-> loss,
        Gap |-> IF reorder > 0 /\ n.Gap = 0 THEN 1 ELSE n.Gap,
        Jitter |-> IF latency > 0 THEN time2Tick(n.Jitter) ELSE n.Jitter,
        DelayCorr |-> IF n.Latency > 0 /\ n.Jitter > 0 THEN Percentage2u32(n.DelayCorr) ELSE 0,
        LossCorr |-> IF loss > 0 THEN Percentage2u32(n.LossCorr) ELSE 0,
        ReorderProb |-> reorder, ReorderCorr |-> Percentage2u32(n.ReorderCorr)]

NewHtbClass(rate, ceil) ==
    [kind |-> "htb", Rate |-> rate \div 8, Ceil |-> (IF ceil \div 8 = 0 THEN rate ELSE ceil) \div 8, Quantum |-> 10]

NewFw(mask, indev, rate, mtu) ==
    LET limited == rate \div 8 # 0 IN
    [kind |-> "fw", Mask |-> mask, InDev |-> indev, ClassId |-> 1, Rate |-> rate \div 8, Mtu |-> mtu,
     CellLog |-> IF limited THEN CellLog(mtu) ELSE 0,
     Rtab |-> IF limited THEN CalcRtable("zero", CellLog(mtu), 0, "ethernet") ELSE "zero"]
U32(redir) == [kind |-> "u32", RedirIndex |-> redir]

(* qdiscPayload, classPayload and the options of FilterAdd: what goes to the kernel. *)
Cut(o, fields) == [f \in DOMAIN o |-> IF f \in fields THEN o[f] % U ELSE o[f]]
OnlyDelay(o) == o.DelayCorr > 0      \* mutant: the correlation of losses alone is not sent
HasCorr(o) == o.DelayCorr > 0 \/ o.LossCorr > 0
NetemOptions(o) ==
    Only({"kind", "Latency", "Loss", "Gap", "Jitter"}, o)
    @@ (IF HasCorr(o) THEN Only({"DelayCorr", "LossCorr"}, o) ELSE <<>>)
    @@ (IF o.ReorderProb > 0 THEN Only({"ReorderProb", "ReorderCorr"}, o) ELSE <<>>)
FwOptions(o) ==
    Only({"kind"} \cup {f \in {"Mask", "ClassId"} : o[f] # 0} \cup {f \in {"InDev"} : o[f] # "none"}, o)
    @@ (IF o.Rate # 0 \/ o.Mtu # 0 THEN Only({"Rate", "Mtu", "CellLog"}, o) ELSE <<>>)
    @@ (IF o.Rate # 0 THEN Only({"Rtab"}, o) ELSE <<>>)
Payload(o) ==
    CASE o.kind = "tbf" -> Cut(o, {"Rate"})
      [] o.kind = "netem" -> NetemOptions(o)
      [] o.kind = "htb" /\ "Ceil" \in DOMAIN o -> Cut(o, {"Rate", "Ceil"})
      [] o.kind = "fw" -> FwOptions(o)
      [] OTHER -> o
IngressRefused(x) == x.opt.kind = "ingress" /\ x.parent # HANDLE_INGRESS

----------------------------------------------------------------------------
(* The lists. What is not reported stays zero; a kind the package does not know has no
   options (qdiscs and classes) or is left out (filters). *)
Parse(o) ==
    CASE o.kind = "netem" -> o @@ [DelayCorr |-> 0, LossCorr |-> 0, ReorderProb |-> 0, ReorderCorr |-> 0]
      [] o.kind = "fw" -> o @@ [Mask |-> 0, InDev |-> "none", ClassId |-> 0, Rate |-> 0, Mtu |-> 0, CellLog |-> 0, Rtab |-> "zero"]
      [] o.kind \in {"prio", "htb", "tbf", "ingress", "u32"} -> o
      [] OTHER -> [kind |-> o.kind]
Read(objects) == {[x EXCEPT !.opt = Parse(x.opt)] : x \in objects}
Of(what) == {x \in table : x.what = what}
QdiscList == Read(Of("qdisc"))
ClassList == Read(Of("class"))

(* With each u32 filter the kernel reports its hash table, which has no selector: only
   the detailed one is returned. Priority and protocol share a word. *)
Reported == Of("filter") \cup {[x EXCEPT !.handle = 0, !.opt = [kind |-> "u32"]] : x \in {y \in Of("filter") : y.opt.kind = "u32"}}
Detailed(o) == o.kind = "fw" \/ (o.kind = "u32" /\ "RedirIndex" \in DOMAIN o)
FilterList ==
    {[x EXCEPT !.info = <<MajorMinor(@)[1], Swap16(MajorMinor(@)[2])>>] : x \in Read({y \in Reported : Detailed(y.opt)})}

----------------------------------------------------------------------------
(* The kernel *)

Same(x, y) ==
    /\ x.what = y.what /\ x.parent = y.parent
    /\ x.what = "qdisc" \/ (x.handle = y.handle /\ x.info = y.info)
Present(x) == {y \in table : Same(x, y)}
Under(h) == {y \in table : y.what # "qdisc" /\ y.parent = h}
Refused(x, flags) ==
    \/ /\ x.what = "qdisc"
       /\ \E y \in Present(x) : IF y.handle = x.handle THEN y.opt.kind # x.opt.kind ELSE "REPLACE" \notin flags
    \/ x.what = "qdisc" /\ (x.parent = HANDLE_INGRESS) # (x.opt.kind = "ingress")
    \/ x.what # "qdisc" /\ ~\E q \in Of("qdisc") : q.handle = x.parent /\ (x.what = "class" => q.opt.kind = "htb")
    \/ Present(x) = {} /\ "CREATE" \notin flags
    \/ Present(x) # {} /\ "EXCL" \in flags
Displaced(x) ==   \* what goes when x takes the place of another
    Present(x) \cup UNION {Under(y.handle) : y \in {z \in Present(x) : z.what = "qdisc" /\ z.handle # x.handle}}
Deleted(x) ==     \* what the kernel deletes: priority 0 stands for every filter of the parent
    IF x.what = "filter" /\ MajorMinor(x.info)[1] = 0 THEN {y \in Of("filter") : y.parent = x.parent}
    ELSE LET found == {y \in Present(x) : y.handle = x.handle}
         IN found \cup UNION {Under(y.handle) : y \in {z \in found : z.what = "qdisc"}}

----------------------------------------------------------------------------
(* Operations *)

Did(op, x, err) ==
    /\ count' = count + 1
    /\ last' = [op |-> op, arg |-> x, err |-> err, before |-> table]
    /\ UNCHANGED clock

(* qdiscModify, classModify and FilterAdd. *)
Modify(op, x, flags) ==
    LET sent == [x EXCEPT !.opt = Payload(@)] IN
    IF IngressRefused(x) \/ Refused(sent, flags) THEN Did(op, x, TRUE) /\ UNCHANGED table
    ELSE Did(op, x, FALSE) /\ table' = (table \ Displaced(sent)) \cup {sent}

Delete(op, x) == Did(op, x, Deleted(x) = {}) /\ table' = table \ Deleted(x)

Netems == [Latency : {0, 3}, Jitter : {1}, Loss : {0, 10, 100}, DelayCorr : {0, 25}, LossCorr : {25},
           Gap : {0, 2}, ReorderProb : {0, 50}, ReorderCorr : {25}]
QdiscOptions ==
    UNION {CASE k = "prio" -> {NewPrio} [] k = "htb" -> {NewHtb} [] k = "tbf" -> {NewTbf(r) : r \in Rates}
             [] k = "netem" -> {NewNetem(n) : n \in Netems} [] OTHER -> {[kind |-> k]} : k \in Kinds}
Object(what, parent, handle, info, opt) == [what |-> what, parent |-> parent, handle |-> handle, info |-> info, opt |-> opt]
Qdiscs == {Object("qdisc", HANDLE_ROOT, h, 0, o) : <<h, o>> \in {1, 2} \X QdiscOptions}
          \cup {Object("qdisc", p, IngressHandle, 0, [kind |-> "ingress"]) : p \in {HANDLE_ROOT, HANDLE_INGRESS}}
Classes == {Object("class", h, 10 * h + 1, 0, NewHtbClass(r, c)) : <<h, r, c>> \in {1, 2} \X Rates \X {0, 24}}
Fws == {NewFw(f[1], f[2], f[3], f[4]) : f \in {0, 6} \X {"none", "eth0"} \X {0, 80} \X {0, 255, 256, 9000}}
ETH_P_IP == 2048
Filters(Info(_, _)) == {Object("filter", 1, 16, Info(1, ETH_P_IP), U32(2))} \cup {Object("filter", 1, 6, Info(2, ETH_P_IP), o) : o \in Fws}

QdiscDel == \E x \in Qdiscs : Delete("QdiscDel", x)
QdiscChangeFlags == {}
QdiscChange == \E x \in Qdiscs : Modify("QdiscChange", x, QdiscChangeFlags)
QdiscReplace == \E x \in Qdiscs : Modify("QdiscReplace", x, {"CREATE", "REPLACE"})
AddReplaces == {"CREATE", "REPLACE"}     \* mutant
QdiscAddFlags == {"CREATE", "EXCL"}
QdiscAdd == \E x \in Qdiscs : Modify("QdiscAdd", x, QdiscAddFlags)

ClassDel == \E x \in Classes : Delete("ClassDel", x)
ClassChange == \E x \in Classes : Modify("ClassChange", x, {})
ClassReplaceFlags == {"CREATE"}
ClassReplace == \E x \in Classes : Modify("ClassReplace", x, ClassReplaceFlags)
ClassAdd == \E x \in Classes : Modify("ClassAdd", x, {"CREATE", "EXCL"})

FilterDel == \E x \in Filters(DelInfo) : Delete("FilterDel", x)
FilterAdd == \E x \in Filters(FilterInfo) : Modify("FilterAdd", x, {"CREATE", "EXCL"})

(* Another program adds an object of a kind this package does not use. *)
Foreign ==
    [fq |-> Object("qdisc", HANDLE_ROOT, 3, 0, [kind |-> "fq", Limit |-> 1]),
     basic |-> Object("filter", 1, 1, FilterInfo(3, ETH_P_IP), [kind |-> "basic", Ematch |-> 1])]
OtherProgram ==
    \E n \in Others : LET x == Foreign[n] IN
        /\ ~Refused(x, {"CREATE", "EXCL"})
        /\ table' = table \cup {x}
        /\ Did("other", x, FALSE)

Init ==
    /\ table = {}
    /\ clock \in {0, 16}
    /\ last = [op |-> "none", err |-> FALSE, before |-> {}]
    /\ count = 0

Next ==
    /\ count < MaxOps
    /\ \/ QdiscDel \/ QdiscChange \/ QdiscReplace \/ QdiscAdd
       \/ ClassDel \/ ClassChange \/ ClassReplace \/ ClassAdd
       \/ FilterDel \/ FilterAdd \/ OtherProgram
Spec == Init /\ [][Next]_vars

----------------------------------------------------------------------------
Nil(ops) == last.op \in ops /\ ~last.err

(* An operation leaves alone what it does not name. QdiscAdd, ClassAdd and FilterAdd take nothing
   away that another caller or program set up, whatever they return; QdiscChange and ClassChange
   change in place, with the classes and filters under a qdisc; FilterDel of what FilterAdd
   added takes away that filter and no other. *)
OthersStay ==
    /\ last.op \in {"QdiscAdd", "ClassAdd", "FilterAdd"} => last.before \subseteq table
    /\ last.op \in {"QdiscChange", "ClassChange"} =>
          {[y EXCEPT !.opt = 0] : y \in table} = {[y EXCEPT !.opt = 0] : y \in last.before}
    /\ last.op = "FilterDel" =>
          LET mine(S) == {y \in S : y.what = "filter" /\ y.parent = last.arg.parent /\ y.handle = last.arg.handle}
          IN table = last.before \ mine(last.before)

Given(o) == IF o.kind = "netem" /\ o.ReorderProb = 0 THEN [o EXCEPT !.ReorderCorr = 0] ELSE o
Fits(o) == \A f \in {"Rate", "Ceil"} \cap DOMAIN o : o[f] < U
ListOf(x) ==
    CASE x.what = "qdisc" -> QdiscList [] x.what = "class" -> ClassList [] OTHER -> FilterList

(* What was added, changed or replaced is listed as it was given if its rates fit in 32 bits.
   The correlation of a reordering that never happens is not sent. FilterList returns each u32
   and fw filter once: neither the hash tables the kernel reports beside them nor others. *)
ListedAsGiven ==
    /\ Cardinality(FilterList) = Cardinality({x \in Of("filter") : x.opt.kind \in {"u32", "fw"}})
    /\ Nil({"QdiscAdd", "QdiscChange", "QdiscReplace", "ClassAdd", "ClassChange", "ClassReplace", "FilterAdd"})
         /\ Fits(last.arg.opt)
       => \E y \in ListOf(last.arg) : /\ y.parent = last.arg.parent /\ y.handle = last.arg.handle
                                      /\ y.opt = Given(last.arg.opt)
                                      /\ y.what = "filter" => y.info[1] \in 1..2 /\ y.info[2] = ETH_P_IP

(* The cells of a rate policed by a filter reach up to its MTU, on every link layer and with
   every minimal size, and cells half as large would not. *)
CellsCoverMtu ==
    \A x \in Of("filter") : "CellLog" \in DOMAIN x.opt /\ x.opt.Rate # 0 =>
        LET mtu == TableMtu(x.opt.Mtu)
            log == x.opt.CellLog
        IN /\ \A ll \in {"ethernet", "atm"}, mpu \in {0, 64} : SizeOf(255, log, mpu, ll) >= mtu
           /\ log > 0 => SizeOf(255, log - 1, 0, "ethernet") <= mtu
====
