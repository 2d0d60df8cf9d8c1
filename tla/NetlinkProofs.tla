---------------------------- MODULE NetlinkProofs ----------------------------
(* The operations of the netlink package reach the device they name, return nil only for what  *)
(* the kernel did, and list what was there all the time: for any number of callers, devices    *)
(* and operations.                                                                              *)
EXTENDS Netlink, TLAPS, WellFoundedInduction

-----------------------------------------------------------------------------
(* Programs *)

LEMMA TailAt ==
  ASSUME NEW S, NEW s \in Seq(S), s # <<>>
  PROVE  /\ Tail(s) \in Seq(S) /\ Len(Tail(s)) = Len(s) - 1 /\ Len(s) \in Nat \ {0}
         /\ Head(s) = s[1] /\ s[1] \in S
         /\ \A k \in DOMAIN Tail(s) : k + 1 \in DOMAIN s /\ Tail(s)[k] = s[k + 1]
         /\ \A k \in DOMAIN s : k = 1 \/ (k - 1 \in DOMAIN Tail(s) /\ Tail(s)[k - 1] = s[k])
OBVIOUS

LEMMA FirstAt == ASSUME NEW S, NEW s \in Seq(S), s # <<>> PROVE 1 \in DOMAIN s
OBVIOUS

LEMMA OneStep ==
  ASSUME NEW S, NEW s \in Seq(S), Len(s) = 1
  PROVE  DOMAIN s = {1} /\ s # <<>> /\ Head(s) = s[1]
<1>1. DOMAIN s = 1 .. 1 /\ s # <<>> /\ Head(s) = s[1]
  OBVIOUS
<1>2. 1 .. 1 = {1}
  OBVIOUS
<1> QED BY <1>1, <1>2, Zenon

LEMMA StepFields ==
  ASSUME NEW s \in Steps
  PROVE  /\ s.do \in {"ensure", "search", "dump", "filter", "send"}
         /\ s.do \in {"ensure", "search"} => s.who \in {"link", "master"}
         /\ s.do \in {"dump", "filter"} => s.table \in Dumps
BY DEF Steps

(* What is left of a program is in order, and creates nothing more. *)
LEMMA TailInOrder ==
  ASSUME NEW op, NEW s \in Seq(Steps), s # <<>>, InOrder(op, s)
  PROVE  /\ InOrder(op, Tail(s))
         /\ Tail(s) # <<>> => ~Creates(Head(Tail(s)))
         /\ Tail(s) # <<>> /\ Head(Tail(s)).do = "search" => s[1] = Dump("link")
         /\ Requests(s[1]) => Tail(s) = <<>>
         /\ s[1].do = "filter" => Tail(s) = <<>> /\ op # "LinkList"
<1>1. /\ Tail(s) \in Seq(Steps) /\ Len(Tail(s)) = Len(s) - 1 /\ Len(s) \in Nat \ {0}
      /\ \A k \in DOMAIN Tail(s) : k + 1 \in DOMAIN s /\ Tail(s)[k] = s[k + 1]
      /\ DOMAIN s = 1 .. Len(s) /\ DOMAIN Tail(s) = 1 .. Len(Tail(s))
  BY TailAt
<1>2. InOrder(op, Tail(s))
  <2> SUFFICES ASSUME NEW k \in DOMAIN Tail(s) PROVE Placed(op, Tail(s), k)
    BY Zenon DEF InOrder
  <2>1. k + 1 \in DOMAIN s /\ Tail(s)[k] = s[k + 1] /\ k \in Nat /\ k >= 1
    BY <1>1
  <2>2. k # 1 => Tail(s)[k - 1] = s[k]
    BY <1>1, <2>1
  <2>3. Placed(op, s, k + 1)
    BY <2>1, Zenon DEF InOrder
  <2>5. (k + 1) - 1 = k /\ k + 1 # 1
    BY <2>1
  <2>4. \A n \in Nat : k + 1 = n => k = n - 1
    BY <2>1
  <2> QED BY <1>1, <2>1, <2>2, <2>3, <2>4, <2>5, Zenon DEF Placed
<1>3. ASSUME Tail(s) # <<>>
      PROVE  2 \in DOMAIN s /\ Head(Tail(s)) = s[2]
  BY <1>1, <1>3
<1>4. 1 \in DOMAIN s
  BY <1>1
<1>5. Len(s) = 1 => Tail(s) = <<>>
  BY <1>1
<1>6. Placed(op, s, 1) /\ (Tail(s) # <<>> => Placed(op, s, 2)) /\ 2 # 1 /\ 2 - 1 = 1
  BY <1>3, <1>4 DEF InOrder
<1>7. Tail(s) # <<>> => ~Creates(s[2])
  BY <1>6, Zenon DEF Placed
<1>8. Tail(s) # <<>> /\ s[2].do = "search" => s[1] = Dump("link")
  BY <1>6, Zenon DEF Placed
<1>9. (Requests(s[1]) => Len(s) = 1) /\ (s[1].do = "filter" => Len(s) = 1 /\ op # "LinkList")
  BY <1>6, Zenon DEF Placed
<1> QED BY <1>2, <1>3, <1>5, <1>7, <1>8, <1>9, Zenon

(* What linkByNameDump puts in the place of ensureIndex *)
LEMMA DumpInOrder ==
  ASSUME NEW op, NEW s \in Seq(Steps), s # <<>>, InOrder(op, s), s[1].do = "ensure",
         NEW t \in Seq(Steps), Len(t) = Len(s) + 1,
         t[1] = Dump("link"), t[2].do = "search",
         \A k \in 2 .. Len(s) : t[k + 1] = s[k]
  PROVE  InOrder(op, t)
<1>1. Len(s) \in Nat \ {0} /\ DOMAIN s = 1 .. Len(s) /\ DOMAIN t = 1 .. Len(s) + 1
  OBVIOUS
<1> SUFFICES ASSUME NEW k \in DOMAIN t PROVE Placed(op, t, k)
  BY Zenon DEF InOrder
<1>2. CASE k = 1
  BY <1>2 DEF Placed, Dump, Requests, Creates
<1>3. CASE k = 2
  BY <1>3 DEF Placed, Requests, Creates
<1>4. CASE k > 2
  <2>1. k - 1 \in 2 .. Len(s) /\ (k - 1) + 1 = k /\ k - 1 \in DOMAIN s /\ k \in Nat /\ k - 1 # 1
    BY <1>1, <1>4
  <2>2. t[k] = s[k - 1] /\ Placed(op, s, k - 1)
    BY <2>1, Zenon DEF InOrder
  <2>3. (k - 1 = Len(s) => k = Len(t)) /\ (k - 1) - 1 \in DOMAIN s
    BY <1>1, <2>1
  <2>4. t[k].do = "search" => t[k - 1] = Dump("link")
    <3>1. t[k].do = "search" => s[(k - 1) - 1] = Dump("link")
      BY <2>1, <2>2, Zenon DEF Placed
    <3>2. CASE (k - 1) - 1 = 1
      <4>1. Dump("link").do # "ensure"
        BY Zenon DEF Dump
      <4> QED BY <3>1, <3>2, <4>1, Zenon
    <3>3. CASE (k - 1) - 1 # 1
      <4>1. (k - 1) - 1 \in 2 .. Len(s) /\ ((k - 1) - 1) + 1 = k - 1
        BY <1>1, <2>1, <3>3
      <4> QED BY <3>1, <4>1, Zenon
    <3> QED BY <3>2, <3>3, Zenon
  <2> QED BY <2>1, <2>2, <2>3, <2>4, Zenon DEF Placed
<1>5. k = 1 \/ k = 2 \/ k > 2
  BY <1>1
<1> QED BY <1>2, <1>3, <1>4, <1>5, Zenon

-----------------------------------------------------------------------------
(* Names and entries *)

LEMMA NamedIs ==
  ASSUME NEW ls, \A i, j \in DOMAIN ls : ls[i].name = ls[j].name => i = j, 0 \notin DOMAIN ls, NEW n
  PROVE  /\ Named(ls, n) # 0 => Named(ls, n) \in DOMAIN ls /\ ls[Named(ls, n)].name = n
         /\ \A i \in DOMAIN ls : ls[i].name = n => Named(ls, n) = i
         /\ Named(ls, n) \in DOMAIN ls \cup {0}
<1>1. CASE \E i \in DOMAIN ls : ls[i].name = n
  <2>1. Named(ls, n) = CHOOSE i \in DOMAIN ls : ls[i].name = n
    BY <1>1, Zenon DEF Named
  <2>2. Named(ls, n) \in DOMAIN ls /\ ls[Named(ls, n)].name = n
    BY <1>1, <2>1, Zenon
  <2> QED BY <2>2, Zenon
<1>2. CASE ~\E i \in DOMAIN ls : ls[i].name = n
  BY <1>2, Zenon DEF Named
<1> QED BY <1>1, <1>2, Zenon

LEMMA NamedHere ==
  ASSUME LinkTypeOK, NamesUnique
  PROVE  /\ 0 \notin DOMAIN links
         /\ \A n : Named(links, n) # 0 => Named(links, n) \in DOMAIN links /\ links[Named(links, n)].name = n
         /\ \A n, i : i \in DOMAIN links /\ links[i].name = n => Named(links, n) = i
         /\ \A n : Named(links, n) \in Nat
<1>1. 0 \notin DOMAIN links /\ DOMAIN links \subseteq Nat
  BY DEF LinkTypeOK, KernelTypeOK
<1>2. \A i, j \in DOMAIN links : links[i].name = links[j].name => i = j
  BY Zenon DEF NamesUnique
<1>3. 0 \in Nat
  OBVIOUS
<1> QED BY <1>1, <1>2, <1>3, NamedIs, Zenon

(* An entry of a device is one of the table its second part tells. *)
LEMMA EntryIs ==
  ASSUME LinkConstants, NEW ls, NEW i, NEW t, NEW e, e \in Entries(ls, t, i), t \in Dumps,
         ls[i].name \in Names
  PROVE  /\ e[1] = i /\ TableOf(e) = t /\ e \in Entries(ls, TableOf(e), e[1])
         /\ i \in Nat => e \in Listed
         /\ e[2] \in Names => e[2] = ls[i].name
<1>1. CASE t = "link"
  <2>1. e = <<i, ls[i].name>>
    BY <1>1, Zenon DEF Entries
  <2>2. e[1] = i /\ e[2] = ls[i].name /\ (i \in Nat => e \in Listed)
    BY <2>1, Zenon DEF Listed
  <2> QED BY <1>1, <2>2, Zenon DEF TableOf
<1>2. CASE t # "link"
  <2>1. e = <<i, t>>
    BY <1>2, Zenon DEF Entries
  <2>2. t \notin Names /\ t \in Tables
    BY <1>2, Zenon DEF LinkConstants, Dumps
  <2>3. e[1] = i /\ e[2] = t /\ (i \in Nat => e \in Listed)
    BY <2>1, <2>2, Zenon DEF Listed
  <2> QED BY <1>2, <2>2, <2>3, Zenon DEF TableOf
<1> QED BY <1>1, <1>2, Zenon

-----------------------------------------------------------------------------
(* What a step of one caller leaves of another *)

Kin(p) == <<todo[p], obj[p], ret[p], pos[p], got[p], sent[p]>>

(* What the caller has of its own stays, its name may be lost and entries may go. *)
Spared(q) ==
    /\ Kin(q)' = Kin(q)
    /\ kept'[q] # 0 => kept'[q] = kept[q] /\ kept[q] = Named(links', obj[q].link.name)
    /\ steady'[q] \subseteq steady[q] /\ SteadyThere(q)'
    /\ 0 \notin DOMAIN links'

LEMMA SparedIsSound ==
  ASSUME NEW q \in Procs, Sound(q), Spared(q)
  PROVE  Sound(q)'
<1> DEFINE td == todo[q]  ob == obj[q]  re == ret[q]  ps == pos[q]  go == got[q]  se == sent[q]
<1>1. todo'[q] = td /\ obj'[q] = ob /\ ret'[q] = re /\ pos'[q] = ps /\ got'[q] = go /\ sent'[q] = se
  BY DEF Spared, Kin
<1>2. kept'[q] # 0 => kept'[q] = kept[q]
  BY Zenon DEF Spared
<1>3. InOrder(ret[q].op, todo[q])'
  BY <1>1, Zenon DEF Sound, InOrder, Placed
<1>4. NameHeld(q)'
  BY <1>1, <1>2, Zenon DEF Sound, NameHeld, Spared
<1>5. LookedUp(q)'
  BY <1>1, <1>2, Zenon DEF Sound, LookedUp
<1>6. NameDumped(q)'
  BY <1>1, <1>2, Zenon DEF Sound, NameDumped, Doing
<1>7. SteadyThere(q)'
  BY Zenon DEF Spared
<1>8. SteadyKnown(q)'
  <2>1. SUFFICES ASSUME ~re.err, NEW e \in steady'[q]
        PROVE  \/ e \in go
               \/ Doing(q, "dump") /\ TableOf(e) = Head(td).table /\ e[1] > ps
               \/ td = <<>> /\ re.op # "LinkList" /\ ~(e[1] = kept'[q] /\ ob.link.index = kept'[q])
    BY <1>1, Zenon DEF SteadyKnown, Doing, TableOf
  <2>2. e \in steady[q] /\ e[1] # 0
    BY Zenon DEF Spared, SteadyThere
  <2>3. \/ e \in go
        \/ Doing(q, "dump") /\ TableOf(e) = Head(td).table /\ e[1] > ps
        \/ td = <<>> /\ re.op # "LinkList" /\ ~(e[1] = kept[q] /\ ob.link.index = kept[q])
    BY <2>1, <2>2, Zenon DEF Sound, SteadyKnown
  <2> QED BY <1>2, <2>2, <2>3, Zenon
<1>9. Underway(q)'
  BY <1>1, Zenon DEF Sound, Underway, Doing
<1>10. Carried(q)' /\ TargetsKept(q)'
  BY <1>1, Zenon DEF Sound, Carried, TargetsKept
<1> QED BY <1>3, <1>4, <1>5, <1>6, <1>7, <1>8, <1>9, <1>10, Zenon DEF Sound

(* A step that leaves the kernel alone *)
LEMMA QuietSpares ==
  ASSUME LinkInv, NEW p \in Procs, UNCHANGED links,
         \A q \in Procs \ {p} : Kin(q)' = Kin(q) /\ kept'[q] = kept[q] /\ steady'[q] = steady[q],
         Sound(p)'
  PROVE  \A q \in Procs : Sound(q)'
<1> SUFFICES ASSUME NEW q \in Procs, q # p PROVE Sound(q)'
  BY Zenon
<1>1. Sound(q) /\ 0 \notin DOMAIN links
  BY NamedHere, Zenon DEF LinkInv
<1>2. SteadyThere(q)'
  BY <1>1, Zenon DEF Sound, SteadyThere, Entries, TableOf
<1>3. kept'[q] # 0 => kept'[q] = kept[q] /\ kept[q] = Named(links', obj[q].link.name)
  BY <1>1, Zenon DEF Sound, NameHeld
<1>4. Spared(q)
  BY <1>1, <1>2, <1>3, Zenon DEF Spared
<1> QED BY <1>1, <1>4, SparedIsSound, Zenon

Local(p) == \A q \in Procs \ {p} : Kin(q)' = Kin(q) /\ kept'[q] = kept[q] /\ steady'[q] = steady[q]

LEMMA Quiet ==
  ASSUME LinkInv, NEW p \in Procs, LinkTypeOK', UNCHANGED <<links, last, claims>>, Local(p), Sound(p)'
  PROVE  LinkInv'
<1>1. NamesUnique' /\ ClaimedOnce'
  BY Zenon DEF LinkInv, NamesUnique, ClaimedOnce
<1>2. \A q \in Procs : Sound(q)'
  BY QuietSpares, Zenon DEF Local
<1> QED BY <1>1, <1>2, Zenon DEF LinkInv

LEMMA Except ==
  ASSUME NEW S, NEW T, NEW f \in [S -> T], NEW p \in S, NEW v \in T
  PROVE  /\ [f EXCEPT ![p] = v] \in [S -> T] /\ [f EXCEPT ![p] = v][p] = v
         /\ \A q \in S \ {p} : [f EXCEPT ![p] = v][q] = f[q]
BY Zenon

-----------------------------------------------------------------------------
(* Starting an operation *)

Program(op, prog) ==
    /\ prog \in Seq(Steps) /\ prog # <<>> /\ InOrder(op, prog)
    /\ Head(prog).do # "search"
    /\ (\E k \in DOMAIN prog : Requests(prog[k])) => \E k \in DOMAIN prog : LooksUp(prog[k])

LEMMA StartKeeps ==
  ASSUME LinkConstants, LinkInv, NEW p \in Procs, NEW op, NEW prog, Program(op, prog), Start(p, op, prog)
  PROVE  LinkInv'
<1>a. LinkTypeOK /\ NamesUnique
  BY Zenon DEF LinkInv
<1>1. PICK n \in Names :
        /\ obj' = [obj EXCEPT ![p] = [link |-> [name |-> n, index |-> 0],
                                      master |-> [name |-> Bridge, index |-> 0]]]
        /\ kept' = [kept EXCEPT ![p] = Named(links, n)]
  BY Zenon DEF Start
<1>2. /\ todo' = [todo EXCEPT ![p] = prog] /\ op \in Ops
      /\ ret' = [ret EXCEPT ![p] = [op |-> op, err |-> FALSE, done |-> FALSE]]
      /\ pos' = [pos EXCEPT ![p] = 0] /\ got' = [got EXCEPT ![p] = {}]
      /\ sent' = [sent EXCEPT ![p] = [index |-> 0, kept |-> 0]]
      /\ steady' = [steady EXCEPT ![p] = {}]
      /\ UNCHANGED <<links, last, old, lookupByDump, claims>>
  BY Zenon DEF Start
<1> DEFINE o == [link |-> [name |-> n, index |-> 0], master |-> [name |-> Bridge, index |-> 0]]
           r == [op |-> op, err |-> FALSE, done |-> FALSE]
           s == [index |-> 0, kept |-> 0]
<1>3. /\ o \in Objects /\ r \in [op : Ops \cup {"none"}, err : BOOLEAN, done : BOOLEAN]
      /\ s \in [index : Nat, kept : Nat] /\ 0 \in Nat
      /\ o.link.index = 0 /\ o.link.name = n /\ r.op = op /\ ~r.err /\ s.kept = 0
  BY <1>2, Zenon DEF Objects, LinkConstants
<1>4. Named(links, n) \in Nat
  BY <1>a, NamedHere, Zenon
<1> HIDE DEF o, r, s
<1>5. /\ todo' \in [Procs -> Seq(Steps)] /\ todo'[p] = prog
      /\ obj' \in [Procs -> Objects] /\ obj'[p] = o
      /\ ret' \in [Procs -> [op : Ops \cup {"none"}, err : BOOLEAN, done : BOOLEAN]] /\ ret'[p] = r
      /\ pos' \in [Procs -> Nat] /\ pos'[p] = 0
      /\ got' \in [Procs -> SUBSET Listed] /\ got'[p] = {}
      /\ steady' \in [Procs -> SUBSET Listed] /\ steady'[p] = {}
      /\ kept' \in [Procs -> Nat] /\ kept'[p] = Named(links, n)
      /\ sent' \in [Procs -> [index : Nat, kept : Nat]] /\ sent'[p] = s
  BY <1>a, <1>1, <1>2, <1>3, <1>4, Zenon DEF LinkTypeOK, Program, o, r, s
<1>6. LinkTypeOK'
  <2>1. KernelTypeOK'
    BY <1>a, <1>2, Zenon DEF LinkTypeOK, KernelTypeOK
  <2> QED BY <1>a, <1>2, <1>5, <2>1, Zenon DEF LinkTypeOK
<1>7. Local(p)
  <2>1. \A q \in Procs \ {p} : /\ todo'[q] = todo[q] /\ obj'[q] = obj[q] /\ ret'[q] = ret[q] /\ pos'[q] = pos[q]
                              /\ got'[q] = got[q] /\ sent'[q] = sent[q]
                              /\ kept'[q] = kept[q] /\ steady'[q] = steady[q]
    BY <1>a, <1>1, <1>2, Zenon DEF LinkTypeOK
  <2> QED BY <2>1, Zenon DEF Local, Kin
<1>8. Sound(p)'
  <2>1. InOrder(ret[p].op, todo[p])' /\ LookedUp(p)'
    BY <1>3, <1>5, Zenon DEF Program, InOrder, Placed, LookedUp
  <2>2. NameHeld(p)'
    BY <1>2, <1>3, <1>5, Zenon DEF NameHeld
  <2>3. \A k \in Nat : k # 0 => k > 0
    OBVIOUS
  <2>4. NameDumped(p)'
    BY <1>3, <1>4, <1>5, <2>3, Zenon DEF Program, NameDumped, Doing
  <2>5. SteadyThere(p)' /\ SteadyKnown(p)'
    BY <1>5, Zenon DEF SteadyThere, SteadyKnown
  <2>6. Underway(p)' /\ Carried(p)' /\ TargetsKept(p)'
    BY <1>3, <1>5, Zenon DEF Underway, Carried, TargetsKept
  <2> QED BY <2>1, <2>2, <2>4, <2>5, <2>6, Zenon DEF Sound
<1> QED BY <1>2, <1>6, <1>7, <1>8, Quiet, Zenon

(* The steps the programs are made of *)
LEMMA StepsAre ==
  /\ \A w \in {"link", "master"} :
       /\ Ensure(w) \in Steps /\ Ensure(w).do = "ensure" /\ ~Requests(Ensure(w)) /\ ~Creates(Ensure(w))
       /\ LooksUp(Ensure("link"))
  /\ \A t \in Dumps :
       /\ Dump(t) \in Steps /\ Dump(t).do = "dump" /\ ~Requests(Dump(t)) /\ ~Creates(Dump(t))
       /\ Filter(t) \in Steps /\ Filter(t).do = "filter" /\ ~Requests(Filter(t)) /\ ~Creates(Filter(t))
  /\ \A type, key : /\ Send(type, key).do = "send" /\ Send(type, key).type = type /\ Send(type, key).key = key
                    /\ Creates(Send(type, key)) <=> type = "create"
                    /\ Requests(Send(type, key)) <=> type # "create"
  /\ \A key \in Names : Send("name", key) \in Steps
  /\ \A key \in Tables : \A type \in {"excl", "replace", "append", "remove"} : Send(type, key) \in Steps
  /\ \A key \in Settings : \A type \in {"on", "off", "master", "nomaster", "del", "netns", "create"} :
        Send(type, key) \in Steps
BY Zenon DEF Steps, Ensure, Dump, Filter, Send, Requests, Creates, LooksUp

LEMMA SetLinkProgram ==
  ASSUME NEW op, NEW type, NEW key, Send(type, key) \in Steps, type # "create", type = "name" => op = "LinkSetName"
  PROVE  Program(op, SetLink(type, key))
<1> DEFINE a == Ensure("link")  b == Send(type, key)  s == <<a, b>>
<1>1. a \in Steps /\ a.do = "ensure" /\ ~Requests(a) /\ ~Creates(a) /\ LooksUp(a)
  BY StepsAre, Zenon
<1>2. b \in Steps /\ b.do = "send" /\ b.type = type /\ ~Creates(b)
  BY StepsAre, Zenon
<1> HIDE DEF a, b
<1>3. s \in Seq(Steps) /\ s # <<>> /\ Len(s) = 2 /\ DOMAIN s = {1, 2} /\ s[1] = a /\ s[2] = b /\ Head(s) = a
  BY <1>1, <1>2
<1> HIDE DEF s
<1>4. "ensure" # "search" /\ "ensure" # "filter" /\ "send" # "search" /\ "send" # "filter"
  OBVIOUS
<1>5. InOrder(op, s)
  BY <1>1, <1>2, <1>3, <1>4, Zenon DEF InOrder, Placed
<1>6. Program(op, s)
  BY <1>1, <1>3, <1>4, <1>5, Zenon DEF Program
<1> QED BY <1>6, Zenon DEF SetLink, s, a, b

(* A step put before a program *)
LEMMA Prefixed ==
  ASSUME NEW op, NEW a \in Steps, NEW s, Program(op, s),
         NEW t \in Seq(Steps), Len(t) = Len(s) + 1, t[1] = a, \A k \in 1 .. Len(s) : t[k + 1] = s[k],
         a.do = "ensure" \/ Creates(a), \A k \in DOMAIN s : ~Creates(s[k])
  PROVE  Program(op, t)
<1>1. s \in Seq(Steps) /\ s # <<>> /\ InOrder(op, s) /\ Head(s).do # "search"
  BY Zenon DEF Program
<1>2. Len(s) \in Nat \ {0} /\ DOMAIN s = 1 .. Len(s)
  BY <1>1
<1>3. /\ t \in Seq(Steps) /\ t # <<>> /\ Len(t) = Len(s) + 1 /\ DOMAIN t = 1 .. Len(s) + 1
      /\ t[1] = a /\ Head(t) = a /\ \A k \in 1 .. Len(s) : t[k + 1] = s[k]
  BY <1>1, <1>2
<1>5. a.do # "search" /\ a.do # "filter" /\ ~Requests(a)
  BY Zenon DEF Creates, Requests
<1>6. ASSUME NEW k \in DOMAIN t, k # 1
      PROVE  k - 1 \in DOMAIN s /\ t[k] = s[k - 1] /\ Placed(op, s, k - 1)
             /\ (k - 1 = Len(s) => k = Len(t))
  <2>1. k - 1 \in 1 .. Len(s) /\ (k - 1) + 1 = k /\ (k - 1 = Len(s) => k = Len(t))
    BY <1>2, <1>3, <1>6
  <2> QED BY <1>1, <1>2, <1>3, <2>1, Zenon DEF InOrder
<1>7. ASSUME NEW k \in DOMAIN t PROVE Placed(op, t, k)
  <2>1. CASE k = 1
    BY <1>3, <1>5, <2>1, Zenon DEF Placed
  <2>2. CASE k # 1
    <3>1. k - 1 \in DOMAIN s /\ t[k] = s[k - 1] /\ Placed(op, s, k - 1) /\ (k - 1 = Len(s) => k = Len(t))
      BY <1>6, <2>2, Zenon
    <3>2. ~Creates(t[k])
      BY <3>1, Zenon
    <3>3. k - 1 = 1 => t[k].do # "search"
      BY <1>1, <3>1
    <3>4. k - 1 # 1 => t[k - 1] = s[(k - 1) - 1]
      <4>1. k - 1 # 1 => (k - 1) - 1 \in 1 .. Len(s) /\ ((k - 1) - 1) + 1 = k - 1
        BY <1>2, <3>1
      <4> QED BY <1>3, <4>1, Zenon
    <3> QED BY <3>1, <3>2, <3>3, <3>4, Zenon DEF Placed
  <2> QED BY <2>1, <2>2, Zenon
<1>8. \A k \in DOMAIN s : k + 1 \in DOMAIN t /\ t[k + 1] = s[k]
  BY <1>2, <1>3
<1>9. (\E k \in DOMAIN t : Requests(t[k])) => \E k \in DOMAIN t : LooksUp(t[k])
  <2>1. ASSUME NEW k \in DOMAIN t, Requests(t[k]) PROVE k - 1 \in DOMAIN s /\ Requests(s[k - 1])
    BY <1>3, <1>5, <1>6, <2>1, Zenon
  <2> QED BY <1>8, <2>1, Zenon DEF Program
<1> QED BY <1>3, <1>5, <1>7, <1>9, Zenon DEF Program, InOrder

LEMMA NothingCreated ==
  ASSUME NEW s \in Seq(Steps), NEW t \in Seq(Steps), Len(t) = Len(s) + 1, ~Creates(t[1]),
         \A k \in 1 .. Len(s) : t[k + 1] = s[k], \A k \in DOMAIN s : ~Creates(s[k])
  PROVE  \A k \in DOMAIN t : ~Creates(t[k])
<1> SUFFICES ASSUME NEW k \in DOMAIN t, k # 1 PROVE ~Creates(t[k])
  BY Zenon
<1>1. k - 1 \in 1 .. Len(s) /\ k - 1 \in DOMAIN s /\ (k - 1) + 1 = k
  OBVIOUS
<1> QED BY <1>1, Zenon

LEMMA SetMasterProgram ==
  ASSUME NEW op
  PROVE  /\ Program(op, <<Ensure("master")>> \o LinkSetMasterByIndex)
         /\ \A k \in DOMAIN (<<Ensure("master")>> \o LinkSetMasterByIndex) :
              ~Creates((<<Ensure("master")>> \o LinkSetMasterByIndex)[k])
<1> DEFINE a == Ensure("master")  b == Ensure("link")  c == Send("master", "master")
           s == SetLink("master", "master")  t == <<a>> \o s
<1>1. a \in Steps /\ a.do = "ensure" /\ ~Creates(a) /\ b \in Steps /\ ~Creates(b) /\ c \in Steps /\ ~Creates(c)
  <2>1. "master" # "create" /\ "master" \in Settings
    BY Zenon DEF Settings
  <2> QED BY <2>1, StepsAre, Zenon
<1>2. Program(op, s)
  <2>1. "master" # "create" /\ "master" # "name"
    BY Zenon
  <2> QED BY <1>1, <2>1, SetLinkProgram, Zenon
<1>3. s = <<b, c>>
  BY Zenon DEF SetLink
<1> HIDE DEF a, b, c, s
<1>6. s \in Seq(Steps) /\ \A k \in DOMAIN s : ~Creates(s[k])
  BY <1>1, <1>3
<1>7. <<a>> \in Seq(Steps) /\ Len(<<a>>) = 1 /\ <<a>>[1] = a
  BY <1>1
<1>4. t \in Seq(Steps) /\ Len(t) = Len(s) + 1 /\ t[1] = a /\ \A k \in 1 .. Len(s) : t[k + 1] = s[k]
  BY <1>6, <1>7
<1> HIDE DEF t
<1>5. Program(op, t)
  BY <1>1, <1>2, <1>4, <1>6, Prefixed, Zenon
<1>8. \A k \in DOMAIN t : ~Creates(t[k])
  BY <1>1, <1>4, <1>6, NothingCreated, Zenon
<1> QED BY <1>5, <1>8, Zenon DEF t, s, a, LinkSetMasterByIndex

LEMMA LinkAddProgram ==
  ASSUME NEW op, NEW key \in Settings, NEW master \in BOOLEAN
  PROVE  Program(op, <<Send("create", key), Ensure("link")>>
                        \o (IF master THEN <<Ensure("master")>> \o LinkSetMasterByIndex ELSE <<>>))
<1> DEFINE c == Send("create", key)  e == Ensure("link")
           m == IF master THEN <<Ensure("master")>> \o LinkSetMasterByIndex ELSE <<>>
           s == <<e>> \o m  t == <<c, e>> \o m
<1>1. /\ c \in Steps /\ Creates(c) /\ ~Requests(c)
      /\ e \in Steps /\ e.do = "ensure" /\ ~Creates(e) /\ ~Requests(e) /\ LooksUp(e)
  BY StepsAre, Zenon
<1>2. m \in Seq(Steps) /\ (m = <<>> \/ Program(op, m)) /\ \A k \in DOMAIN m : ~Creates(m[k])
  <2>1. CASE master
    BY <2>1, SetMasterProgram, Zenon DEF Program
  <2>2. CASE ~master
    <3>1. m = <<>>
      BY <2>2, Zenon
    <3> HIDE DEF m
    <3> QED BY <3>1
  <2> QED BY <2>1, <2>2, Zenon
<1> HIDE DEF c, e, m
<1>3. /\ s \in Seq(Steps) /\ Len(s) = Len(m) + 1 /\ s[1] = e /\ \A k \in 1 .. Len(m) : s[k + 1] = m[k]
      /\ t \in Seq(Steps) /\ Len(t) = Len(s) + 1 /\ t[1] = c /\ \A k \in 1 .. Len(s) : t[k + 1] = s[k]
  BY <1>1, <1>2
<1> HIDE DEF s, t
<1>4. Program(op, s) /\ \A k \in DOMAIN s : ~Creates(s[k])
  <2>1. CASE m = <<>>
    <3>0. Len(m) = 0
      BY <2>1, Zenon
    <3>1. Len(s) = 1
      BY <1>3, <3>0
    <3>3. DOMAIN s = {1} /\ s # <<>> /\ Head(s) = e
      BY <1>3, <3>1, OneStep, Zenon
    <3>2. "ensure" # "search" /\ "ensure" # "filter"
      OBVIOUS
    <3> QED BY <1>1, <1>3, <3>1, <3>2, <3>3, Zenon DEF Program, InOrder, Placed
  <2>2. CASE Program(op, m)
    <3>1. Program(op, s)
      BY <1>1, <1>2, <1>3, <2>2, Prefixed, Zenon
    <3>2. \A k \in DOMAIN s : ~Creates(s[k])
      BY <1>1, <1>2, <1>3, NothingCreated, Zenon
    <3> QED BY <3>1, <3>2, Zenon
  <2> QED BY <1>2, <2>1, <2>2, Zenon
<1>5. Program(op, t)
  BY <1>1, <1>3, <1>4, Prefixed, Zenon
<1> QED BY <1>5, Zenon DEF t, m, c, e

LEMMA ListPrograms ==
  /\ Program("LinkList", <<Dump("link")>>)
  /\ \A t \in Tables : \A op : op # "LinkList" =>
       /\ Program(op, <<Dump(t), Ensure("link"), Filter(t)>>)
       /\ Program(op, <<Ensure("link"), Dump(t), Filter(t)>>)
<1>1. ASSUME NEW a \in Steps, a.do = "dump", ~Requests(a), ~Creates(a), NEW op
      PROVE  Program(op, <<a>>)
  <2> DEFINE s == <<a>>
  <2>1. s \in Seq(Steps) /\ s # <<>> /\ Len(s) = 1 /\ DOMAIN s = {1} /\ s[1] = a /\ Head(s) = a
    OBVIOUS
  <2> HIDE DEF s
  <2>2. "dump" # "search" /\ "dump" # "filter"
    OBVIOUS
  <2>3. Program(op, s)
    BY <1>1, <2>1, <2>2, Zenon DEF Program, InOrder, Placed
  <2> QED BY <2>3, Zenon DEF s
<1>2. ASSUME NEW a \in Steps, NEW b \in Steps, NEW c \in Steps, NEW op, op # "LinkList",
             a.do \in {"dump", "ensure"}, b.do \in {"dump", "ensure"}, c.do = "filter",
             ~Requests(a), ~Requests(b), ~Requests(c), ~Creates(a), ~Creates(b), ~Creates(c)
      PROVE  Program(op, <<a, b, c>>)
  <2> DEFINE s == <<a, b, c>>
  <2>1. /\ s \in Seq(Steps) /\ s # <<>> /\ Len(s) = 3 /\ DOMAIN s = {1, 2, 3}
        /\ s[1] = a /\ s[2] = b /\ s[3] = c /\ Head(s) = a
    OBVIOUS
  <2> HIDE DEF s
  <2>2. "dump" # "search" /\ "ensure" # "search" /\ "filter" # "search" /\ "dump" # "filter" /\ "ensure" # "filter"
    OBVIOUS
  <2>3. InOrder(op, s)
    BY <1>2, <2>1, <2>2, Zenon DEF InOrder, Placed
  <2>4. Program(op, s)
    BY <1>2, <2>1, <2>2, <2>3, Zenon DEF Program
  <2> QED BY <2>4, Zenon DEF s
<1>3. "link" \in Dumps /\ Tables \subseteq Dumps
  BY Zenon DEF Dumps
<1>4. \A t \in Dumps : /\ Dump(t) \in Steps /\ Dump(t).do = "dump" /\ ~Requests(Dump(t)) /\ ~Creates(Dump(t))
                       /\ Filter(t) \in Steps /\ Filter(t).do = "filter" /\ ~Requests(Filter(t)) /\ ~Creates(Filter(t))
  BY StepsAre, Zenon
<1>5. LET e == Ensure("link") IN e \in Steps /\ e.do = "ensure" /\ ~Requests(e) /\ ~Creates(e)
  BY StepsAre, Zenon
<1>6. Program("LinkList", <<Dump("link")>>)
  BY <1>1, <1>3, <1>4, Zenon
<1>7. ASSUME NEW t \in Tables, NEW op, op # "LinkList"
      PROVE  /\ Program(op, <<Dump(t), Ensure("link"), Filter(t)>>)
             /\ Program(op, <<Ensure("link"), Dump(t), Filter(t)>>)
  <2> DEFINE d == Dump(t)  f == Filter(t)  e == Ensure("link")
  <2>1. /\ d \in Steps /\ d.do \in {"dump", "ensure"} /\ ~Requests(d) /\ ~Creates(d)
        /\ f \in Steps /\ f.do = "filter" /\ ~Requests(f) /\ ~Creates(f)
        /\ e \in Steps /\ e.do \in {"dump", "ensure"} /\ ~Requests(e) /\ ~Creates(e)
    BY <1>3, <1>4, <1>5, Zenon
  <2> HIDE DEF d, f, e
  <2>2. Program(op, <<d, e, f>>)
    BY <1>2, <1>7, <2>1, Zenon
  <2>3. Program(op, <<e, d, f>>)
    BY <1>2, <1>7, <2>1, Zenon
  <2> QED BY <2>2, <2>3, Zenon DEF d, f, e
<1> QED BY <1>6, <1>7, Zenon

LEMMA StartsKeep ==
  ASSUME LinkConstants, LinkInv, NEW p \in Procs
  PROVE  /\ LinkSetUp(p) \/ LinkSetDown(p) \/ LinkSetMTU(p) \/ LinkSetHardwareAddr(p) => LinkInv'
         /\ LinkSetNsPid(p) \/ LinkSetNsFd(p) \/ LinkDel(p) \/ LinkSetNoMaster(p) => LinkInv'
         /\ LinkSetHairpin(p) \/ LinkSetGuard(p) \/ LinkSetFastLeave(p) => LinkInv'
         /\ LinkSetLearning(p) \/ LinkSetRootBlock(p) \/ LinkSetFlood(p) => LinkInv'
         /\ LinkSetName(p) \/ LinkSetMaster(p) \/ LinkAdd(p) => LinkInv'
         /\ AddrAdd(p) \/ AddrDel(p) \/ RouteAdd(p) \/ RouteDel(p) => LinkInv'
         /\ NeighAdd(p) \/ NeighSet(p) \/ NeighAppend(p) \/ NeighDel(p) => LinkInv'
         /\ LinkList(p) \/ AddrList(p) \/ RouteList(p) \/ NeighList(p) => LinkInv'
<1>a. "on" # "create" /\ "off" # "create" /\ "nomaster" # "create" /\ "del" # "create" /\ "netns" # "create"
  OBVIOUS
<1>b. "on" # "name" /\ "off" # "name" /\ "nomaster" # "name" /\ "del" # "name" /\ "netns" # "name"
  BY Zenon
<1>1. ASSUME NEW op, NEW type \in {"on", "off", "nomaster", "del", "netns"}, NEW key \in Settings,
             Start(p, op, SetLink(type, key))
      PROVE  LinkInv'
  <2>1. Send(type, key) \in Steps /\ type # "create" /\ type # "name"
    BY <1>a, <1>b, StepsAre, Zenon
  <2> QED BY <1>1, <2>1, SetLinkProgram, StartKeeps, Zenon
<1>2. ASSUME NEW op, NEW type \in {"excl", "replace", "append", "remove"}, NEW key \in Tables,
             Start(p, op, SetLink(type, key))
      PROVE  LinkInv'
  <2>1. Send(type, key) \in Steps
    BY StepsAre, Zenon
  <2>2. type # "create" /\ type # "name"
    BY Zenon
  <2> QED BY <1>2, <2>1, <2>2, SetLinkProgram, StartKeeps, Zenon
<1>3. ASSUME NEW n \in Names, Start(p, "LinkSetName", SetLink("name", n)) PROVE LinkInv'
  <2>1. Send("name", n) \in Steps
    BY StepsAre, Zenon
  <2>2. "name" # "create"
    BY Zenon
  <2> QED BY <1>3, <2>1, <2>2, SetLinkProgram, StartKeeps, Zenon
<1>4. /\ LinkSetUp(p) \/ LinkSetDown(p) \/ LinkSetMTU(p) \/ LinkSetHardwareAddr(p) => LinkInv'
      /\ LinkSetNsPid(p) \/ LinkSetNsFd(p) \/ LinkDel(p) \/ LinkSetNoMaster(p) => LinkInv'
  BY <1>1, Zenon DEF LinkSetUp, LinkSetDown, LinkSetMTU, LinkSetHardwareAddr, LinkSetNsPid, LinkSetNsFd,
                     LinkDel, LinkSetNoMaster, Settings
<1>5. ASSUME NEW op, NEW mode \in BOOLEAN, NEW attr \in Settings, Start(p, op, setProtinfoAttr(mode, attr))
      PROVE  LinkInv'
  BY <1>1, <1>5, Zenon DEF setProtinfoAttr
<1>6. /\ LinkSetHairpin(p) \/ LinkSetGuard(p) \/ LinkSetFastLeave(p) => LinkInv'
      /\ LinkSetLearning(p) \/ LinkSetRootBlock(p) \/ LinkSetFlood(p) => LinkInv'
  BY <1>5, Zenon DEF LinkSetHairpin, LinkSetGuard, LinkSetFastLeave, LinkSetLearning, LinkSetRootBlock,
                     LinkSetFlood, Settings
<1>7. LinkSetName(p) => LinkInv'
  BY <1>3, Zenon DEF LinkSetName
<1>8. LinkSetMaster(p) => LinkInv'
  BY SetMasterProgram, StartKeeps, Zenon DEF LinkSetMaster
<1>9. LinkAdd(p) => LinkInv'
  <2>1. "here" \in Settings /\ "elsewhere" \in Settings
    BY Zenon DEF Settings
  <2> SUFFICES ASSUME NEW master \in BOOLEAN, NEW elsewhere \in BOOLEAN,
                      Start(p, "LinkAdd", <<Send("create", IF elsewhere THEN "elsewhere" ELSE "here"), Ensure("link")>>
                              \o (IF master THEN <<Ensure("master")>> \o LinkSetMasterByIndex ELSE <<>>))
               PROVE  LinkInv'
    BY Zenon DEF LinkAdd
  <2>2. (IF elsewhere THEN "elsewhere" ELSE "here") \in Settings
    BY <2>1, Zenon
  <2> QED BY <2>2, LinkAddProgram, StartKeeps, Zenon
<1>10. /\ AddrAdd(p) \/ AddrDel(p) \/ RouteAdd(p) \/ RouteDel(p) => LinkInv'
       /\ NeighAdd(p) \/ NeighSet(p) \/ NeighAppend(p) \/ NeighDel(p) => LinkInv'
  BY <1>2, Zenon DEF AddrAdd, AddrDel, addrHandle, RouteAdd, RouteDel, routeHandle, NeighAdd, NeighSet, NeighAppend,
                     NeighDel, neighHandle, Tables
<1>11. LinkList(p) \/ AddrList(p) \/ RouteList(p) \/ NeighList(p) => LinkInv'
  <2>1. /\ "AddrList" # "LinkList" /\ "RouteList" # "LinkList" /\ "NeighList" # "LinkList"
        /\ "addr" \in Tables /\ "route" \in Tables /\ "neigh" \in Tables
    BY DEF Tables
  <2> QED BY <2>1, ListPrograms, StartKeeps, Zenon DEF LinkList, AddrList, RouteList, NeighList
<1> QED BY <1>4, <1>6, <1>7, <1>8, <1>9, <1>10, <1>11, Zenon

-----------------------------------------------------------------------------
(* Looking a link up *)

(* A step of p that takes a lookup from its program: the object has the index that is kept, or
   the lookup was of the master, or failed. *)
Looked(p) ==
    /\ todo[p] # <<>> /\ Head(todo[p]).do \in {"ensure", "search"}
    /\ todo'[p] = Tail(todo[p])
    /\ ret'[p] = ret[p] /\ pos'[p] = pos[p] /\ sent'[p] = sent[p] /\ kept'[p] = kept[p] /\ links' = links
    /\ obj'[p].link.name = obj[p].link.name
    /\ kept[p] # 0 /\ obj'[p].link.index # 0 => obj'[p].link.index = kept[p]
    /\ LooksUp(Head(todo[p])) => Faults \/ kept[p] = 0 \/ obj'[p].link.index = kept[p]
    /\ ~LooksUp(Head(todo[p])) => obj'[p].link.index = obj[p].link.index
    /\ got'[p] \subseteq got[p]
    /\ steady'[p] \subseteq steady[p] \cap got'[p]

LEMMA LookedIsSound ==
  ASSUME LinkInv, NEW p \in Procs, Looked(p)
  PROVE  Sound(p)'
<1> DEFINE s == todo[p]  t == Tail(todo[p])
<1>a. LinkTypeOK /\ NamesUnique /\ Sound(p)
  BY Zenon DEF LinkInv
<1>b. s \in Seq(Steps) /\ s # <<>> /\ InOrder(ret[p].op, s)
  BY <1>a, Zenon DEF LinkTypeOK, Sound, Looked
<1>c. /\ t \in Seq(Steps) /\ Head(s) = s[1]
      /\ \A k \in DOMAIN t : k + 1 \in DOMAIN s /\ t[k] = s[k + 1]
      /\ \A k \in DOMAIN s : k = 1 \/ (k - 1 \in DOMAIN t /\ t[k - 1] = s[k])
  BY <1>b, TailAt, Zenon
<1>d. /\ InOrder(ret[p].op, t) /\ (t # <<>> => ~Creates(Head(t)))
      /\ t # <<>> /\ Head(t).do = "search" => s[1] = Dump("link")
  BY <1>b, TailInOrder, Zenon
<1>e. /\ Head(s).do # "dump" /\ Dump("link").do = "dump"
      /\ \A k \in Nat : k # 0 => k > 0
  BY DEF Looked, Dump
<1>f. pos[p] = 0 /\ sent[p].kept = 0 /\ ~ret[p].err
  BY <1>a, <1>b, <1>e, Zenon DEF Sound, Underway, Doing
<1>g. /\ todo'[p] = t /\ ret'[p] = ret[p] /\ pos'[p] = 0 /\ sent'[p] = sent[p] /\ kept'[p] = kept[p] /\ links' = links
      /\ obj'[p].link.name = obj[p].link.name /\ kept[p] \in Nat
  BY <1>a, <1>f, Zenon DEF Looked, LinkTypeOK
<1>h. t # <<>> => Head(t).do # "search"
  BY <1>c, <1>d, <1>e, Zenon
<1> HIDE DEF s, t
<1>1. InOrder(ret[p].op, todo[p])'
  BY <1>d, <1>g, Zenon DEF InOrder, Placed
<1>2. NameHeld(p)'
  BY <1>a, <1>g, Zenon DEF Sound, NameHeld, Looked
<1>3. LookedUp(p)'
  <2> SUFFICES ASSUME NEW k \in DOMAIN t, Requests(t[k])
               PROVE  \/ \E j \in DOMAIN t : LooksUp(t[j])
                      \/ ~Creates(Head(t)) /\ (Faults \/ kept[p] = 0 \/ obj'[p].link.index = kept[p])
    BY <1>g, Zenon DEF LookedUp
  <2>1. t # <<>> /\ ~Creates(Head(t))
    <3>1. t # <<>>
      BY <1>c
    <3> QED BY <1>d, <3>1, Zenon
  <2>2. \/ \E j \in DOMAIN s : LooksUp(s[j])
        \/ Faults \/ kept[p] = 0 \/ obj[p].link.index = kept[p]
    BY <1>a, <1>c, Zenon DEF Sound, LookedUp, s
  <2>3. CASE LooksUp(Head(s))
    BY <2>1, <2>3, Zenon DEF Looked, s
  <2>4. CASE ~LooksUp(Head(s))
    <3>1. ASSUME NEW j \in DOMAIN s, LooksUp(s[j]) PROVE \E i \in DOMAIN t : LooksUp(t[i])
      BY <1>c, <2>4, <3>1, Zenon
    <3>2. obj'[p].link.index = obj[p].link.index
      BY <2>4, Zenon DEF Looked, s
    <3> QED BY <2>1, <2>2, <3>1, <3>2, Zenon
  <2> QED BY <2>3, <2>4, Zenon
<1>4. NameDumped(p)'
  BY <1>a, <1>e, <1>g, <1>h, Zenon DEF Sound, NameDumped, Doing, Looked
<1>5. SteadyThere(p)'
  BY <1>a, <1>g, Zenon DEF Sound, SteadyThere, Looked, Entries, TableOf
<1>6. SteadyKnown(p)'
  BY Zenon DEF SteadyKnown, Looked
<1>7. Underway(p)'
  BY <1>d, <1>f, <1>g, Zenon DEF Underway
<1>8. Carried(p)' /\ TargetsKept(p)'
  BY <1>f, <1>g, Zenon DEF Carried, TargetsKept
<1> QED BY <1>1, <1>2, <1>3, <1>4, <1>5, <1>6, <1>7, <1>8, Zenon DEF Sound

LEMMA SteadyGot ==
  ASSUME LinkInv, NEW p \in Procs, todo[p] # <<>>, Head(todo[p]).do # "dump"
  PROVE  steady[p] \subseteq got[p]
<1>1. Sound(p)
  BY Zenon DEF LinkInv
<1>2. ~ret[p].err
  BY <1>1, Zenon DEF Sound, Underway
<1> QED BY <1>1, <1>2, Zenon DEF Sound, SteadyKnown, Doing

LEMMA ResolvedIs ==
  ASSUME LinkTypeOK, NEW p \in Procs, NEW who \in {"link", "master"}, NEW i \in Nat,
         obj' = [obj EXCEPT ![p][who].index = i]
  PROVE  /\ obj' \in [Procs -> Objects] /\ \A q \in Procs \ {p} : obj'[q] = obj[q]
         /\ obj'[p].link.name = obj[p].link.name
         /\ who = "link" => obj'[p].link.index = i
         /\ who # "link" => obj'[p].link.index = obj[p].link.index
<1>1. obj \in [Procs -> Objects]
  BY Zenon DEF LinkTypeOK
<1> DEFINE o == [obj[p] EXCEPT ![who].index = i]
<1>2. o \in Objects /\ o.link.name = obj[p].link.name
  BY <1>1, Zenon DEF Objects
<1>3. (who = "link" => o.link.index = i) /\ (who # "link" => o.link.index = obj[p].link.index)
  BY <1>1, Zenon DEF Objects
<1>4. obj' = [obj EXCEPT ![p] = o]
  BY <1>1, Zenon
<1> HIDE DEF o
<1>5. obj' \in [Procs -> Objects] /\ obj'[p] = o /\ \A q \in Procs \ {p} : obj'[q] = obj[q]
  BY <1>1, <1>2, <1>4, Zenon
<1> QED BY <1>2, <1>3, <1>5, Zenon

LEMMA AdvanceIs ==
  ASSUME LinkTypeOK, NEW p \in Procs, todo[p] # <<>>, Advance(p)
  PROVE  /\ todo' \in [Procs -> Seq(Steps)] /\ todo'[p] = Tail(todo[p])
         /\ \A q \in Procs \ {p} : todo'[q] = todo[q]
<1>1. todo \in [Procs -> Seq(Steps)]
  BY Zenon DEF LinkTypeOK
<1>2. todo[p] \in Seq(Steps)
  BY <1>1, Zenon
<1>3. Tail(todo[p]) \in Seq(Steps)
  BY <1>2, TailAt, Zenon
<1>4. todo' = [todo EXCEPT ![p] = Tail(todo[p])]
  BY Zenon DEF Advance
<1> QED BY <1>1, <1>3, <1>4, Zenon

LEMMA HeadIs ==
  ASSUME LinkTypeOK, NEW p \in Procs, todo[p] # <<>>
  PROVE  /\ Head(todo[p]) \in Steps /\ Head(todo[p]) = todo[p][1] /\ todo[p] \in Seq(Steps)
         /\ Head(todo[p]).do \in {"ensure", "search"} =>
              /\ Head(todo[p]).who \in {"link", "master"}
              /\ LooksUp(Head(todo[p])) <=> Head(todo[p]).who = "link"
         /\ Head(todo[p]).do \in {"dump", "filter"} => Head(todo[p]).table \in Dumps
<1>1. todo[p] \in Seq(Steps)
  BY Zenon DEF LinkTypeOK
<1>2. Head(todo[p]) \in Steps /\ Head(todo[p]) = todo[p][1]
  BY <1>1, TailAt, Zenon
<1> QED BY <1>1, <1>2, StepFields, Zenon DEF LooksUp

LEMMA EnsureDoneKeeps ==
  ASSUME LinkInv, NEW p \in Procs, ensureIndexDone(p)
  PROVE  LinkInv'
<1>a. LinkTypeOK /\ Sound(p)
  BY Zenon DEF LinkInv
<1>1. /\ todo[p] # <<>> /\ Head(todo[p]).do = "ensure" /\ obj[p][Head(todo[p]).who].index # 0 /\ Advance(p)
      /\ UNCHANGED <<links, last, old, lookupByDump, obj, count, ret, pos, got, kept, sent, claims, steady>>
  BY Zenon DEF ensureIndexDone, Doing, Unresolved
<1>2. "ensure" # "dump"
  OBVIOUS
<1>3. LooksUp(Head(todo[p])) => obj[p].link.index # 0
  <2>1. LooksUp(Head(todo[p])) => Head(todo[p]).who = "link"
    BY Zenon DEF LooksUp
  <2>2. obj[p]["link"] = obj[p].link
    BY Zenon
  <2> QED BY <1>1, <2>1, <2>2, Zenon
<1>4. Looked(p)
  BY <1>a, <1>1, <1>2, <1>3, AdvanceIs, SteadyGot, Zenon DEF Looked, Sound, NameHeld
<1>5. LinkTypeOK'
  <2>1. KernelTypeOK'
    BY <1>a, <1>1, Zenon DEF LinkTypeOK, KernelTypeOK
  <2> QED BY <1>a, <1>1, <2>1, AdvanceIs, Zenon DEF LinkTypeOK
<1>6. Local(p)
  BY <1>a, <1>1, AdvanceIs, Zenon DEF Local, Kin
<1> QED BY <1>1, <1>4, <1>5, <1>6, LookedIsSound, Quiet, Zenon

LEMMA LinkByNameKeeps ==
  ASSUME LinkInv, NEW p \in Procs, LinkByName(p)
  PROVE  LinkInv'
<1>a. LinkTypeOK /\ NamesUnique /\ Sound(p)
  BY Zenon DEF LinkInv
<1> DEFINE who == Head(todo[p]).who
<1>1. /\ todo[p] # <<>> /\ Head(todo[p]).do = "ensure"
      /\ UNCHANGED <<links, last, old, count, ret, pos, got, kept, sent, claims, steady>>
  BY Zenon DEF LinkByName, Doing
<1>2. who \in {"link", "master"} /\ (LooksUp(Head(todo[p])) <=> who = "link") /\ "ensure" # "dump"
  <2>1. "ensure" # "dump"
    OBVIOUS
  <2> QED BY <1>a, <1>1, <2>1, HeadIs, Zenon
<1>3. steady[p] \subseteq got[p]
  BY <1>1, <1>2, SteadyGot, Zenon
<1>4. KernelTypeOK'
  BY <1>a, <1>1, Zenon DEF LinkTypeOK, KernelTypeOK
<1>5. CASE Resolved(p, Named(links, obj[p][who].name)) /\ UNCHANGED lookupByDump
  <2> DEFINE i == Named(links, obj[p][who].name)
  <2>1. obj' = [obj EXCEPT ![p][who].index = i] /\ Advance(p)
    BY <1>5, Zenon DEF Resolved
  <2>2. i \in Nat
    BY <1>a, NamedHere, Zenon
  <2>3. who = "link" => i = Named(links, obj[p].link.name)
    <3>1. obj[p]["link"] = obj[p].link
      BY Zenon
    <3> QED BY <3>1, Zenon
  <2> HIDE DEF i, who
  <2>4. /\ obj' \in [Procs -> Objects] /\ \A q \in Procs \ {p} : obj'[q] = obj[q]
        /\ obj'[p].link.name = obj[p].link.name
        /\ who = "link" => obj'[p].link.index = i
        /\ who # "link" => obj'[p].link.index = obj[p].link.index
    BY <1>a, <1>2, <2>1, <2>2, ResolvedIs, Zenon
  <2>5. Looked(p)
    BY <1>a, <1>1, <1>2, <1>3, <2>1, <2>3, <2>4, AdvanceIs, Zenon DEF Looked, Sound, NameHeld
  <2>6. LinkTypeOK'
    BY <1>a, <1>1, <1>4, <1>5, <2>1, <2>4, AdvanceIs, Zenon DEF LinkTypeOK
  <2>7. Local(p)
    BY <1>a, <1>1, <2>1, <2>4, AdvanceIs, Zenon DEF Local, Kin
  <2> QED BY <1>1, <2>5, <2>6, <2>7, LookedIsSound, Quiet, Zenon
<1>6. CASE lookupByDump' = TRUE /\ UNCHANGED <<todo, obj>>
  <2>1. LinkTypeOK'
    BY <1>a, <1>1, <1>4, <1>6, Zenon DEF LinkTypeOK
  <2>2. Local(p)
    BY <1>1, <1>6, Zenon DEF Local, Kin
  <2>3. Spared(p)
    <3>1. SteadyThere(p)'
      BY <1>a, <1>1, Zenon DEF Sound, SteadyThere, Entries, TableOf
    <3>2. Kin(p)' = Kin(p)
      BY <1>1, <1>6, Zenon DEF Kin
    <3> QED BY <1>a, <1>1, <3>1, <3>2, NamedHere, Zenon DEF Spared, Sound, NameHeld
  <2> QED BY <1>a, <1>1, <2>1, <2>2, <2>3, SparedIsSound, Quiet, Zenon
<1>7. CASE Faults /\ Advance(p) /\ UNCHANGED <<obj, lookupByDump>>
  <2>1. Looked(p)
    BY <1>a, <1>1, <1>2, <1>3, <1>7, AdvanceIs, Zenon DEF Looked, Sound, NameHeld
  <2>2. LinkTypeOK'
    BY <1>a, <1>1, <1>4, <1>7, AdvanceIs, Zenon DEF LinkTypeOK
  <2>3. Local(p)
    BY <1>a, <1>1, <1>7, AdvanceIs, Zenon DEF Local, Kin
  <2> QED BY <1>1, <2>1, <2>2, <2>3, LookedIsSound, Quiet, Zenon
<1> QED BY <1>5, <1>6, <1>7, Zenon DEF LinkByName, FallsBack

(* The lookup by a dump comes in the place of the one that was to be done. *)
LEMMA LinkByNameDumpKeeps ==
  ASSUME LinkInv, NEW p \in Procs, linkByNameDump(p)
  PROVE  LinkInv'
<1>a. LinkTypeOK /\ NamesUnique /\ Sound(p)
  BY Zenon DEF LinkInv
<1> DEFINE s == todo[p]  u == Tail(s)  d == Dump("link")  b == [do |-> "search", who |-> Head(s).who]
           t == <<d, b>> \o u
<1>1. /\ s # <<>> /\ Head(s).do = "ensure" /\ todo' = [todo EXCEPT ![p] = t]
      /\ UNCHANGED <<links, last, old, lookupByDump, obj, count, ret, pos, got, kept, sent, claims, steady>>
  BY Zenon DEF linkByNameDump, Doing
<1>2. s \in Seq(Steps) /\ InOrder(ret[p].op, s) /\ Head(s) = s[1]
  BY <1>a, <1>1, HeadIs, Zenon DEF LinkTypeOK, Sound
<1>3. /\ b \in Steps /\ Dump("link") \in Steps /\ b.do = "search" /\ b.who = Head(s).who
      /\ Dump("link").do = "dump" /\ Dump("link").table = "link" /\ ~Creates(Dump("link"))
  <2>1. Head(s).who \in {"link", "master"}
    BY <1>a, <1>1, HeadIs, Zenon
  <2>2. b \in [do : {"ensure", "search"}, who : {"link", "master"}] /\ b.do = "search" /\ b.who = Head(s).who
    BY <2>1
  <2>3. b \in Steps
    BY <2>2, Zenon DEF Steps
  <2>4. "link" \in Dumps
    BY Zenon DEF Dumps
  <2>5. Dump("link") \in Steps /\ Dump("link").do = "dump" /\ ~Creates(Dump("link"))
    BY <2>4, StepsAre, Zenon
  <2>6. Dump("link").table = "link"
    BY DEF Dump
  <2> QED BY <2>2, <2>3, <2>5, <2>6, Zenon
<1>4. /\ Tail(s) \in Seq(Steps) /\ Len(Tail(s)) = Len(s) - 1 /\ Len(s) \in Nat \ {0}
      /\ \A k \in DOMAIN s : k = 1 \/ (k - 1 \in DOMAIN Tail(s) /\ Tail(s)[k - 1] = s[k])
      /\ DOMAIN s = 1 .. Len(s)
  BY <1>1, <1>2, TailAt
<1>5. /\ t \in Seq(Steps) /\ Len(t) = Len(u) + 2 /\ t[1] = d /\ t[2] = b /\ t # <<>> /\ Head(t) = d
      /\ \A k \in 1 .. Len(u) : t[k + 2] = u[k]
  <2>1. <<d, b>> \in Seq(Steps) /\ Len(<<d, b>>) = 2 /\ <<d, b>>[1] = d /\ <<d, b>>[2] = b /\ u \in Seq(Steps)
    BY <1>3, <1>4
  <2> HIDE DEF u, d, b
  <2> QED BY <2>1
<1> HIDE DEF s, t, b
<1>6. Len(t) = Len(s) + 1 /\ DOMAIN t = 1 .. Len(s) + 1 /\ \A k \in 2 .. Len(s) : t[k + 1] = s[k]
  <2>1. Len(t) = Len(s) + 1 /\ DOMAIN t = 1 .. Len(s) + 1
    BY <1>4, <1>5
  <2>2. ASSUME NEW k \in 2 .. Len(s) PROVE t[k + 1] = s[k]
    <3>1. k \in DOMAIN s /\ k # 1 /\ k - 1 \in 1 .. Len(u) /\ (k - 1) + 2 = k + 1
      BY <1>4
    <3> QED BY <1>4, <1>5, <3>1, Zenon
  <2> QED BY <2>1, <2>2, Zenon
<1>7. InOrder(ret[p].op, t)
  BY <1>1, <1>2, <1>3, <1>5, <1>6, DumpInOrder, Zenon
<1>8. todo' \in [Procs -> Seq(Steps)] /\ todo'[p] = t /\ \A q \in Procs \ {p} : todo'[q] = todo[q]
  BY <1>a, <1>1, <1>5, Zenon DEF LinkTypeOK
<1>9. LinkTypeOK'
  <2>1. KernelTypeOK'
    BY <1>a, <1>1, Zenon DEF LinkTypeOK, KernelTypeOK
  <2> QED BY <1>a, <1>1, <1>8, <2>1, Zenon DEF LinkTypeOK
<1>10. Local(p)
  BY <1>1, <1>8, Zenon DEF Local, Kin
<1>11. pos[p] = 0 /\ sent[p].kept = 0 /\ ~ret[p].err /\ steady[p] \subseteq got[p] /\ kept[p] \in Nat
  <2>1. "ensure" # "dump"
    BY Zenon
  <2> QED BY <1>a, <1>1, <2>1, SteadyGot, Zenon DEF Sound, Underway, Doing, s, LinkTypeOK
<1>12. Sound(p)'
  <2>1. InOrder(ret[p].op, todo[p])'
    BY <1>1, <1>7, <1>8, Zenon DEF InOrder, Placed
  <2>2. NameHeld(p)' /\ SteadyThere(p)'
    BY <1>a, <1>1, Zenon DEF Sound, NameHeld, SteadyThere, Entries, TableOf
  <2>3. LookedUp(p)'
    <3> SUFFICES ASSUME NEW k \in DOMAIN t, Requests(t[k])
                 PROVE  \/ \E j \in DOMAIN t : LooksUp(t[j])
                        \/ ~Creates(Head(t)) /\ (Faults \/ kept[p] = 0 \/ obj[p].link.index = kept[p])
      BY <1>1, <1>8, Zenon DEF LookedUp
    <3>1. \E j \in DOMAIN s : Requests(s[j])
      <4>1. k # 1 /\ k # 2
        BY <1>3, <1>5, Zenon DEF Requests
      <4>2. k - 1 \in 2 .. Len(s) /\ (k - 1) + 1 = k /\ k - 1 \in DOMAIN s
        BY <1>4, <1>6, <4>1
      <4> QED BY <1>6, <4>2, Zenon
    <3>2. \/ \E j \in DOMAIN s : LooksUp(s[j])
          \/ Faults \/ kept[p] = 0 \/ obj[p].link.index = kept[p]
      BY <1>a, <3>1, Zenon DEF Sound, LookedUp, s
    <3>3. ASSUME NEW j \in DOMAIN s, LooksUp(s[j]) PROVE \E i \in DOMAIN t : LooksUp(t[i])
      <4>1. CASE j = 1
        <5>1. 2 \in DOMAIN t
          BY <1>4, <1>6
        <5>2. LooksUp(b)
          BY <1>2, <1>3, <3>3, <4>1, Zenon DEF LooksUp
        <5> QED BY <1>5, <5>1, <5>2, Zenon
      <4>2. CASE j # 1
        <5>1. j \in 2 .. Len(s) /\ j + 1 \in DOMAIN t
          BY <1>4, <1>6, <4>2
        <5> QED BY <1>6, <3>3, <5>1, Zenon
      <4> QED BY <4>1, <4>2, Zenon
    <3> QED BY <1>3, <1>5, <3>2, <3>3, Zenon
  <2>4. NameDumped(p)'
    <3>1. (\A k \in Nat : k # 0 => k > 0) /\ "dump" # "search"
      OBVIOUS
    <3> QED BY <1>a, <1>1, <1>3, <1>5, <1>8, <1>11, <3>1, Zenon DEF Sound, NameDumped, Doing
  <2>5. SteadyKnown(p)'
    BY <1>1, <1>11, Zenon DEF SteadyKnown
  <2>6. Underway(p)' /\ Carried(p)' /\ TargetsKept(p)'
    BY <1>1, <1>3, <1>5, <1>8, <1>11, Zenon DEF Underway, Carried, TargetsKept
  <2> QED BY <2>1, <2>2, <2>3, <2>4, <2>5, <2>6, Zenon DEF Sound
<1> QED BY <1>1, <1>9, <1>10, <1>12, Quiet, Zenon

-----------------------------------------------------------------------------
(* Dumps *)

LEMMA LowestIs ==
  ASSUME NEW T, T \subseteq Nat, T # {}
  PROVE  Lowest(T) \in T /\ \A y \in T : Lowest(T) <= y
<1> DEFINE R == OpToRel(<, Nat)
<1>1. \A a, b \in Nat : a < b => <<a, b>> \in R
  BY Zenon DEF OpToRel
<1>2. IsWellFoundedOn(R, Nat)
  BY NatLessThanWellFounded, Zenon
<1> HIDE DEF R
<1>3. PICK x \in T : \A y \in T : ~(<<y, x>> \in R)
  BY <1>2, WFMin, Zenon
<1>4. ASSUME NEW y \in T PROVE x <= y
  <2>1. x \in Nat /\ y \in Nat
    BY Zenon
  <2>2. ~(y < x)
    BY <1>1, <1>3, <2>1, Zenon
  <2> QED BY <2>1, <2>2
<1>5. \E z \in T : \A y \in T : z <= y
  BY <1>4, Zenon
<1> QED BY <1>5, Zenon DEF Lowest

LEMMA FoundIs ==
  ASSUME NEW ls, \A e \in ls : e[1] \in Nat
  PROVE  /\ \A n : FoundIn(ls, n) \in Nat
         /\ \A e \in ls : (\A x \in ls : x[2] = e[2] => x[1] = e[1]) => FoundIn(ls, e[2]) = e[1]
<1> DEFINE hits(n) == {e[1] : e \in {x \in ls : x[2] = n}}
<1>1. ASSUME NEW n PROVE hits(n) = {} \/ (Lowest(hits(n)) \in hits(n) /\ Lowest(hits(n)) \in Nat)
  <2>1. hits(n) \subseteq Nat
    BY Zenon
  <2> HIDE DEF hits
  <2> QED BY <2>1, LowestIs, Zenon
<1>2. ASSUME NEW e \in ls, \A x \in ls : x[2] = e[2] => x[1] = e[1] PROVE hits(e[2]) = {e[1]}
  BY <1>2, Zenon
<1>3. \A n : FoundIn(ls, n) = IF hits(n) = {} THEN 0 ELSE Lowest(hits(n))
  BY Zenon DEF FoundIn
<1> HIDE DEF hits
<1>4. ASSUME NEW n PROVE FoundIn(ls, n) \in Nat
  BY <1>1, <1>3
<1>5. ASSUME NEW e \in ls, \A x \in ls : x[2] = e[2] => x[1] = e[1] PROVE FoundIn(ls, e[2]) = e[1]
  <2>1. hits(e[2]) = {e[1]}
    BY <1>2, <1>5, Zenon
  <2>2. Lowest(hits(e[2])) \in hits(e[2]) /\ FoundIn(ls, e[2]) = Lowest(hits(e[2]))
    BY <1>1, <1>3, <2>1, Zenon
  <2> QED BY <2>1, <2>2, Zenon
<1> QED BY <1>4, <1>5, Zenon

(* The lookup finds the device that bore the name all the time. *)
LEMMA SearchKeeps ==
  ASSUME LinkConstants, LinkInv, NEW p \in Procs, Search(p)
  PROVE  LinkInv'
<1>a. LinkTypeOK /\ NamesUnique /\ Sound(p)
  BY Zenon DEF LinkInv
<1> DEFINE who == Head(todo[p]).who  ls == {e \in got[p] : e[2] \in Names}  i == FoundIn(ls, obj[p][who].name)
<1>1. /\ todo[p] # <<>> /\ Head(todo[p]).do = "search" /\ Advance(p)
      /\ obj' = [obj EXCEPT ![p][who].index = i]
      /\ got' = [got EXCEPT ![p] = {e \in got[p] : e[2] \notin Names}]
      /\ steady' = [steady EXCEPT ![p] = {e \in steady[p] : e[2] \notin Names}]
      /\ UNCHANGED <<links, last, old, lookupByDump, count, ret, pos, kept, sent, claims>>
  BY Zenon DEF Search, Resolved, Doing
<1>2. who \in {"link", "master"} /\ (LooksUp(Head(todo[p])) <=> who = "link")
  BY <1>a, <1>1, HeadIs, Zenon
<1>3. steady[p] \subseteq got[p]
  <2>1. "search" # "dump"
    BY Zenon
  <2> QED BY <1>1, <2>1, SteadyGot, Zenon
<1>4. got[p] \subseteq Listed /\ steady[p] \subseteq Listed
  BY <1>a, Zenon DEF LinkTypeOK
<1>5. i \in Nat
  <2>1. \A e \in ls : e[1] \in Nat
    BY <1>4, Zenon DEF Listed
  <2> QED BY <2>1, FoundIs, Zenon
<1>6. who = "link" /\ kept[p] # 0 => i = kept[p]
  <2> SUFFICES ASSUME who = "link", kept[p] # 0 PROVE i = kept[p]
    BY Zenon
  <2>1. \A e \in ls : e[1] \in Nat
    BY <1>4, Zenon DEF Listed
  <2>2. obj[p][who].name = obj[p].link.name /\ obj[p].link.name \in Names
    <3>1. obj[p]["link"] = obj[p].link
      BY Zenon
    <3>2. obj[p] \in Objects
      BY <1>a, Zenon DEF LinkTypeOK
    <3>3. obj[p].link.name \in Names
      BY <3>2, Zenon DEF Objects
    <3> QED BY <3>1, <3>3, Zenon
  <2>3. <<kept[p], obj[p].link.name>> \in got[p] /\ \A e \in got[p] : e[2] = obj[p].link.name => e[1] = kept[p]
    BY <1>a, <1>1, Zenon DEF Sound, NameDumped, Doing
  <2> DEFINE e == <<kept[p], obj[p].link.name>>
  <2>4. e[1] = kept[p] /\ e[2] = obj[p].link.name
    BY Zenon
  <2>5. e \in got[p]
    BY <2>3, Zenon
  <2> HIDE DEF e
  <2>6. e \in ls /\ \A x \in ls : x[2] = e[2] => x[1] = e[1]
    BY <2>2, <2>3, <2>4, <2>5, Zenon
  <2> HIDE DEF ls
  <2>7. FoundIn(ls, e[2]) = e[1]
    BY <2>1, <2>6, FoundIs, Zenon
  <2> QED BY <2>2, <2>4, <2>7, Zenon
<1> HIDE DEF i, who, ls
<1>7. /\ obj' \in [Procs -> Objects] /\ \A q \in Procs \ {p} : obj'[q] = obj[q]
      /\ obj'[p].link.name = obj[p].link.name
      /\ who = "link" => obj'[p].link.index = i
      /\ who # "link" => obj'[p].link.index = obj[p].link.index
  BY <1>a, <1>1, <1>2, <1>5, ResolvedIs, Zenon
<1>8. /\ got' \in [Procs -> SUBSET Listed]
      /\ steady' \in [Procs -> SUBSET Listed]
      /\ got'[p] = {e \in got[p] : e[2] \notin Names} /\ steady'[p] = {e \in steady[p] : e[2] \notin Names}
      /\ \A q \in Procs \ {p} : got'[q] = got[q] /\ steady'[q] = steady[q]
  <2>1. /\ {e \in got[p] : e[2] \notin Names} \in SUBSET Listed
        /\ {e \in steady[p] : e[2] \notin Names} \in SUBSET Listed
    BY <1>4, Zenon
  <2> QED BY <1>a, <1>1, <2>1, Except, Zenon DEF LinkTypeOK
<1>9. Looked(p)
  <2>1. got'[p] \subseteq got[p] /\ steady'[p] \subseteq steady[p] \cap got'[p]
    BY <1>3, <1>8, Zenon
  <2> QED BY <1>a, <1>1, <1>2, <1>6, <1>7, <2>1, AdvanceIs, Zenon DEF Looked, Sound, NameHeld
<1>10. LinkTypeOK'
  <2>1. KernelTypeOK'
    BY <1>a, <1>1, Zenon DEF LinkTypeOK, KernelTypeOK
  <2> QED BY <1>a, <1>1, <1>7, <1>8, <2>1, AdvanceIs, Zenon DEF LinkTypeOK
<1>11. Local(p)
  BY <1>a, <1>1, <1>7, <1>8, AdvanceIs, Zenon DEF Local, Kin
<1> QED BY <1>1, <1>9, <1>10, <1>11, LookedIsSound, Quiet, Zenon

(* The rest of a dump, as the caller will have it *)
LEMMA EntriesOf ==
  ASSUME LinkConstants, LinkTypeOK, NEW t \in Dumps, NEW i \in DOMAIN links, NEW e \in Entries(links, t, i)
  PROVE  /\ e[1] = i /\ TableOf(e) = t /\ e \in Entries(links, TableOf(e), e[1])
         /\ e \in Listed
         /\ e[2] \in Names => e[2] = links[i].name
<1>1. links[i].name \in Names /\ i \in Nat
  BY DEF LinkTypeOK, KernelTypeOK, Devices
<1>2. e[1] = i /\ TableOf(e) = t /\ (e[2] \in Names => e[2] = links[i].name)
  BY <1>1, EntryIs, SMT
<1>3. e \in Listed
  BY <1>1, EntryIs, Zenon
<1> QED BY <1>2, <1>3, Zenon

(* A device with a name reports it. *)
LEMMA NameReported ==
  ASSUME LinkTypeOK, NamesUnique, NEW n, Named(links, n) # 0
  PROVE  /\ Named(links, n) \in DOMAIN links
         /\ <<Named(links, n), n>> \in Entries(links, "link", Named(links, n))
<1>1. Named(links, n) \in DOMAIN links /\ links[Named(links, n)].name = n
  BY NamedHere, Zenon
<1> QED BY <1>1, Zenon DEF Entries

(* The dump is over: the kernel has no device after the last one. *)
DumpEnds(p) ==
    /\ todo[p] # <<>> /\ Head(todo[p]).do = "dump"
    /\ \A i \in DOMAIN links : ~(i > pos[p])
    /\ todo'[p] = Tail(todo[p]) /\ pos'[p] = 0 /\ steady'[p] = steady[p] /\ got'[p] = got[p]
    /\ ret'[p] = ret[p] /\ sent'[p] = sent[p] /\ obj'[p] = obj[p] /\ kept'[p] = kept[p] /\ links' = links

LEMMA DumpEndsSound ==
  ASSUME LinkConstants, LinkInv, NEW p \in Procs, DumpEnds(p)
  PROVE  Sound(p)'
<1> DEFINE s == todo[p]  t == Tail(todo[p])
<1>a. LinkTypeOK /\ NamesUnique /\ Sound(p)
  BY Zenon DEF LinkInv
<1>b. s \in Seq(Steps) /\ s # <<>> /\ InOrder(ret[p].op, s) /\ Head(s) = s[1]
  BY <1>a, HeadIs, Zenon DEF Sound, DumpEnds
<1>c. /\ \A k \in DOMAIN t : k + 1 \in DOMAIN s /\ t[k] = s[k + 1]
      /\ \A k \in DOMAIN s : k = 1 \/ (k - 1 \in DOMAIN t /\ t[k - 1] = s[k])
      /\ t \in Seq(Steps)
  BY <1>b, TailAt, Zenon
<1>d. /\ InOrder(ret[p].op, t) /\ (t # <<>> => ~Creates(Head(t)))
      /\ t # <<>> /\ Head(t).do = "search" => s[1] = Dump("link")
  BY <1>b, TailInOrder, Zenon
<1>e. /\ \A k \in Nat : k # 0 => k > 0
      /\ Dump("link").table = "link" /\ ~LooksUp(Head(s))
  BY DEF Dump, LooksUp, DumpEnds
<1>f. sent[p].kept = 0 /\ ~ret[p].err /\ kept[p] \in Nat
  BY <1>a, Zenon DEF Sound, Underway, LinkTypeOK, DumpEnds
<1> HIDE DEF s, t
<1>g. /\ todo'[p] = t /\ pos'[p] = 0 /\ steady'[p] = steady[p] /\ got'[p] = got[p]
      /\ ret'[p] = ret[p] /\ sent'[p] = sent[p] /\ obj'[p] = obj[p] /\ kept'[p] = kept[p] /\ links' = links
  BY Zenon DEF t, DumpEnds
<1>h. Doing(p, "dump") /\ \A i \in DOMAIN links : ~(i > pos[p])
  BY Zenon DEF DumpEnds, Doing
<1>1. InOrder(ret[p].op, todo[p])'
  BY <1>d, <1>g, Zenon DEF InOrder, Placed
<1>2. NameHeld(p)' /\ SteadyThere(p)'
  BY <1>a, <1>g, Zenon DEF Sound, NameHeld, SteadyThere, Entries, TableOf
<1>3. LookedUp(p)'
  <2> SUFFICES ASSUME NEW k \in DOMAIN t, Requests(t[k])
               PROVE  \/ \E j \in DOMAIN t : LooksUp(t[j])
                      \/ ~Creates(Head(t)) /\ (Faults \/ kept[p] = 0 \/ obj[p].link.index = kept[p])
    BY <1>g, Zenon DEF LookedUp
  <2>1. t # <<>>
    BY <1>c
  <2>2. \/ \E j \in DOMAIN s : LooksUp(s[j])
        \/ Faults \/ kept[p] = 0 \/ obj[p].link.index = kept[p]
    BY <1>a, <1>c, Zenon DEF Sound, LookedUp, s
  <2>3. ASSUME NEW j \in DOMAIN s, LooksUp(s[j]) PROVE \E i \in DOMAIN t : LooksUp(t[i])
    BY <1>b, <1>c, <1>e, <2>3, Zenon
  <2> QED BY <1>d, <2>1, <2>2, <2>3, Zenon
<1>4. NameDumped(p)'
  <2>1. ASSUME kept[p] # 0, t # <<>>, Head(t).do = "search" PROVE <<kept[p], obj[p].link.name>> \in got[p]
    <3>1. kept[p] > pos[p] \/ <<kept[p], obj[p].link.name>> \in got[p]
      BY <1>a, <1>b, <1>d, <1>e, <1>h, <2>1, Zenon DEF Sound, NameDumped, s
    <3>2. kept[p] \in DOMAIN links
      BY <1>a, <2>1, NameReported, Zenon DEF Sound, NameHeld
    <3> QED BY <1>h, <3>1, <3>2, Zenon
  <2> QED BY <1>a, <1>e, <1>f, <1>g, <2>1, Zenon DEF Sound, NameDumped, Doing
<1>5. SteadyKnown(p)'
  <2>1. ASSUME NEW e \in steady[p] PROVE e \in got[p]
    <3>1. e[1] \in DOMAIN links
      BY <1>a, <2>1, Zenon DEF Sound, SteadyThere
    <3> QED BY <1>a, <1>b, <1>f, <1>h, <2>1, <3>1, Zenon DEF Sound, SteadyKnown, s
  <2> QED BY <1>g, <2>1, Zenon DEF SteadyKnown
<1>6. Underway(p)' /\ Carried(p)' /\ TargetsKept(p)'
  BY <1>d, <1>f, <1>g, Zenon DEF Underway, Carried, TargetsKept
<1> QED BY <1>1, <1>2, <1>3, <1>4, <1>5, <1>6, Zenon DEF Sound

(* The dump reports the next device, i. *)
DumpGoes(p, i) ==
    /\ Doing(p, "dump") /\ i \in DOMAIN links /\ i > pos[p]
    /\ \A j \in DOMAIN links : j > pos[p] => i <= j
    /\ todo'[p] = todo[p] /\ pos'[p] = i /\ got'[p] = got[p] \cup Entries(links, Head(todo[p]).table, i)
    /\ \A e \in steady'[p] : \/ e \in steady[p]
                             \/ pos[p] = 0 /\ \E j \in DOMAIN links : e \in Entries(links, Head(todo[p]).table, j)
    /\ ret'[p] = ret[p] /\ sent'[p] = sent[p] /\ obj'[p] = obj[p] /\ kept'[p] = kept[p] /\ links' = links

LEMMA DumpGoesSound ==
  ASSUME LinkConstants, LinkInv, NEW p \in Procs, NEW i, DumpGoes(p, i)
  PROVE  Sound(p)'
<1> DEFINE t == Head(todo[p]).table  n == obj[p].link.name
<1>a. LinkTypeOK /\ NamesUnique /\ Sound(p)
  BY Zenon DEF LinkInv
<1>b. Doing(p, "dump") /\ todo[p] # <<>> /\ Head(todo[p]).do = "dump"
  BY Zenon DEF DumpGoes, Doing
<1>c. t \in Dumps /\ n \in Names /\ sent[p].kept = 0 /\ ~ret[p].err /\ kept[p] \in Nat
  <2>1. Head(todo[p]).do \in {"dump", "filter"}
    BY <1>b, Zenon
  <2>2. t \in Dumps
    BY <1>a, <1>b, <2>1, HeadIs, Zenon
  <2>3. obj[p] \in Objects
    BY <1>a, Zenon DEF LinkTypeOK
  <2>4. n \in Names
    BY <2>3, Zenon DEF Objects
  <2> QED BY <1>a, <1>b, <2>2, <2>4, Zenon DEF Sound, Underway, LinkTypeOK
<1>d. /\ todo'[p] = todo[p] /\ pos'[p] = i /\ got'[p] = got[p] \cup Entries(links, t, i)
      /\ ret'[p] = ret[p] /\ sent'[p] = sent[p] /\ obj'[p] = obj[p] /\ kept'[p] = kept[p] /\ links' = links
      /\ Doing(p, "dump")'
  BY <1>b, Zenon DEF DumpGoes, Doing
<1>e. i \in DOMAIN links /\ DOMAIN links \subseteq Nat /\ pos[p] \in Nat /\ \A j \in DOMAIN links : j > 0
  <2>1. pos[p] \in Nat /\ i \in DOMAIN links
    BY <1>a, Zenon DEF DumpGoes, LinkTypeOK
  <2>2. DOMAIN links \subseteq Nat /\ \A j \in DOMAIN links : j > 0
    BY <1>a DEF LinkTypeOK, KernelTypeOK
  <2> QED BY <2>1, <2>2, Zenon
<1>f. ASSUME NEW j \in DOMAIN links, j > pos[p] PROVE j = i \/ j > i
  <2>1. i <= j
    BY <1>f, Zenon DEF DumpGoes
  <2>2. i \in Nat /\ j \in Nat
    BY <1>e, Zenon
  <2> HIDE <1>f
  <2> QED BY <2>1, <2>2
<1> DEFINE Here(e, k, j) == e[1] = j /\ TableOf(e) = k /\ e \in Entries(links, TableOf(e), e[1])
<1>g. \A k \in Dumps, j \in DOMAIN links : \A e \in Entries(links, k, j) :
         Here(e, k, j) /\ (e[2] \in Names => e[2] = links[j].name)
  <2> SUFFICES ASSUME NEW k \in Dumps, NEW j \in DOMAIN links, NEW e \in Entries(links, k, j)
               PROVE  Here(e, k, j) /\ (e[2] \in Names => e[2] = links[j].name)
    BY Zenon
  <2> QED BY <1>a, EntriesOf, SMT
<1> HIDE DEF t, n
<1>1. InOrder(ret[p].op, todo[p])' /\ NameHeld(p)' /\ LookedUp(p)'
  BY <1>a, <1>d, Zenon DEF Sound, InOrder, Placed, NameHeld, LookedUp
<1>2. NameDumped(p)'
  <2>1. ASSUME NEW e \in got'[p], kept[p] # 0, e[2] = n PROVE e[1] = kept[p]
    <3>1. CASE e \in got[p]
      BY <1>a, <2>1, <3>1, Zenon DEF Sound, NameDumped, n
    <3>2. CASE e \in Entries(links, t, i)
      <4>0. e[1] = i /\ (e[2] \in Names => e[2] = links[i].name)
        BY <1>c, <1>e, <1>g, <3>2, SMT
      <4>1. e[1] = i /\ links[i].name = n
        BY <1>c, <2>1, <4>0, Zenon
      <4>2. kept[p] = i
        <5>1. Named(links, n) = i
          BY <1>a, <1>e, <4>1, NamedHere, SMT
        <5> QED BY <1>a, <2>1, <5>1, Zenon DEF Sound, NameHeld, n
      <4> QED BY <4>1, <4>2, Zenon
    <3> QED BY <1>d, <3>1, <3>2, Zenon
  <2>2. ASSUME kept[p] # 0, t = "link" PROVE kept[p] > i \/ <<kept[p], n>> \in got'[p]
    <3>1. kept[p] > pos[p] \/ <<kept[p], n>> \in got[p]
      BY <1>a, <1>b, <2>2, Zenon DEF Sound, NameDumped, n, t
    <3>2. kept[p] \in DOMAIN links /\ <<kept[p], n>> \in Entries(links, "link", kept[p])
      BY <1>a, <2>2, NameReported, Zenon DEF Sound, NameHeld, n
    <3> QED BY <1>d, <1>f, <2>2, <3>1, <3>2, Zenon
  <2>3. "dump" # "search"
    BY Zenon
  <2>4. ~Doing(p, "search")'
    BY <1>b, <1>d, <2>3, Zenon DEF Doing
  <2> QED BY <1>d, <2>1, <2>2, <2>4, Zenon DEF NameDumped, n, t
<1>3. SteadyThere(p)' /\ SteadyKnown(p)'
  <2> SUFFICES ASSUME NEW e \in steady'[p]
               PROVE  /\ e[1] \in DOMAIN links /\ e \in Entries(links, TableOf(e), e[1])
                      /\ e \in got'[p] \/ (TableOf(e) = t /\ e[1] > i)
    BY <1>d, Zenon DEF SteadyThere, SteadyKnown, Entries, TableOf, t
  <2>1. CASE e \in steady[p]
    <3>1. e[1] \in DOMAIN links /\ e \in Entries(links, TableOf(e), e[1])
      BY <1>a, <2>1, Zenon DEF Sound, SteadyThere
    <3>2. e \in got[p] \/ (TableOf(e) = t /\ e[1] > pos[p])
      BY <1>a, <1>b, <1>c, <2>1, Zenon DEF Sound, SteadyKnown, t
    <3> QED BY <1>d, <1>f, <3>1, <3>2, Zenon
  <2>2. CASE pos[p] = 0 /\ \E j \in DOMAIN links : e \in Entries(links, t, j)
    <3>1. PICK j \in DOMAIN links : e \in Entries(links, t, j)
      BY <2>2, Zenon
    <3>2. e[1] = j /\ TableOf(e) = t /\ e \in Entries(links, TableOf(e), e[1])
      <4> HIDE DEF t, Here
      <4>1. Here(e, t, j)
        BY <1>c, <1>g, <3>1, Zenon
      <4> QED BY <4>1, Zenon DEF Here
    <3>3. j > pos[p]
      BY <1>e, <2>2, Zenon
    <3> QED BY <1>d, <1>f, <3>1, <3>2, <3>3, Zenon
  <2> QED BY <2>1, <2>2, Zenon DEF DumpGoes, t
<1>4. Underway(p)' /\ Carried(p)' /\ TargetsKept(p)'
  <2>1. "dump" # "send"
    OBVIOUS
  <2> QED BY <1>b, <1>c, <1>d, <2>1, Zenon DEF Underway, Carried, TargetsKept, Creates
<1> QED BY <1>1, <1>2, <1>3, <1>4, Zenon DEF Sound

LEMMA DumpReceiveKeeps ==
  ASSUME LinkConstants, LinkInv, NEW p \in Procs, DumpReceive(p)
  PROVE  LinkInv'
<1> DEFINE t == Head(todo[p]).table  more == {i \in DOMAIN links : i > pos[p]}
           all == UNION {Entries(links, t, i) : i \in DOMAIN links}
           left == IF pos[p] # 0 THEN steady[p] ELSE steady[p] \cup all
<1>a. LinkTypeOK /\ NamesUnique /\ Sound(p)
  BY Zenon DEF LinkInv
<1>1. /\ Doing(p, "dump") /\ todo[p] # <<>> /\ Head(todo[p]).do = "dump"
      /\ steady' = [steady EXCEPT ![p] = left]
      /\ UNCHANGED <<links, last, old, lookupByDump, obj, count, ret, kept, sent, claims>>
      /\ \/ more = {} /\ Advance(p) /\ pos' = [pos EXCEPT ![p] = 0] /\ UNCHANGED got
         \/ /\ more # {} /\ got' = [got EXCEPT ![p] = got[p] \cup Entries(links, t, Lowest(more))]
            /\ pos' = [pos EXCEPT ![p] = Lowest(more)] /\ UNCHANGED todo
  BY Zenon DEF DumpReceive, Doing, EndsDump
<1>2. t \in Dumps
  <2>1. Head(todo[p]).do \in {"dump", "filter"}
    BY <1>1, Zenon
  <2> QED BY <1>a, <1>1, <2>1, HeadIs, Zenon
<1>3. \A i \in DOMAIN links : Entries(links, t, i) \subseteq Listed
  BY <1>a, <1>2, EntriesOf, Zenon
<1>4. left \in SUBSET Listed
  <2>1. steady[p] \in SUBSET Listed
    BY <1>a, Zenon DEF LinkTypeOK
  <2>2. all \in SUBSET Listed
    BY <1>3, Zenon
  <2> HIDE DEF all
  <2> QED BY <2>1, <2>2, Zenon
<1>5. /\ DOMAIN links \subseteq Nat /\ pos[p] \in Nat /\ (\A j \in DOMAIN links : j > 0) /\ 0 \in Nat
      /\ got[p] \in SUBSET Listed
  <2>1. pos[p] \in Nat /\ got[p] \in SUBSET Listed
    BY <1>a, Zenon DEF LinkTypeOK
  <2>2. DOMAIN links \subseteq Nat /\ (\A j \in DOMAIN links : j > 0) /\ 0 \in Nat
    BY <1>a DEF LinkTypeOK, KernelTypeOK
  <2> QED BY <2>1, <2>2, Zenon
<1>6. KernelTypeOK'
  <2>1. UNCHANGED <<links, last, claims>>
    BY <1>1, Zenon
  <2> QED BY <1>a, <2>1, Zenon DEF LinkTypeOK, KernelTypeOK
<1>7. \A e \in left : e \in steady[p] \/ (pos[p] = 0 /\ \E j \in DOMAIN links : e \in Entries(links, t, j))
  BY Zenon
<1>8. more = {} => left = steady[p]
  <2>1. more = {} /\ pos[p] = 0 => DOMAIN links = {}
    BY <1>5, Zenon
  <2>2. DOMAIN links = {} => all = {}
    BY Zenon
  <2> HIDE DEF all, more
  <2> QED BY <2>1, <2>2, Zenon
<1>9. /\ steady' \in [Procs -> SUBSET Listed] /\ steady'[p] = left
      /\ \A q \in Procs \ {p} : steady'[q] = steady[q]
  <2> HIDE DEF left
  <2> QED BY <1>a, <1>1, <1>4, Except, Zenon DEF LinkTypeOK
<1>10. CASE more = {} /\ Advance(p) /\ pos' = [pos EXCEPT ![p] = 0] /\ UNCHANGED got
  <2>1. /\ pos' \in [Procs -> Nat] /\ pos'[p] = 0 /\ \A q \in Procs \ {p} : pos'[q] = pos[q]
    BY <1>a, <1>5, <1>10, Except, Zenon DEF LinkTypeOK
  <2>2. \A i \in DOMAIN links : ~(i > pos[p])
    BY <1>10, Zenon
  <2>3. steady'[p] = steady[p]
    <3> HIDE DEF left
    <3> QED BY <1>8, <1>9, <1>10, Zenon
  <2> HIDE DEF left, more, t
  <2>4. DumpEnds(p)
    BY <1>a, <1>1, <1>10, <2>1, <2>2, <2>3, AdvanceIs, Zenon DEF DumpEnds
  <2>5. LinkTypeOK'
    BY <1>a, <1>1, <1>6, <1>9, <1>10, <2>1, AdvanceIs, Zenon DEF LinkTypeOK
  <2>6. Local(p)
    BY <1>a, <1>1, <1>9, <1>10, <2>1, AdvanceIs, Zenon DEF Local, Kin
  <2> QED BY <1>1, <2>4, <2>5, <2>6, DumpEndsSound, Quiet, Zenon
<1>11. CASE /\ more # {} /\ got' = [got EXCEPT ![p] = got[p] \cup Entries(links, t, Lowest(more))]
            /\ pos' = [pos EXCEPT ![p] = Lowest(more)] /\ UNCHANGED todo
  <2> DEFINE i == Lowest(more)
  <2>1. i \in more /\ \A j \in more : i <= j
    <3>1. more \subseteq Nat
      BY <1>5, Zenon
    <3> HIDE DEF more
    <3> QED BY <1>11, <3>1, LowestIs, Zenon
  <2> HIDE DEF i
  <2>2. i \in DOMAIN links /\ i > pos[p] /\ i \in Nat /\ \A j \in DOMAIN links : j > pos[p] => i <= j
    BY <1>5, <2>1, Zenon
  <2>3. /\ pos' = [pos EXCEPT ![p] = i] /\ UNCHANGED todo
        /\ got' = [got EXCEPT ![p] = got[p] \cup Entries(links, t, i)]
    BY <1>11, Zenon DEF i
  <2> HIDE DEF more, left
  <2>4. /\ pos' \in [Procs -> Nat] /\ pos'[p] = i /\ \A q \in Procs \ {p} : pos'[q] = pos[q]
    <3>1. i \in Nat /\ pos \in [Procs -> Nat]
      BY <1>a, <2>2, Zenon DEF LinkTypeOK
    <3> QED BY <2>3, <3>1, Except, Zenon
  <2>5. /\ got' \in [Procs -> SUBSET Listed] /\ got'[p] = got[p] \cup Entries(links, t, i)
        /\ \A q \in Procs \ {p} : got'[q] = got[q]
    <3>1. got[p] \cup Entries(links, t, i) \in SUBSET Listed
      BY <1>3, <1>5, <2>2, Zenon
    <3> QED BY <1>a, <2>3, <3>1, Except, Zenon DEF LinkTypeOK
  <2>6. DumpGoes(p, i)
    BY <1>1, <1>7, <1>9, <2>2, <2>3, <2>4, <2>5, Zenon DEF DumpGoes
  <2> HIDE DEF t
  <2>7. LinkTypeOK'
    BY <1>a, <1>1, <1>6, <1>9, <2>3, <2>4, <2>5, Zenon DEF LinkTypeOK
  <2>8. Local(p)
    BY <1>1, <1>9, <2>3, <2>4, <2>5, Zenon DEF Local, Kin
  <2> QED BY <1>1, <2>6, <2>7, <2>8, DumpGoesSound, Quiet, Zenon
<1> QED BY <1>1, <1>10, <1>11, Zenon

-----------------------------------------------------------------------------
(* The end of an operation, and the way on after a link was created *)

Ends(p) ==
    /\ todo'[p] = <<>> /\ pos'[p] = 0 /\ obj'[p] = obj[p] /\ got'[p] \subseteq got[p]
    /\ kept'[p] # 0 => (kept'[p] = kept[p] \/ got[p] = {})
    /\ NameHeld(p)' /\ SteadyThere(p)' /\ SteadyKnown(p)' /\ Carried(p)' /\ TargetsKept(p)'

LEMMA EndsSound ==
  ASSUME NEW p \in Procs, Sound(p), Ends(p)
  PROVE  Sound(p)'
<1>1. todo'[p] = <<>> /\ DOMAIN <<>> = {}
  BY DEF Ends
<1>2. InOrder(ret[p].op, todo[p])' /\ LookedUp(p)'
  BY <1>1, Zenon DEF InOrder, LookedUp
<1>3. NameDumped(p)'
  BY <1>1, Zenon DEF Sound, NameDumped, Doing, Ends
<1>4. Underway(p)'
  BY <1>1, Zenon DEF Underway, Ends
<1> QED BY <1>2, <1>3, <1>4, Zenon DEF Sound, Ends

GoesOn(p) ==
    /\ todo[p] # <<>> /\ Creates(Head(todo[p])) /\ todo'[p] = Tail(todo[p])
    /\ pos'[p] = pos[p] /\ obj'[p] = obj[p] /\ got'[p] = got[p] /\ sent'[p] = sent[p]
    /\ ret'[p].op = ret[p].op /\ ret'[p].err = ret[p].err
    /\ kept'[p] \in Nat /\ (kept'[p] # 0 => kept'[p] = Named(links', obj[p].link.name))
    /\ steady'[p] \subseteq steady[p]

LEMMA GoesOnSound ==
  ASSUME LinkInv, NEW p \in Procs, GoesOn(p)
  PROVE  Sound(p)'
<1> DEFINE s == todo[p]  t == Tail(todo[p])
<1>a. LinkTypeOK /\ Sound(p)
  BY Zenon DEF LinkInv
<1>b. s \in Seq(Steps) /\ s # <<>> /\ InOrder(ret[p].op, s) /\ Head(s) = s[1] /\ Creates(s[1])
  BY <1>a, HeadIs, Zenon DEF Sound, GoesOn
<1>c. /\ t \in Seq(Steps)
      /\ \A k \in DOMAIN t : k + 1 \in DOMAIN s /\ t[k] = s[k + 1]
      /\ \A k \in DOMAIN s : k = 1 \/ (k - 1 \in DOMAIN t /\ t[k - 1] = s[k])
  BY <1>b, TailAt, Zenon
<1>d. /\ InOrder(ret[p].op, t) /\ (t # <<>> => ~Creates(Head(t)))
      /\ t # <<>> /\ Head(t).do = "search" => s[1] = Dump("link")
  BY <1>b, TailInOrder, Zenon
<1>e. /\ s[1].do # "dump" /\ ~LooksUp(s[1]) /\ s[1] # Dump("link")
      /\ \A k \in Nat : k # 0 => k > 0
  BY <1>b DEF Creates, LooksUp, Dump
<1>f. pos[p] = 0 /\ sent[p].kept = 0 /\ ~ret[p].err /\ got[p] = {} /\ obj[p].link.index = 0
  BY <1>a, <1>b, <1>e, Zenon DEF Sound, Underway, Doing
<1>g. /\ todo'[p] = t /\ pos'[p] = 0 /\ obj'[p] = obj[p] /\ got'[p] = {} /\ sent'[p] = sent[p]
      /\ ret'[p].op = ret[p].op /\ ~ret'[p].err
      /\ kept'[p] \in Nat /\ (kept'[p] # 0 => kept'[p] = Named(links', obj[p].link.name))
  BY <1>f, Zenon DEF GoesOn
<1>h. steady'[p] = {}
  BY <1>b, <1>e, <1>f, SteadyGot, Zenon DEF GoesOn
<1> HIDE DEF s, t
<1>1. InOrder(ret[p].op, todo[p])'
  BY <1>d, <1>g, Zenon DEF InOrder, Placed
<1>2. NameHeld(p)'
  BY <1>f, <1>g, Zenon DEF NameHeld
<1>3. LookedUp(p)'
  <2> SUFFICES ASSUME NEW k \in DOMAIN t, Requests(t[k]) PROVE \E j \in DOMAIN t : LooksUp(t[j])
    BY <1>g, Zenon DEF LookedUp
  <2>1. PICK j \in DOMAIN s : LooksUp(s[j])
    BY <1>a, <1>b, <1>c, Zenon DEF Sound, LookedUp, s
  <2> QED BY <1>c, <1>e, <2>1, Zenon
<1>4. NameDumped(p)'
  BY <1>d, <1>e, <1>g, Zenon DEF NameDumped, Doing
<1>5. SteadyThere(p)' /\ SteadyKnown(p)'
  BY <1>h, Zenon DEF SteadyThere, SteadyKnown
<1>6. Underway(p)' /\ Carried(p)' /\ TargetsKept(p)'
  BY <1>d, <1>f, <1>g, Zenon DEF Underway, Carried, TargetsKept
<1> QED BY <1>1, <1>2, <1>3, <1>4, <1>5, <1>6, Zenon DEF Sound

(* What an answer does to the operation *)
LEMMA AnsweredIs ==
  ASSUME LinkTypeOK, NEW p \in Procs, todo[p] # <<>>, NEW refused \in BOOLEAN, NEW done \in BOOLEAN,
         Answered(p, refused, done)
  PROVE  /\ todo' \in [Procs -> Seq(Steps)]
         /\ ret' \in [Procs -> [op : Ops \cup {"none"}, err : BOOLEAN, done : BOOLEAN]]
         /\ \A q \in Procs \ {p} : todo'[q] = todo[q] /\ ret'[q] = ret[q]
         /\ ret'[p].op = ret[p].op
         /\ \/ ~refused /\ todo'[p] = Tail(todo[p]) /\ ret'[p].err = ret[p].err /\ ret'[p].done = done
            \/ todo'[p] = <<>> /\ ret'[p].err
<1> DEFINE R == [op : Ops \cup {"none"}, err : BOOLEAN, done : BOOLEAN]
           g == [ret[p] EXCEPT !.done = done]  b == [ret[p] EXCEPT !.err = TRUE, !.done = FALSE]
<1>a. ret \in [Procs -> R] /\ todo \in [Procs -> Seq(Steps)] /\ ret[p] \in R
  BY Zenon DEF LinkTypeOK
<1>1. g \in R /\ b \in R
  <2>1. g \in R
    BY <1>a, Zenon
  <2>2. b \in R
    BY <1>a, Zenon
  <2> QED BY <2>1, <2>2, Zenon
<1>5. g.op = ret[p].op /\ g.err = ret[p].err /\ g.done = done /\ b.op = ret[p].op /\ b.err = TRUE
  BY <1>a, Zenon
<1>2. <<>> \in Seq(Steps)
  OBVIOUS
<1>3. CASE ~refused /\ Advance(p) /\ ret' = [ret EXCEPT ![p] = g]
  <2> HIDE DEF g, R
  <2>1. ret' \in [Procs -> R] /\ ret'[p] = g /\ \A q \in Procs \ {p} : ret'[q] = ret[q]
    BY <1>a, <1>1, <1>3, Except, Zenon
  <2>2. ret'[p].op = ret[p].op /\ ret'[p].err = ret[p].err /\ ret'[p].done = done
    BY <1>5, <2>1, Zenon
  <2>3. /\ todo' \in [Procs -> Seq(Steps)] /\ todo'[p] = Tail(todo[p])
        /\ \A q \in Procs \ {p} : todo'[q] = todo[q]
    BY <1>3, AdvanceIs, Zenon
  <2> QED BY <1>3, <2>1, <2>2, <2>3, Zenon DEF R
<1>4. CASE todo' = [todo EXCEPT ![p] = <<>>] /\ ret' = [ret EXCEPT ![p] = b]
  <2> HIDE DEF b, R
  <2>1. ret' \in [Procs -> R] /\ ret'[p] = b /\ \A q \in Procs \ {p} : ret'[q] = ret[q]
    BY <1>a, <1>1, <1>4, Except, Zenon
  <2>2. todo' \in [Procs -> Seq(Steps)] /\ todo'[p] = <<>> /\ \A q \in Procs \ {p} : todo'[q] = todo[q]
    BY <1>a, <1>2, <1>4, Except, Zenon
  <2> QED BY <1>5, <2>1, <2>2, Zenon DEF R
<1> QED BY <1>3, <1>4, Zenon DEF Answered, Errno, Return

LEMMA FilterKeeps ==
  ASSUME LinkInv, NEW p \in Procs, FilterList(p)
  PROVE  LinkInv'
<1>a. LinkTypeOK /\ Sound(p)
  BY Zenon DEF LinkInv
<1> DEFINE g == {e \in got[p] : Keeps(Head(todo[p]).table, obj[p].link.index, e)}
<1>1. /\ todo[p] # <<>> /\ Head(todo[p]).do = "filter" /\ Advance(p) /\ got' = [got EXCEPT ![p] = g]
      /\ UNCHANGED <<links, last, old, lookupByDump, obj, count, ret, pos, kept, sent, claims, steady>>
  BY Zenon DEF FilterList, Doing
<1>2. todo[p] \in Seq(Steps) /\ InOrder(ret[p].op, todo[p]) /\ Head(todo[p]) = todo[p][1]
  BY <1>a, <1>1, HeadIs, Zenon DEF Sound
<1>3. Tail(todo[p]) = <<>> /\ ret[p].op # "LinkList"
  BY <1>1, <1>2, TailInOrder, Zenon
<1>4. todo' \in [Procs -> Seq(Steps)] /\ todo'[p] = <<>> /\ \A q \in Procs \ {p} : todo'[q] = todo[q]
  BY <1>a, <1>1, <1>3, AdvanceIs, Zenon
<1>5. got' \in [Procs -> SUBSET Listed] /\ got'[p] = g /\ \A q \in Procs \ {p} : got'[q] = got[q]
  <2>1. got \in [Procs -> SUBSET Listed] /\ got[p] \in SUBSET Listed
    BY <1>a, Zenon DEF LinkTypeOK
  <2>2. g \in SUBSET Listed
    BY <2>1, Zenon
  <2> HIDE DEF g
  <2> QED BY <1>1, <2>1, <2>2, Except, Zenon
<1>6. "filter" # "dump"
  BY Zenon
<1>7. pos[p] = 0 /\ sent[p].kept = 0 /\ ~ret[p].err /\ steady[p] \subseteq got[p]
  BY <1>a, <1>1, <1>6, SteadyGot, Zenon DEF Sound, Underway, Doing
<1>8. Ends(p)
  <2>1. NameHeld(p)' /\ SteadyThere(p)'
    BY <1>a, <1>1, Zenon DEF Sound, NameHeld, SteadyThere, Entries, TableOf
  <2>2. SteadyKnown(p)'
    <3> SUFFICES ASSUME NEW e \in steady[p], e \notin g
                 PROVE  ~(e[1] = kept[p] /\ obj[p].link.index = kept[p])
      BY <1>1, <1>3, <1>4, <1>5, Zenon DEF SteadyKnown
    <3> QED BY <1>7, Zenon DEF Keeps
  <2>3. Carried(p)' /\ TargetsKept(p)'
    BY <1>1, <1>7, Zenon DEF Carried, TargetsKept
  <2> QED BY <1>1, <1>4, <1>5, <1>7, <2>1, <2>2, <2>3, Zenon DEF Ends
<1> HIDE DEF g
<1>9. LinkTypeOK'
  <2>1. KernelTypeOK'
    BY <1>a, <1>1, Zenon DEF LinkTypeOK, KernelTypeOK
  <2> QED BY <1>a, <1>1, <1>4, <1>5, <2>1, Zenon DEF LinkTypeOK
<1>10. Local(p)
  BY <1>1, <1>4, <1>5, Zenon DEF Local, Kin
<1> QED BY <1>a, <1>1, <1>8, <1>9, <1>10, EndsSound, Quiet, Zenon

LEMMA CreateElsewhereKeeps ==
  ASSUME LinkInv, NEW p \in Procs, CreateElsewhere(p)
  PROVE  LinkInv'
<1>a. LinkTypeOK /\ Sound(p)
  BY Zenon DEF LinkInv
<1>1. /\ todo[p] # <<>> /\ Head(todo[p]).do = "send" /\ Creates(Head(todo[p]))
      /\ UNCHANGED <<links, last, old, lookupByDump, obj, count, pos, got, kept, sent, claims, steady>>
  BY Zenon DEF CreateElsewhere, Doing, Creates
<1>2. PICK refused \in BOOLEAN : Answered(p, refused, ~refused)
  BY Zenon DEF CreateElsewhere
<1>3. /\ todo' \in [Procs -> Seq(Steps)]
      /\ ret' \in [Procs -> [op : Ops \cup {"none"}, err : BOOLEAN, done : BOOLEAN]]
      /\ \A q \in Procs \ {p} : todo'[q] = todo[q] /\ ret'[q] = ret[q]
      /\ ret'[p].op = ret[p].op
      /\ \/ todo'[p] = Tail(todo[p]) /\ ret'[p].err = ret[p].err
         \/ todo'[p] = <<>> /\ ret'[p].err
  <2>1. (~refused) \in BOOLEAN
    BY Zenon
  <2> QED BY <1>a, <1>1, <1>2, <2>1, AnsweredIs, Zenon
<1>4. /\ pos[p] = 0 /\ sent[p].kept = 0 /\ kept[p] \in Nat
      /\ kept[p] # 0 => kept[p] = Named(links, obj[p].link.name)
  <2>1. "send" # "dump"
    BY Zenon
  <2> QED BY <1>a, <1>1, <2>1, Zenon DEF Sound, Underway, Doing, NameHeld, LinkTypeOK
<1>5. Sound(p)'
  <2>1. CASE todo'[p] = Tail(todo[p]) /\ ret'[p].err = ret[p].err
    <3>1. GoesOn(p)
      BY <1>1, <1>3, <1>4, <2>1, Zenon DEF GoesOn
    <3> QED BY <3>1, GoesOnSound, Zenon
  <2>2. CASE todo'[p] = <<>> /\ ret'[p].err
    <3>1. NameHeld(p)' /\ SteadyThere(p)'
      BY <1>a, <1>1, Zenon DEF Sound, NameHeld, SteadyThere, Entries, TableOf
    <3>2. SteadyKnown(p)' /\ Carried(p)' /\ TargetsKept(p)'
      BY <1>1, <1>4, <2>2, Zenon DEF SteadyKnown, Carried, TargetsKept
    <3>3. Ends(p)
      BY <1>1, <1>4, <2>2, <3>1, <3>2, Zenon DEF Ends
    <3> QED BY <1>a, <3>3, EndsSound, Zenon
  <2> QED BY <1>3, <2>1, <2>2, Zenon
<1>6. LinkTypeOK'
  <2>1. KernelTypeOK'
    BY <1>a, <1>1, Zenon DEF LinkTypeOK, KernelTypeOK
  <2> QED BY <1>a, <1>1, <1>3, <2>1, Zenon DEF LinkTypeOK
<1>7. Local(p)
  BY <1>1, <1>3, Zenon DEF Local, Kin
<1> QED BY <1>1, <1>5, <1>6, <1>7, Quiet, Zenon

(* A failed dump fails the list, or leaves the lookup without an index. *)
LEMMA DumpFailsKeeps ==
  ASSUME LinkConstants, LinkInv, NEW p \in Procs, DumpFails(p)
  PROVE  LinkInv'
<1>a. LinkTypeOK /\ Sound(p)
  BY Zenon DEF LinkInv
<1> DEFINE s == todo[p]  t == Tail(s)  u == Tail(Tail(s))
           g == {e \in got[p] : e[2] \notin Names}  st == {e \in steady[p] : e[2] \notin Names}
<1>1. /\ Faults /\ s # <<>> /\ Head(s).do = "dump" /\ pos' = [pos EXCEPT ![p] = 0]
      /\ UNCHANGED <<links, last, old, lookupByDump, obj, count, kept, sent, claims>>
  BY Zenon DEF DumpFails, Doing
<1>2. \/ /\ Len(s) > 1 /\ s[2].do = "search" /\ todo' = [todo EXCEPT ![p] = u]
         /\ got' = [got EXCEPT ![p] = g] /\ steady' = [steady EXCEPT ![p] = st] /\ UNCHANGED ret
      \/ todo' = [todo EXCEPT ![p] = <<>>] /\ Return(p, TRUE, FALSE) /\ UNCHANGED <<got, steady>>
  BY Zenon DEF DumpFails
<1>3. /\ s \in Seq(Steps) /\ InOrder(ret[p].op, s) /\ Head(s) = s[1]
      /\ sent[p].kept = 0 /\ ~ret[p].err /\ kept[p] \in Nat
  BY <1>a, <1>1, HeadIs, Zenon DEF Sound, Underway, LinkTypeOK
<1>4. /\ pos' \in [Procs -> Nat] /\ pos'[p] = 0 /\ \A q \in Procs \ {p} : pos'[q] = pos[q]
  <2>1. 0 \in Nat
    BY Zenon
  <2> QED BY <1>a, <1>1, <2>1, Except, Zenon DEF LinkTypeOK
<1>5. KernelTypeOK'
  BY <1>a, <1>1, Zenon DEF LinkTypeOK, KernelTypeOK
<1> HIDE DEF s
<1>6. CASE /\ Len(s) > 1 /\ s[2].do = "search" /\ todo' = [todo EXCEPT ![p] = u]
           /\ got' = [got EXCEPT ![p] = g] /\ steady' = [steady EXCEPT ![p] = st] /\ UNCHANGED ret
  <2>1. t \in Seq(Steps) /\ t # <<>> /\ t[1] = s[2] /\ Head(t) = t[1]
    <3>1. Len(s) > 1
      BY <1>6, Zenon
    <3> QED BY <1>3, <3>1
  <2>2. InOrder(ret[p].op, t) /\ s[1] = Dump("link")
    BY <1>1, <1>3, <1>6, <2>1, TailInOrder, Zenon
  <2> HIDE DEF t
  <2>3. Tail(t) \in Seq(Steps)
    BY <2>1, TailAt, Zenon
  <2>4. /\ InOrder(ret[p].op, Tail(t)) /\ (Tail(t) # <<>> => ~Creates(Head(Tail(t))))
        /\ Tail(t) # <<>> /\ Head(Tail(t)).do = "search" => t[1] = Dump("link")
    BY <2>1, <2>2, TailInOrder, Zenon
  <2>5. /\ Dump("link").do # "search" /\ Dump("link").table = "link" /\ (\A k \in Nat : k # 0 => k > 0)
    BY DEF Dump
  <2>6. u = Tail(t)
    BY Zenon DEF t
  <2> HIDE DEF u
  <2>7. u \in Seq(Steps) /\ InOrder(ret[p].op, u) /\ (u # <<>> => ~Creates(Head(u)) /\ Head(u).do # "search")
    BY <1>6, <2>1, <2>3, <2>4, <2>5, <2>6, Zenon
  <2>8. todo' \in [Procs -> Seq(Steps)] /\ todo'[p] = u /\ \A q \in Procs \ {p} : todo'[q] = todo[q]
    BY <1>a, <1>6, <2>7, Except, Zenon DEF LinkTypeOK
  <2>9. /\ got' \in [Procs -> SUBSET Listed] /\ got'[p] = g /\ \A q \in Procs \ {p} : got'[q] = got[q]
        /\ steady' \in [Procs -> SUBSET Listed] /\ steady'[p] = st /\ \A q \in Procs \ {p} : steady'[q] = steady[q]
    <3>1. /\ got \in [Procs -> SUBSET Listed] /\ got[p] \in SUBSET Listed
          /\ steady \in [Procs -> SUBSET Listed] /\ steady[p] \in SUBSET Listed
      BY <1>a, Zenon DEF LinkTypeOK
    <3>2. g \in SUBSET Listed /\ st \in SUBSET Listed
      BY <3>1, Zenon
    <3> HIDE DEF g, st
    <3> QED BY <1>6, <3>1, <3>2, Except, Zenon
  <2>10. Sound(p)'
    <3>1. InOrder(ret[p].op, todo[p])'
      BY <1>6, <2>7, <2>8, Zenon DEF InOrder, Placed
    <3>2. NameHeld(p)'
      BY <1>a, <1>1, Zenon DEF Sound, NameHeld
    <3>3. LookedUp(p)'
      <4>1. u = <<>> => DOMAIN u = {}
        OBVIOUS
      <4> QED BY <1>1, <2>7, <2>8, <4>1, Zenon DEF LookedUp
    <3>4. NameDumped(p)'
      BY <1>a, <1>1, <1>3, <1>4, <2>5, <2>7, <2>8, <2>9, Zenon DEF Sound, NameDumped, Doing
    <3>5. SteadyThere(p)'
      BY <1>a, <1>1, <2>9, Zenon DEF Sound, SteadyThere, Entries, TableOf
    <3>6. SteadyKnown(p)'
      <4> SUFFICES ASSUME NEW e \in st PROVE e \in g
        BY <2>9, Zenon DEF SteadyKnown
      <4>1. e \in steady[p] /\ e[2] \notin Names
        BY Zenon
      <4>2. e[2] # "link"
        <5>1. e[2] \in Names \cup Tables
          <6>1. steady[p] \subseteq Listed
            BY <1>a, Zenon DEF LinkTypeOK
          <6>2. e \in Listed
            BY <4>1, <6>1, Zenon
          <6> QED BY <6>2, Zenon DEF Listed
        <5>2. e[2] \in Tables
          BY <4>1, <5>1, Zenon
        <5> QED BY <5>2, Zenon DEF Tables
      <4>3. TableOf(e) # Head(s).table
        BY <1>3, <2>2, <2>5, <4>1, <4>2, Zenon DEF TableOf
      <4>4. e \in got[p]
        BY <1>a, <1>1, <1>3, <4>1, <4>3, Zenon DEF Sound, SteadyKnown, s
      <4> QED BY <4>1, <4>4, Zenon
    <3>7. Underway(p)' /\ Carried(p)' /\ TargetsKept(p)'
      BY <1>1, <1>3, <1>4, <1>6, <2>7, <2>8, Zenon DEF Underway, Carried, TargetsKept
    <3> QED BY <3>1, <3>2, <3>3, <3>4, <3>5, <3>6, <3>7, Zenon DEF Sound
  <2> HIDE DEF g, st
  <2>11. LinkTypeOK'
    BY <1>a, <1>1, <1>4, <1>5, <1>6, <2>8, <2>9, Zenon DEF LinkTypeOK
  <2>12. Local(p)
    BY <1>1, <1>4, <1>6, <2>8, <2>9, Zenon DEF Local, Kin
  <2> QED BY <1>1, <2>10, <2>11, <2>12, Quiet, Zenon
<1>7. CASE todo' = [todo EXCEPT ![p] = <<>>] /\ Return(p, TRUE, FALSE) /\ UNCHANGED <<got, steady>>
  <2>1. Answered(p, TRUE, FALSE)
    BY <1>7, Zenon DEF Answered, Errno
  <2>2. /\ todo' \in [Procs -> Seq(Steps)]
        /\ ret' \in [Procs -> [op : Ops \cup {"none"}, err : BOOLEAN, done : BOOLEAN]]
        /\ \A q \in Procs \ {p} : todo'[q] = todo[q] /\ ret'[q] = ret[q]
        /\ todo'[p] = <<>> /\ ret'[p].err
    BY <1>a, <1>1, <2>1, AnsweredIs, Zenon DEF s
  <2>3. NameHeld(p)' /\ SteadyThere(p)'
    BY <1>a, <1>1, <1>7, Zenon DEF Sound, NameHeld, SteadyThere, Entries, TableOf
  <2>4. SteadyKnown(p)' /\ Carried(p)' /\ TargetsKept(p)'
    BY <1>1, <1>3, <2>2, Zenon DEF SteadyKnown, Carried, TargetsKept
  <2>5. Ends(p)
    BY <1>1, <1>4, <1>7, <2>2, <2>3, <2>4, Zenon DEF Ends
  <2>6. LinkTypeOK'
    BY <1>a, <1>1, <1>4, <1>5, <1>7, <2>2, Zenon DEF LinkTypeOK
  <2>7. Local(p)
    BY <1>1, <1>4, <1>7, <2>2, Zenon DEF Local, Kin
  <2> QED BY <1>a, <1>1, <2>5, <2>6, <2>7, EndsSound, Quiet, Zenon
<1> QED BY <1>2, <1>6, <1>7, Zenon

-----------------------------------------------------------------------------
(* Requests that change what the kernel has *)

(* Watch leaves a caller its name where the name denotes the same device, and the entries that
   are there. *)
LEMMA WatchSpares ==
  ASSUME LinkConstants, LinkInv, NEW p \in Procs, Watch(p), KernelTypeOK', NamesUnique'
  PROVE  /\ kept' \in [Procs -> Nat] /\ steady' \in [Procs -> SUBSET Listed]
         /\ \A q \in Procs : steady'[q] \subseteq steady[q] /\ SteadyThere(q)'
         /\ 0 \notin DOMAIN links'
         /\ \A q \in Procs : kept'[q] # 0 => kept'[q] = Named(links', obj[q].link.name)
         /\ \A q \in Procs : q # p => kept'[q] \in {0, kept[q]}
         /\ ~(Doing(p, "send") /\ Head(todo[p]).type = "create") => kept'[p] \in {0, kept[p]}
<1>a. LinkTypeOK
  BY Zenon DEF LinkInv
<1> DEFINE N(q) == Named(links', obj[q].link.name)
           c == Doing(p, "send") /\ Head(todo[p]).type = "create"
           S(q) == {e \in steady[q] : \E t \in {"link", "addr", "route", "neigh"} :
                                        e[1] \in DOMAIN links' /\ e \in Entries(links', t, e[1])}
<1>1. /\ kept' = [q \in Procs |-> IF N(q) = kept[q] THEN kept[q] ELSE IF q = p /\ c THEN N(p) ELSE 0]
      /\ steady' = [q \in Procs |-> S(q)]
  BY Zenon DEF Watch
<1>2. 0 \notin DOMAIN links' /\ 0 \in Nat /\ DOMAIN links' \subseteq Nat
  BY DEF KernelTypeOK
<1>3. \A n : Named(links', n) \in Nat
  <2>1. \A i, j \in DOMAIN links' : links'[i].name = links'[j].name => i = j
    BY Zenon DEF NamesUnique
  <2> QED BY <1>2, <2>1, NamedIs, Zenon
<1>4. ASSUME NEW q \in Procs
      PROVE  /\ kept'[q] = IF N(q) = kept[q] THEN kept[q] ELSE IF q = p /\ c THEN N(p) ELSE 0
             /\ steady'[q] = S(q)
  BY <1>1, Zenon
<1>5. ASSUME NEW q \in Procs
      PROVE  /\ kept'[q] \in Nat
             /\ kept'[q] # 0 => kept'[q] = N(q)
             /\ q # p \/ ~c => kept'[q] \in {0, kept[q]}
  <2> HIDE DEF N, c, S
  <2>1. N(p) \in Nat
    BY <1>3, Zenon DEF N
  <2>2. kept[q] \in Nat
    BY <1>a, Zenon DEF LinkTypeOK
  <2> QED BY <1>2, <1>4, <2>1, <2>2, Zenon
<1>6. ASSUME NEW q \in Procs
      PROVE  steady'[q] \subseteq steady[q] /\ SteadyThere(q)'
  <2>1. steady'[q] \subseteq steady[q]
    BY <1>4, Zenon
  <2>2. ASSUME NEW e \in steady'[q]
        PROVE  e[1] \in DOMAIN links' /\ e \in Entries(links', TableOf(e), e[1])
    <3>1. PICK t \in {"link", "addr", "route", "neigh"} : e[1] \in DOMAIN links' /\ e \in Entries(links', t, e[1])
      BY <1>4, <2>2, Zenon
    <3>2. t \in Dumps
      BY Zenon DEF Dumps, Tables
    <3>3. links'[e[1]].name \in Names
      <4>1. links'[e[1]] \in Devices
        BY <3>1, Zenon DEF KernelTypeOK
      <4> QED BY <4>1, Zenon DEF Devices
    <3>4. TableOf(e) = t
      BY <3>1, <3>2, <3>3, EntryIs, SMT
    <3> QED BY <3>1, <3>4, Zenon
  <2> QED BY <2>1, <2>2, Zenon DEF SteadyThere, TableOf, Entries
<1>7. kept' \in [Procs -> Nat]
  <2>1. kept' = [q \in Procs |-> kept'[q]]
    BY <1>1, Zenon
  <2> QED BY <1>5, <2>1, Zenon
<1>8. steady' \in [Procs -> SUBSET Listed]
  <2>1. steady' = [q \in Procs |-> steady'[q]]
    BY <1>1, Zenon
  <2>2. \A q \in Procs : steady'[q] \in SUBSET Listed
    BY <1>a, <1>6, Zenon DEF LinkTypeOK
  <2> QED BY <2>1, <2>2, Zenon
<1> HIDE DEF S
<1> QED BY <1>2, <1>5, <1>6, <1>7, <1>8, Zenon

LEMMA Changed ==
  ASSUME LinkConstants, LinkInv, NEW p \in Procs, Watch(p), LinkTypeOK', NamesUnique', ClaimedOnce',
         \A q \in Procs \ {p} : Kin(q)' = Kin(q), Sound(p)'
  PROVE  LinkInv'
<1>1. KernelTypeOK'
  BY Zenon DEF LinkTypeOK
<1>2. ASSUME NEW q \in Procs, q # p PROVE Sound(q)'
  <2>1. Spared(q)
    <3>1. steady'[q] \subseteq steady[q] /\ SteadyThere(q)' /\ 0 \notin DOMAIN links'
      BY <1>1, WatchSpares, Zenon
    <3>2. kept'[q] # 0 => kept'[q] = Named(links', obj[q].link.name)
      BY <1>1, WatchSpares, Zenon
    <3>3. kept'[q] \in {0, kept[q]}
      BY <1>1, <1>2, WatchSpares, Zenon
    <3> QED BY <1>2, <3>1, <3>2, <3>3, Zenon DEF Spared
  <2>2. Sound(q)
    BY Zenon DEF LinkInv
  <2> QED BY <2>1, <2>2, SparedIsSound, Zenon
<1>3. \A q \in Procs : Sound(q)'
  BY <1>2, Zenon
<1> QED BY <1>3, Zenon DEF LinkInv

(* A new device has a new index, claimed by one caller. *)
LEMMA CreateLinkKernel ==
  ASSUME LinkConstants, LinkInv, NEW p \in Procs, CreateLink(p)
  PROVE  KernelTypeOK' /\ NamesUnique' /\ ClaimedOnce'
<1>a. LinkTypeOK /\ KernelTypeOK /\ NamesUnique /\ ClaimedOnce
  BY Zenon DEF LinkInv, LinkTypeOK
<1> DEFINE n == obj[p].link.name  there == Named(links, n)  made == last + 1
<1>1. "EXCL" \in LinkAddFlags
  BY Zenon DEF LinkAddFlags
<1>2. \/ UNCHANGED <<links, last, claims>>
      \/ /\ there = 0 /\ last # MaxIndex
         /\ links' = [i \in DOMAIN links \cup {made} |-> IF i = made THEN Device(n) ELSE links[i]]
         /\ last' = made /\ claims' = [claims EXCEPT ![made] = claims[made] + 1]
  BY <1>1, Zenon DEF CreateLink
<1>3. CASE UNCHANGED <<links, last, claims>>
  BY <1>a, <1>3, Zenon DEF KernelTypeOK, NamesUnique, ClaimedOnce
<1>4. CASE /\ there = 0 /\ last # MaxIndex
           /\ links' = [i \in DOMAIN links \cup {made} |-> IF i = made THEN Device(n) ELSE links[i]]
           /\ last' = made /\ claims' = [claims EXCEPT ![made] = claims[made] + 1]
  <2>1. made \in 1 .. MaxIndex /\ made > last /\ made \notin DOMAIN links /\ 1 .. last \subseteq 1 .. made
        /\ made \in 1 .. made /\ last \in Nat
    BY <1>a, <1>4 DEF KernelTypeOK, LinkConstants
  <2>2. n \in Names /\ Device(n) \in Devices /\ Device(n).name = n
    <3>1. obj[p] \in Objects
      BY <1>a, Zenon DEF LinkTypeOK
    <3>2. n \in Names
      BY <3>1, Zenon DEF Objects
    <3> QED BY <3>2, Zenon DEF Device, Devices
  <2>3. \A i \in DOMAIN links : links[i].name # n
    BY <1>a, <1>4, NamedHere, Zenon
  <2>4. claims[made] = 0
    BY <1>a, <2>1, Zenon DEF ClaimedOnce
  <2> HIDE DEF n, there, made
  <2>5. /\ DOMAIN links' = DOMAIN links \cup {made} /\ links'[made] = Device(n)
        /\ \A i \in DOMAIN links : links'[i] = links[i]
        /\ links' = [i \in DOMAIN links' |-> links'[i]]
    BY <1>4, <2>1, Zenon
  <2>6. claims' \in [1 .. MaxIndex -> Nat] /\ claims'[made] = 1 /\ \A i \in 1 .. MaxIndex \ {made} : claims'[i] = claims[i]
    BY <1>a, <1>4, <2>1, <2>4 DEF KernelTypeOK
  <2>7. KernelTypeOK'
    <3>1. DOMAIN links' \subseteq 1 .. last'
      BY <1>a, <1>4, <2>1, <2>5, Zenon DEF KernelTypeOK
    <3>2. \A i \in DOMAIN links' : links'[i] \in Devices
      BY <1>a, <2>2, <2>5, Zenon DEF KernelTypeOK
    <3> QED BY <1>4, <2>1, <2>5, <2>6, <3>1, <3>2, Zenon DEF KernelTypeOK
  <2>8. NamesUnique'
    <3>1. links'[made].name = n /\ \A i \in DOMAIN links : links'[i].name # n
      BY <2>2, <2>3, <2>5, Zenon
    <3> SUFFICES ASSUME NEW i \in DOMAIN links', NEW j \in DOMAIN links', links'[i].name = links'[j].name
                 PROVE  i = j
      BY Zenon DEF NamesUnique
    <3>2. CASE i \in DOMAIN links /\ j \in DOMAIN links
      <4>1. links[i].name = links[j].name
        BY <2>5, <3>2, Zenon
      <4> QED BY <1>a, <3>2, <4>1, Zenon DEF NamesUnique
    <3>3. CASE i = made \/ j = made
      BY <2>5, <3>1, <3>3, Zenon
    <3> QED BY <2>5, <3>2, <3>3, Zenon
  <2>9. ClaimedOnce'
    <3> SUFFICES ASSUME NEW i \in 1 .. MaxIndex PROVE claims'[i] <= 1 /\ (i > made => claims'[i] = 0)
      BY <1>4, Zenon DEF ClaimedOnce
    <3>1. CASE i = made
      BY <2>1, <2>6, <3>1
    <3>2. CASE i # made
      <4>1. claims'[i] = claims[i] /\ claims[i] <= 1 /\ (i > last => claims[i] = 0)
        BY <1>a, <2>6, <3>2, Zenon DEF ClaimedOnce
      <4>2. i > made => i > last
        BY <2>1
      <4> QED BY <4>1, <4>2, Zenon
    <3> QED BY <3>1, <3>2, Zenon
  <2> QED BY <2>7, <2>8, <2>9, Zenon
<1> QED BY <1>2, <1>3, <1>4, Zenon

LEMMA CreateLinkKeeps ==
  ASSUME LinkConstants, LinkInv, NEW p \in Procs, CreateLink(p)
  PROVE  LinkInv'
<1>a. LinkTypeOK /\ Sound(p)
  BY Zenon DEF LinkInv
<1>1. /\ todo[p] # <<>> /\ Head(todo[p]).do = "send" /\ Creates(Head(todo[p])) /\ Watch(p)
      /\ UNCHANGED <<old, lookupByDump, obj, count, pos, got, sent>>
  BY Zenon DEF CreateLink, Doing, Creates
<1>2. \E refused \in BOOLEAN : Answered(p, refused, ~refused)
  <2> DEFINE there == Named(links, obj[p].link.name)
             refused == (there # 0 /\ "EXCL" \in LinkAddFlags) \/ (there = 0 /\ last = MaxIndex)
  <2>1. Answered(p, refused, ~refused) /\ refused \in BOOLEAN
    BY Zenon DEF CreateLink
  <2> HIDE DEF refused
  <2> QED BY <2>1, Zenon
<1>3. PICK refused \in BOOLEAN : Answered(p, refused, ~refused)
  BY <1>2, Zenon
<1>4. /\ todo' \in [Procs -> Seq(Steps)]
      /\ ret' \in [Procs -> [op : Ops \cup {"none"}, err : BOOLEAN, done : BOOLEAN]]
      /\ \A q \in Procs \ {p} : todo'[q] = todo[q] /\ ret'[q] = ret[q]
      /\ ret'[p].op = ret[p].op
      /\ \/ todo'[p] = Tail(todo[p]) /\ ret'[p].err = ret[p].err
         \/ todo'[p] = <<>> /\ ret'[p].err
  <2>1. (~refused) \in BOOLEAN
    BY Zenon
  <2> QED BY <1>a, <1>1, <1>3, <2>1, AnsweredIs, Zenon
<1>5. KernelTypeOK' /\ NamesUnique' /\ ClaimedOnce'
  BY CreateLinkKernel, Zenon
<1>6. /\ kept' \in [Procs -> Nat] /\ steady' \in [Procs -> SUBSET Listed]
      /\ steady'[p] \subseteq steady[p] /\ SteadyThere(p)'
      /\ kept'[p] # 0 => kept'[p] = Named(links', obj[p].link.name)
  BY <1>1, <1>5, WatchSpares, Zenon
<1>7. LinkTypeOK'
  BY <1>a, <1>1, <1>4, <1>5, <1>6, Zenon DEF LinkTypeOK
<1>8. pos[p] = 0 /\ sent[p].kept = 0 /\ got[p] = {} /\ obj[p].link.index = 0 /\ kept'[p] \in Nat
  <2>1. "send" # "dump"
    BY Zenon
  <2> QED BY <1>a, <1>1, <1>6, <2>1, Zenon DEF Sound, Underway, Doing
<1>9. Sound(p)'
  <2>1. CASE todo'[p] = Tail(todo[p]) /\ ret'[p].err = ret[p].err
    <3>1. GoesOn(p)
      BY <1>1, <1>4, <1>6, <1>8, <2>1, Zenon DEF GoesOn
    <3> QED BY <3>1, GoesOnSound, Zenon
  <2>2. CASE todo'[p] = <<>> /\ ret'[p].err
    <3>1. NameHeld(p)'
      BY <1>1, <1>6, <1>8, Zenon DEF NameHeld
    <3>2. SteadyKnown(p)' /\ Carried(p)' /\ TargetsKept(p)'
      BY <1>1, <1>8, <2>2, Zenon DEF SteadyKnown, Carried, TargetsKept
    <3>3. Ends(p)
      BY <1>1, <1>6, <1>8, <2>2, <3>1, <3>2, Zenon DEF Ends
    <3> QED BY <1>a, <3>3, EndsSound, Zenon
  <2> QED BY <1>4, <2>1, <2>2, Zenon
<1>10. \A q \in Procs \ {p} : Kin(q)' = Kin(q)
  BY <1>1, <1>4, Zenon DEF Kin
<1> QED BY <1>1, <1>5, <1>7, <1>9, <1>10, Changed, Zenon

LEMMA RequestKeys ==
  ASSUME NEW s \in Steps, Requests(s)
  PROVE  /\ s.type \in {"on", "off", "name", "master", "nomaster", "del", "netns",
                        "excl", "replace", "append", "remove"}
         /\ s.type \in {"on", "off"} => s.key \in Settings
         /\ s.type = "name" => s.key \in Names
         /\ s.type \in {"excl", "replace", "append", "remove"} => s.key \in Tables
BY Zenon DEF Steps, Requests

LEMMA DeviceSet ==
  ASSUME NEW d \in Devices
  PROVE  /\ \A k \in Settings : /\ [d EXCEPT !.flags = d.flags \cup {k}] \in Devices
                                /\ [d EXCEPT !.flags = d.flags \ {k}] \in Devices
         /\ \A n \in Names : [d EXCEPT !.name = n] \in Devices
         /\ \A m \in Nat : [d EXCEPT !.master = m] \in Devices
         /\ \A k \in Tables : /\ [d EXCEPT !.tab = d.tab \cup {k}] \in Devices
                              /\ [d EXCEPT !.tab = d.tab \ {k}] \in Devices
BY Zenon DEF Devices

LEMMA DeviceName ==
  ASSUME NEW d \in Devices, NEW x
  PROVE  /\ [d EXCEPT !.flags = x].name = d.name /\ [d EXCEPT !.tab = x].name = d.name
         /\ [d EXCEPT !.master = x].name = d.name /\ [d EXCEPT !.name = x].name = x
BY Zenon DEF Devices

(* What a request leaves of the devices: a name is changed only where it is to be set, and only
   deletions and moves to another namespace take devices away. *)
LEMMA HandledIs ==
  ASSUME KernelTypeOK, NEW s \in Steps, Requests(s), NEW i \in DOMAIN links, NEW m \in Nat,
         NEW ls, ls = Handled(i, s, m)
  PROVE  /\ DOMAIN ls \subseteq DOMAIN links /\ ls \in [DOMAIN ls -> Devices]
         /\ \A j \in DOMAIN ls : j # i \/ s.type # "name" => ls[j].name = links[j].name
         /\ s.type = "name" => ls[i].name = s.key
<1> DEFINE D == DOMAIN links  d == links[i]
<1>a. links \in [D -> Devices] /\ d \in Devices
  BY Zenon DEF KernelTypeOK
<1>k. /\ s.type \in {"on", "off", "name", "master", "nomaster", "del", "netns", "excl", "replace", "append", "remove"}
      /\ s.type \in {"on", "off"} => s.key \in Settings
      /\ s.type = "name" => s.key \in Names
      /\ s.type \in {"excl", "replace", "append", "remove"} => s.key \in Tables
  BY RequestKeys, Zenon
<1>s. ASSUME NEW x \in Devices, ls = [links EXCEPT ![i] = x],
             s.type # "name" => x.name = d.name, s.type = "name" => x.name = s.key
      PROVE  /\ DOMAIN ls \subseteq D /\ ls \in [DOMAIN ls -> Devices]
             /\ \A j \in DOMAIN ls : j # i \/ s.type # "name" => ls[j].name = links[j].name
             /\ s.type = "name" => ls[i].name = s.key
  <2>1. DOMAIN ls = D /\ ls \in [D -> Devices] /\ ls[i] = x /\ \A j \in D \ {i} : ls[j] = links[j]
    <3>1. links \in [D -> Devices] /\ i \in D /\ ls = [links EXCEPT ![i] = x]
      BY <1>a, <1>s, Zenon
    <3> HIDE DEF D
    <3> QED BY <3>1, Zenon
  <2> HIDE DEF D
  <2> QED BY <1>s, <2>1, Zenon
<1>1. CASE s.type = "on"
  <2>1. ls = [links EXCEPT ![i] = [d EXCEPT !.flags = d.flags \cup {s.key}]]
    BY <1>1, Zenon DEF Handled
  <2>2. [d EXCEPT !.flags = d.flags \cup {s.key}] \in Devices
    BY <1>a, <1>k, <1>1, DeviceSet, Zenon
  <2> QED BY <1>a, <1>s, <1>1, <2>1, <2>2, DeviceName
<1>2. CASE s.type = "off"
  <2>1. ls = [links EXCEPT ![i] = [d EXCEPT !.flags = d.flags \ {s.key}]]
    BY <1>2, Zenon DEF Handled
  <2>2. [d EXCEPT !.flags = d.flags \ {s.key}] \in Devices
    BY <1>a, <1>k, <1>2, DeviceSet, Zenon
  <2> QED BY <1>a, <1>s, <1>2, <2>1, <2>2, DeviceName
<1>3. CASE s.type = "name"
  <2>1. ls = [links EXCEPT ![i] = [d EXCEPT !.name = s.key]]
    BY <1>3, Zenon DEF Handled
  <2>2. [d EXCEPT !.name = s.key] \in Devices
    BY <1>a, <1>k, <1>3, DeviceSet, Zenon
  <2>3. [d EXCEPT !.name = s.key].name = s.key
    BY <1>a, Zenon DEF Devices
  <2> QED BY <1>s, <1>3, <2>1, <2>2, <2>3, Zenon
<1>4. CASE s.type = "master"
  <2>1. ls = [links EXCEPT ![i] = [d EXCEPT !.master = m]]
    BY <1>4, Zenon DEF Handled
  <2>2. [d EXCEPT !.master = m] \in Devices
    BY <1>a, DeviceSet, Zenon
  <2> QED BY <1>a, <1>s, <1>4, <2>1, <2>2, DeviceName
<1>5. CASE s.type = "nomaster"
  <2>1. ls = [links EXCEPT ![i] = [d EXCEPT !.master = 0]]
    BY <1>5, Zenon DEF Handled
  <2>2. [d EXCEPT !.master = 0] \in Devices
    BY <1>a, Zenon DEF Devices
  <2> QED BY <1>a, <1>s, <1>5, <2>1, <2>2, DeviceName
<1>6. CASE s.type \in {"excl", "replace", "append"}
  <2>1. ls = [links EXCEPT ![i] = [d EXCEPT !.tab = d.tab \cup {s.key}]]
    <3>1. ls = [links EXCEPT ![i].tab = @ \cup {s.key}]
      BY <1>6, Zenon DEF Handled
    <3> QED BY <3>1, Zenon
  <2>2. [d EXCEPT !.tab = d.tab \cup {s.key}] \in Devices
    BY <1>a, <1>k, <1>6, DeviceSet, Zenon
  <2>3. s.type # "name"
    BY <1>6, Zenon
  <2> QED BY <1>a, <1>s, <2>1, <2>2, <2>3, DeviceName
<1>7. CASE s.type = "remove"
  <2>1. ls = [links EXCEPT ![i] = [d EXCEPT !.tab = d.tab \ {s.key}]]
    BY <1>7, Zenon DEF Handled
  <2>2. [d EXCEPT !.tab = d.tab \ {s.key}] \in Devices
    BY <1>a, <1>k, <1>7, DeviceSet, Zenon
  <2> QED BY <1>a, <1>s, <1>7, <2>1, <2>2, DeviceName
<1>8. CASE s.type \in {"del", "netns"}
  <2> DEFINE f(j) == IF links[j].master = i THEN [links[j] EXCEPT !.master = 0] ELSE links[j]
  <2>1. ls = [j \in D \ {i} |-> f(j)]
    BY <1>8, Zenon DEF Handled
  <2>2. ASSUME NEW j \in D PROVE f(j) \in Devices /\ f(j).name = links[j].name
    <3>1. links[j] \in Devices
      BY <1>a, Zenon
    <3>2. [links[j] EXCEPT !.master = 0] \in Devices /\ [links[j] EXCEPT !.master = 0].name = links[j].name
      BY <3>1, Zenon DEF Devices
    <3> QED BY <3>1, <3>2, Zenon
  <2>3. s.type # "name"
    BY <1>8, Zenon
  <2> HIDE DEF f, D
  <2>4. DOMAIN ls = D \ {i} /\ (\A j \in D \ {i} : ls[j] = f(j)) /\ ls \in [D \ {i} -> Devices]
    BY <2>1, <2>2, Zenon
  <2>5. \A j \in D \ {i} : ls[j].name = links[j].name
    BY <2>2, <2>4, Zenon
  <2> QED BY <2>3, <2>4, <2>5, Zenon DEF D
<1> QED BY <1>k, <1>1, <1>2, <1>3, <1>4, <1>5, <1>6, <1>7, <1>8, Zenon

LEMMA ExecuteKernel ==
  ASSUME LinkInv, NEW p \in Procs, Execute(p)
  PROVE  KernelTypeOK' /\ NamesUnique' /\ ClaimedOnce'
<1> DEFINE s == Head(todo[p])  i == obj[p].link.index  m == obj[p].master.index
           refused == Refused(Target(i, s), s, m)
<1>a. LinkTypeOK /\ KernelTypeOK /\ NamesUnique /\ ClaimedOnce
  BY Zenon DEF LinkInv, LinkTypeOK
<1>1. /\ todo[p] # <<>> /\ Requests(s) /\ UNCHANGED <<last, claims>>
      /\ links' = IF refused \/ i = 0 THEN links ELSE Handled(i, s, m)
  BY Zenon DEF Execute, Doing, Requests
<1>2. s \in Steps /\ i \in Nat /\ m \in Nat
  <2>1. obj[p] \in Objects
    BY <1>a, Zenon DEF LinkTypeOK
  <2>2. i \in Nat /\ m \in Nat
    BY <2>1, Zenon DEF Objects
  <2> QED BY <1>a, <1>1, <2>2, HeadIs, Zenon
<1>3. ClaimedOnce'
  BY <1>a, <1>1, Zenon DEF ClaimedOnce
<1>4. CASE refused \/ i = 0
  <2>1. links' = links
    BY <1>1, <1>4, Zenon
  <2> QED BY <1>a, <1>1, <1>3, <2>1, Zenon DEF KernelTypeOK, NamesUnique
<1>5. CASE ~refused /\ i # 0
  <2>1. links' = Handled(i, s, m) /\ Target(i, s) = i
    BY <1>1, <1>5, Zenon DEF Target
  <2>2. i \in DOMAIN links /\ (s.type = "name" => Named(links, s.key) \in {0, i})
    <3>1. ~Refused(i, s, m)
      BY <1>5, <2>1, Zenon
    <3> QED BY <3>1, Zenon DEF Refused
  <2> HIDE DEF s, i, m
  <2>3. /\ DOMAIN links' \subseteq DOMAIN links /\ links' \in [DOMAIN links' -> Devices]
        /\ \A j \in DOMAIN links' : j # i \/ s.type # "name" => links'[j].name = links[j].name
        /\ s.type = "name" => links'[i].name = s.key
    BY <1>a, <1>1, <1>2, <2>1, <2>2, HandledIs
  <2>4. KernelTypeOK'
    <3>1. links' = [j \in DOMAIN links' |-> links'[j]]
      BY <2>3, Zenon
    <3> QED BY <1>a, <1>1, <2>3, <3>1, Zenon DEF KernelTypeOK
  <2>5. NamesUnique'
    <3> SUFFICES ASSUME NEW j \in DOMAIN links', NEW k \in DOMAIN links', links'[j].name = links'[k].name
                 PROVE  j = k
      BY Zenon DEF NamesUnique
    <3>1. j \in DOMAIN links /\ k \in DOMAIN links
      BY <2>3, Zenon
    <3>2. CASE s.type # "name" \/ (j # i /\ k # i)
      BY <1>a, <2>3, <3>1, <3>2, Zenon DEF NamesUnique
    <3>3. ASSUME s.type = "name", NEW h \in DOMAIN links, links[h].name = s.key PROVE h = i
      <4>1. Named(links, s.key) = h /\ h # 0
        BY <1>a, <3>3, NamedHere, SMT
      <4> QED BY <2>2, <3>3, <4>1, Zenon
    <3>4. CASE s.type = "name" /\ j = i /\ k # i
      BY <2>3, <3>1, <3>3, <3>4, Zenon
    <3>5. CASE s.type = "name" /\ k = i /\ j # i
      BY <2>3, <3>1, <3>3, <3>5, Zenon
    <3> QED BY <3>2, <3>4, <3>5, Zenon
  <2> QED BY <1>3, <2>4, <2>5, Zenon
<1> QED BY <1>4, <1>5, Zenon

LEMMA ExecuteKeeps ==
  ASSUME LinkConstants, LinkInv, NEW p \in Procs, Execute(p)
  PROVE  LinkInv'
<1> DEFINE s == Head(todo[p])  i == obj[p].link.index  m == obj[p].master.index
           refused == Refused(Target(i, s), s, m)  done == ~refused /\ i # 0  r == [index |-> i, kept |-> kept[p]]
<1>a. LinkTypeOK /\ NamesUnique /\ Sound(p)
  BY Zenon DEF LinkInv
<1>1. /\ todo[p] # <<>> /\ s.do = "send" /\ Requests(s) /\ Watch(p)
      /\ sent' = [sent EXCEPT ![p] = r] /\ Answered(p, refused, done)
      /\ UNCHANGED <<last, old, lookupByDump, obj, count, pos, got, claims>>
  BY Zenon DEF Execute, Doing, Requests
<1>2. KernelTypeOK' /\ NamesUnique' /\ ClaimedOnce'
  BY ExecuteKernel, Zenon
<1>3. todo[p] \in Seq(Steps) /\ InOrder(ret[p].op, todo[p]) /\ s = todo[p][1]
  BY <1>a, <1>1, HeadIs, Zenon DEF Sound
<1>4. Tail(todo[p]) = <<>>
  BY <1>1, <1>3, TailInOrder, Zenon
<1>5. refused \in BOOLEAN /\ done \in BOOLEAN
  BY Zenon DEF Refused
<1>6. i = 0 /\ ~refused => s.type = "name"
  <2>1. 0 \notin DOMAIN links
    BY <1>a, NamedHere, Zenon
  <2> QED BY <2>1, Zenon DEF Refused, Target
<1>7. /\ todo' \in [Procs -> Seq(Steps)]
      /\ ret' \in [Procs -> [op : Ops \cup {"none"}, err : BOOLEAN, done : BOOLEAN]]
      /\ \A q \in Procs \ {p} : todo'[q] = todo[q] /\ ret'[q] = ret[q]
      /\ todo'[p] = <<>> /\ ret'[p].op = ret[p].op
      /\ ret'[p].err \/ (~refused /\ ret'[p].done = done)
  <2> HIDE DEF refused, done
  <2> QED BY <1>a, <1>1, <1>4, <1>5, AnsweredIs, Zenon
<1>8. /\ kept' \in [Procs -> Nat] /\ steady' \in [Procs -> SUBSET Listed]
      /\ steady'[p] \subseteq steady[p] /\ SteadyThere(p)'
      /\ kept'[p] # 0 => kept'[p] = Named(links', obj[p].link.name)
  BY <1>1, <1>2, WatchSpares, Zenon
<1>9. kept'[p] \in {0, kept[p]}
  <2>1. ~(Doing(p, "send") /\ Head(todo[p]).type = "create")
    BY <1>1, Zenon DEF Requests
  <2> QED BY <1>1, <1>2, <2>1, WatchSpares, Zenon
<1>10. /\ sent' \in [Procs -> [index : Nat, kept : Nat]] /\ sent'[p] = r /\ r.index = i /\ r.kept = kept[p]
       /\ \A q \in Procs \ {p} : sent'[q] = sent[q]
  <2>1. obj[p] \in Objects /\ kept[p] \in Nat /\ sent \in [Procs -> [index : Nat, kept : Nat]]
    BY <1>a, Zenon DEF LinkTypeOK
  <2>2. i \in Nat
    BY <2>1, Zenon DEF Objects
  <2> HIDE DEF i
  <2>3. r \in [index : Nat, kept : Nat] /\ r.index = i /\ r.kept = kept[p]
    BY <2>1, <2>2, Zenon
  <2> HIDE DEF r
  <2> QED BY <1>1, <2>1, <2>3, Except, Zenon
<1>11. LinkTypeOK'
  <2> HIDE DEF r
  <2> QED BY <1>a, <1>1, <1>2, <1>7, <1>8, <1>10, Zenon DEF LinkTypeOK
<1>12. pos[p] = 0 /\ steady[p] \subseteq got[p]
  <2>1. "send" # "dump"
    BY Zenon
  <2> QED BY <1>a, <1>1, <2>1, SteadyGot, Zenon DEF Sound, Underway, Doing
<1>13. kept[p] # 0 => i = kept[p] \/ (Faults /\ i = 0)
  <2>1. DOMAIN todo[p] = {1}
    <3>1. Len(Tail(todo[p])) = Len(todo[p]) - 1 /\ Len(todo[p]) \in Nat
      BY <1>1, <1>3, TailAt, Zenon
    <3>2. Len(<<>>) = 0
      BY Zenon
    <3> DEFINE n == Len(todo[p])
    <3>3. n \in Nat /\ 0 = n - 1
      BY <1>4, <3>1, <3>2, Zenon
    <3>4. Len(todo[p]) = 1
      <4> HIDE DEF n
      <4>1. n = 1
        BY <3>3
      <4> QED BY <4>1, Zenon DEF n
    <3> QED BY <1>3, <3>4, OneStep, Zenon
  <2>2. ~LooksUp(todo[p][1])
    <3>1. "send" # "ensure" /\ "send" # "search"
      BY Zenon
    <3> QED BY <1>1, <1>3, <3>1, Zenon DEF LooksUp
  <2>3. Faults \/ kept[p] = 0 \/ i = kept[p]
    BY <1>a, <1>1, <1>3, <2>1, <2>2, Zenon DEF Sound, LookedUp
  <2> QED BY <1>a, <2>3, Zenon DEF Sound, NameHeld
<1>14. s.type = "name" => ret[p].op = "LinkSetName"
  <2>1. 1 \in DOMAIN todo[p]
    BY <1>1, <1>3, FirstAt, Zenon
  <2> QED BY <1>1, <1>3, <2>1, Zenon DEF InOrder, Placed
<1> HIDE DEF refused, r
<1>15. Sound(p)'
  <2>1. NameHeld(p)'
    BY <1>a, <1>1, <1>8, <1>9, Zenon DEF Sound, NameHeld
  <2>2. SteadyKnown(p)'
    BY <1>1, <1>8, <1>12, Zenon DEF SteadyKnown
  <2>3. Carried(p)' /\ TargetsKept(p)'
    BY <1>6, <1>7, <1>10, <1>13, <1>14, Zenon DEF Carried, TargetsKept
  <2>4. Ends(p)
    BY <1>1, <1>7, <1>8, <1>9, <1>12, <2>1, <2>2, <2>3, Zenon DEF Ends
  <2> QED BY <1>a, <2>4, EndsSound, Zenon
<1>16. \A q \in Procs \ {p} : Kin(q)' = Kin(q)
  BY <1>1, <1>7, <1>10, Zenon DEF Kin
<1> QED BY <1>1, <1>2, <1>11, <1>15, <1>16, Changed, Zenon

-----------------------------------------------------------------------------
LEMMA InitInv ==
  ASSUME LinkConstants, Init
  PROVE  LinkInv
<1>1. KernelTypeOK /\ NamesUnique
  <2>1. DOMAIN links = {1} /\ links = [i \in DOMAIN links |-> links[i]] /\ links[1] = Device(Bridge)
    BY Zenon DEF Init
  <2>2. Device(Bridge) \in Devices
    BY Zenon DEF LinkConstants, Device, Devices
  <2>3. 1 \in 1 .. MaxIndex /\ last \in 1 .. MaxIndex /\ {1} \subseteq 1 .. last
    BY DEF LinkConstants, Init
  <2> QED BY <2>1, <2>2, <2>3, Zenon DEF KernelTypeOK, NamesUnique, Init, LinkConstants
<1>2. LinkTypeOK
  <2>1. <<>> \in Seq(Steps) /\ 0 \in Nat
    OBVIOUS
  <2>2. [link |-> [name |-> Bridge, index |-> 0], master |-> [name |-> Bridge, index |-> 0]] \in Objects
    BY Zenon DEF LinkConstants, Objects
  <2>3. [op |-> "none", err |-> FALSE, done |-> TRUE] \in [op : Ops \cup {"none"}, err : BOOLEAN, done : BOOLEAN]
    <3> DEFINE O == Ops \cup {"none"}
    <3>1. "none" \in O /\ TRUE \in BOOLEAN /\ FALSE \in BOOLEAN
      BY Zenon
    <3> HIDE DEF O
    <3>2. [op |-> "none", err |-> FALSE, done |-> TRUE] \in [op : O, err : BOOLEAN, done : BOOLEAN]
      BY <3>1, Zenon
    <3> QED BY <3>2, Zenon DEF O
  <2>4. [index |-> 0, kept |-> 0] \in [index : Nat, kept : Nat]
    BY Zenon
  <2>5. old \in BOOLEAN /\ lookupByDump \in BOOLEAN
    BY Zenon DEF Init, LinkConstants
  <2> QED BY <1>1, <2>1, <2>2, <2>3, <2>4, <2>5, Zenon DEF LinkTypeOK, Init
<1>3. ClaimedOnce
  BY DEF Init, ClaimedOnce
<1>4. ASSUME NEW p \in Procs PROVE Sound(p)
  <2>1. /\ todo[p] = <<>> /\ pos[p] = 0 /\ got[p] = {} /\ kept[p] = 0 /\ steady[p] = {}
        /\ ret[p].done /\ sent[p].kept = 0
    BY <1>4, Zenon DEF Init
  <2>2. DOMAIN todo[p] = {}
    BY <2>1
  <2>3. InOrder(ret[p].op, todo[p]) /\ LookedUp(p)
    BY <2>2, Zenon DEF InOrder, LookedUp
  <2>4. NameHeld(p) /\ NameDumped(p) /\ SteadyThere(p) /\ SteadyKnown(p)
    BY <2>1, Zenon DEF NameHeld, NameDumped, SteadyThere, SteadyKnown
  <2>5. Underway(p) /\ Carried(p) /\ TargetsKept(p)
    BY <2>1, Zenon DEF Underway, Carried, TargetsKept
  <2> QED BY <2>3, <2>4, <2>5, Zenon DEF Sound
<1> QED BY <1>1, <1>2, <1>3, <1>4, Zenon DEF LinkInv

LEMMA NextKeeps ==
  ASSUME LinkConstants, LinkInv, [Next]_vars
  PROVE  LinkInv'
<1>1. CASE UNCHANGED vars
  <2>1. UNCHANGED <<links, last, old, lookupByDump, todo, obj, count, ret, pos, got, kept, sent, claims, steady>>
    BY <1>1, Zenon DEF vars
  <2>2. LinkTypeOK' /\ NamesUnique' /\ ClaimedOnce'
    BY <2>1, Zenon DEF LinkInv, LinkTypeOK, KernelTypeOK, NamesUnique, ClaimedOnce
  <2>3. ASSUME NEW q \in Procs PROVE Sound(q)'
    <3>1. Kin(q)' = Kin(q) /\ kept'[q] = kept[q] /\ steady'[q] = steady[q]
      BY <2>1, Zenon DEF Kin
    <3>2. Sound(q) /\ 0 \notin DOMAIN links'
      BY <2>1, <2>3, NamedHere, Zenon DEF LinkInv, LinkTypeOK
    <3>3. Spared(q)
      BY <2>1, <3>1, <3>2, Zenon DEF Spared, Sound, NameHeld, SteadyThere
    <3> QED BY <2>3, <3>2, <3>3, SparedIsSound, Zenon
  <2> QED BY <2>2, <2>3, Zenon DEF LinkInv
<1>2. ASSUME NEW p \in Procs,
             \/ LinkSetUp(p) \/ LinkSetDown(p) \/ LinkSetMTU(p) \/ LinkSetName(p) \/ LinkSetHardwareAddr(p)
             \/ LinkSetNsPid(p) \/ LinkSetNsFd(p) \/ LinkDel(p) \/ LinkSetMaster(p) \/ LinkSetNoMaster(p)
             \/ LinkSetHairpin(p) \/ LinkSetGuard(p) \/ LinkSetFastLeave(p) \/ LinkSetLearning(p)
             \/ LinkSetRootBlock(p) \/ LinkSetFlood(p) \/ LinkAdd(p) \/ LinkList(p)
             \/ AddrAdd(p) \/ AddrDel(p) \/ AddrList(p) \/ RouteAdd(p) \/ RouteDel(p) \/ RouteList(p)
             \/ NeighAdd(p) \/ NeighSet(p) \/ NeighAppend(p) \/ NeighDel(p) \/ NeighList(p)
      PROVE  LinkInv'
  BY <1>2, StartsKeep, Zenon
<1>3. ASSUME NEW p \in Procs,
             \/ ensureIndexDone(p) \/ LinkByName(p) \/ linkByNameDump(p) \/ Search(p)
             \/ DumpReceive(p) \/ DumpFails(p) \/ FilterList(p)
             \/ Execute(p) \/ CreateLink(p) \/ CreateElsewhere(p)
      PROVE  LinkInv'
  BY <1>3, EnsureDoneKeeps, LinkByNameKeeps, LinkByNameDumpKeeps, SearchKeeps, DumpReceiveKeeps, DumpFailsKeeps,
     FilterKeeps, ExecuteKeeps, CreateLinkKeeps, CreateElsewhereKeeps, Zenon
<1> QED BY <1>1, <1>2, <1>3, Zenon DEF Next

-----------------------------------------------------------------------------
(* The inductive invariant of the library's calls: whatever any number of callers do at once, a
   caller's program is in the order linkModify and its kin write it, and what it has looked up or
   dumped so far is what the kernel still says of it, or the name was lost meanwhile. *)
THEOREM LinkInvariant == ASSUME LinkConstants PROVE Spec => []LinkInv
<1>1. Init => LinkInv
  BY InitInv, Zenon
<1>2. LinkInv /\ [Next]_vars => LinkInv'
  BY NextKeeps, Zenon
<1> QED BY <1>1, <1>2, PTL DEF Spec

(* ensureIndex resolves a name once and the request carries the index: it reaches the device
   that bore the name during the whole call, for any number of callers, names and operations;
   only a Receive that fails makes it go without an index. *)
THEOREM RequestsReachTheNamed == ASSUME LinkConstants PROVE Spec => []TargetsNamed
<1>1. LinkInv => TargetsNamed
  BY Zenon DEF LinkInv, Sound, TargetsNamed
<1> QED BY <1>1, LinkInvariant, PTL

(* A dump by Execute that takes several answers misses nothing that was there throughout, for
   LinkList and for the lists of one link's addresses, routes and neighbours. *)
THEOREM ListsMissNothing == ASSUME LinkConstants PROVE Spec => []SteadyIsListed
<1>1. LinkInv => SteadyIsListed
  <2> SUFFICES ASSUME LinkInv, NEW p \in Procs, todo[p] = <<>>, ~ret[p].err, NEW e \in steady[p],
                      ret[p].op = "LinkList" \/ (e[1] = kept[p] /\ obj[p].link.index = kept[p])
               PROVE  e \in got[p]
    BY Zenon DEF SteadyIsListed
  <2>1. SteadyKnown(p)
    BY Zenon DEF LinkInv, Sound
  <2> QED BY <2>1, Zenon DEF SteadyKnown, Doing
<1> QED BY <1>1, LinkInvariant, PTL

(* Nil from an operation means that the kernel carried out its requests, and no two calls of
   LinkAdd made the same device. LinkSetName is left out where Receive may fail: its request then
   has no index and is for the device that has the new name already. *)
THEOREM NilIsDone ==
  ASSUME LinkConstants, Faults => "LinkSetName" \notin Ops PROVE Spec => []NilMeansDone
<1>1. LinkInv => NilMeansDone
  <2> SUFFICES ASSUME LinkInv PROVE NilMeansDone
    BY Zenon
  <2>1. ASSUME NEW p \in Procs, todo[p] = <<>>, ~ret[p].err, sent[p].kept # 0 PROVE ret[p].done
    <3>1. TargetsKept(p) /\ Carried(p)
      BY <2>1, Zenon DEF LinkInv, Sound
    <3>2. ret[p].op \in Ops \cup {"none"} /\ "LinkSetName" # "none"
      BY <2>1, Zenon DEF LinkInv, LinkTypeOK
    <3> QED BY <2>1, <3>1, <3>2, Zenon DEF TargetsKept, Carried
  <2> QED BY <2>1, Zenon DEF NilMeansDone, LinkInv, ClaimedOnce
<1> QED BY <1>1, LinkInvariant, PTL
=============================================================================
