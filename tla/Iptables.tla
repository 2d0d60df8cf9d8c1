---- MODULE Iptables ----
(* libnetwork's iptables package and natOut, the plugin's use of it. An operation is a
   program of iptables commands: each command runs alone (xtables lock, or
   bestEffortLock), and between two commands of one operation those of others may run.
   With firewalld the commands go through D-Bus; firewalld may come, go and reload.
   The tables of the kernel and firewalld are external. *)
EXTENDS Naturals, Sequences, Functions, FiniteSets

CONSTANTS
    Proc,       \* goroutines that use the package
    Reloader,   \* one of them: signalHandler
    Start,      \* the calls they make: [op, name, table, hairpin]
    Restore,    \* the call registered with OnReloaded, or Nil
    Firewalld,  \* firewalld is managed (FirewalldInit has been called)
    LongerName, \* pairs of chain names, the first a prefix of the second
    MaxOps,     \* bound: operations started
    MaxFaults,  \* bound: restarts, reloads and lost calls of firewalld
    Nil

VARIABLES
    chains,     \* <<table, chain>> -> its rules, for the chains that exist
    run,        \* per goroutine: the program it has left to run
    last,       \* per goroutine: the call it made last
    result,     \* per goroutine: "none" | "running" | "ok" | "error"
    firewalldRunning,   \* the package variable
    fwUp,       \* firewalld is really there
    signals,    \* connection.signal
    failed,     \* some call has failed
    started, faults

vars == <<chains, run, last, result, firewalldRunning, fwUp, signals, failed, started, faults>>

Rule(match, target) == [match |-> match, target |-> target]
Builtin == {<<"nat", "PREROUTING">>, <<"nat", "OUTPUT">>, <<"nat", "POSTROUTING">>,
            <<"filter", "FORWARD">>}

----
(* Operations as programs: Try(command, what follows success, what follows failure) *)

Return(r) == [act |-> "return", res |-> r]
Try(act, table, chain, rule, yes, no) ==
    [act |-> act, table |-> table, chain |-> chain, rule |-> rule, yes |-> yes, no |-> no]
Must(act, table, chain, rule, next) == Try(act, table, chain, rule, next, Return("error"))
Ignore(act, table, chain, rule, next) == Try(act, table, chain, rule, next, next)

(* Mutant: no check. *)
natOutUnchecked(cidr) == Must("-I", "nat", "POSTROUTING", Rule(cidr, "MASQUERADE"), Return("ok"))
natOut(cidr) ==
    LET masquerade == Rule(cidr, "MASQUERADE") IN
    Try("-C", "nat", "POSTROUTING", masquerade,
        Return("ok"),
        Must("-I", "nat", "POSTROUTING", masquerade, Return("ok")))

NewChain(name, table) ==
    Try("-L", table, name, Nil, Return("ok"), Must("-N", table, name, Nil, Return("ok")))

(* -C, and if that fails a search for the rule's text in the output of -S. *)
Exists(table, chain, rule, yes, no) ==
    Try("-C", table, chain, rule, yes, Try("contains", table, chain, rule, yes, no))

(* if !Exists && enable { add } else if Exists && !enable { delete }: the second
   condition is evaluated whenever the first fails. *)
Ensure(table, chain, rule, add, enable, next) ==
    LET del == Must("-D", table, chain, rule, next)
        second == Exists(table, chain, rule, IF enable THEN next ELSE del, next)
    IN  Exists(table, chain, rule,
               second,
               IF enable THEN Must(add, table, chain, rule, next) ELSE second)

ProgramChain(name, table, bridge, hairpin, enable) ==
    IF table = "nat"
      THEN Ensure("nat", "PREROUTING", Rule("local", name), "-A", enable,
           Ensure("nat", "OUTPUT", Rule(IF hairpin THEN "local" ELSE "local not loopback", name),
                  "-A", enable, Return("ok")))
      ELSE Ensure("filter", "FORWARD", Rule(bridge, name), "-I", enable, Return("ok"))

(* Mutant: the last rule is added whatever the action. *)
ForwardAdds(action, name, port, dest) ==
    Must(action, "nat", name, Rule(port, "DNAT"),
    Must(action, "filter", name, Rule(dest, "ACCEPT"),
    Must("-A", "nat", "POSTROUTING", Rule(dest, "MASQUERADE"), Return("ok"))))

(* The same three rules are appended and deleted. *)
Forward(action, name, port, dest) ==
    Must(action, "nat", name, Rule(port, "DNAT"),
    Must(action, "filter", name, Rule(dest, "ACCEPT"),
    Must(action, "nat", "POSTROUTING", Rule(dest, "MASQUERADE"), Return("ok"))))

Link(action, name, there, back) ==
    Must(action, "filter", name, Rule(there, "ACCEPT"),
    Must(action, "filter", name, Rule(back, "ACCEPT"), Return("ok")))

Clear(name, table) ==
    Ignore("-F", table, name, Nil, Ignore("-X", table, name, Nil, Return("ok")))

(* ChainInfo.Remove ignores all errors: the chain may never have been set up. *)
RemoveChain(name, table) ==
    IF table = "nat"
      THEN Ignore("-D", "nat", "PREROUTING", Rule("local", name),
           Ignore("-D", "nat", "OUTPUT", Rule("local not loopback", name),
           Ignore("-D", "nat", "OUTPUT", Rule("local", name), Clear(name, table))))
      ELSE Clear(name, table)

(* A call; name is the chain, or the source address of natOut. *)
Call(op, name, table, hairpin) == [op |-> op, name |-> name, table |-> table, hairpin |-> hairpin]
Program(d) ==
    CASE d.op = "natOut" -> natOut(d.name)
      [] d.op = "NewChain" -> NewChain(d.name, d.table)
      [] d.op = "enable" -> ProgramChain(d.name, d.table, "bridge", d.hairpin, TRUE)
      [] d.op = "disable" -> ProgramChain(d.name, d.table, "bridge", d.hairpin, FALSE)
      [] d.op = "forward" -> Forward("-A", d.name, "port", "container")
      [] d.op = "unforward" -> Forward("-D", d.name, "port", "container")
      [] d.op = "link" -> Link("-A", d.name, "a to b", "b to a")
      [] d.op = "unlink" -> Link("-D", d.name, "a to b", "b to a")
      [] d.op = "Remove" -> RemoveChain(d.name, d.table)

----
(* One iptables command: what it does to the tables (external: iptables) *)

Ch(c) == <<c.table, c.chain>>
HasChain(c) == Ch(c) \in DOMAIN chains
HasRule(c) == HasChain(c) /\ c.rule \in Range(chains[Ch(c)])
(* A jump needs its target, in the same table; built-in targets are always there. *)
TargetOK(c) ==
    c.rule.target \in {"ACCEPT", "MASQUERADE", "DNAT"} \/ <<c.table, c.rule.target>> \in DOMAIN chains
Referenced(c) ==
    \E ch \in DOMAIN chains : ch[1] = c.table /\ \E r \in Range(chains[ch]) : r.target = c.chain
WithoutFirst(s, r) ==
    LET i == CHOOSE k \in DOMAIN s : s[k] = r /\ \A j \in 1 .. k - 1 : s[j] # r
    IN  SubSeq(s, 1, i - 1) \o SubSeq(s, i + 1, Len(s))

(* The text of a rule also occurs in that of a rule whose target has a longer name. *)
TextOccurs(c) ==
    HasChain(c) /\ \E r \in Range(chains[Ch(c)]) :
        /\ r.match = c.rule.match
        /\ r.target = c.rule.target \/ <<c.rule.target, r.target>> \in LongerName

Succeeds(c) ==
    CASE c.act \in {"-A", "-I"} -> HasChain(c) /\ TargetOK(c)
      [] c.act \in {"-C", "-D"} -> HasRule(c)
      [] c.act = "contains" -> TextOccurs(c)
      [] c.act \in {"-L", "-F"} -> HasChain(c)
      [] c.act = "-N" -> ~HasChain(c)
      [] c.act = "-X" -> HasChain(c) /\ chains[Ch(c)] = <<>> /\ ~Referenced(c)

Effect(c) ==
    CASE c.act = "-A" -> [chains EXCEPT ![Ch(c)] = Append(@, c.rule)]
      [] c.act = "-I" -> [chains EXCEPT ![Ch(c)] = <<c.rule>> \o @]
      [] c.act = "-D" -> [chains EXCEPT ![Ch(c)] = WithoutFirst(@, c.rule)]
      [] c.act = "-F" -> [chains EXCEPT ![Ch(c)] = <<>>]
      [] c.act = "-N" -> [ch \in DOMAIN chains \cup {Ch(c)} |-> IF ch = Ch(c) THEN <<>> ELSE chains[ch]]
      [] c.act = "-X" -> [ch \in DOMAIN chains \ {Ch(c)} |-> chains[ch]]
      [] OTHER -> chains

----
Init ==
    /\ chains = [ch \in Builtin |-> <<>>]
    /\ run = [p \in Proc |-> Return("ok")]
    /\ last = [p \in Proc |-> Nil]
    /\ result = [p \in Proc |-> "none"]
    /\ firewalldRunning = Firewalld
    /\ fwUp = Firewalld
    /\ signals = <<>> /\ failed = FALSE
    /\ started = 0 /\ faults = 0

Begin(p, op) ==
    /\ p # Reloader /\ result[p] # "running" /\ started < MaxOps
    /\ started' = started + 1
    /\ run' = [run EXCEPT ![p] = Program(op)]
    /\ last' = [last EXCEPT ![p] = op]
    /\ result' = [result EXCEPT ![p] = "running"]
    /\ UNCHANGED <<chains, firewalldRunning, fwUp, signals, faults, failed>>

(* Raw: through firewalld if that is believed to run; when its name has no owner, or
   without it, by running iptables. *)
Raw(p) ==
    /\ result[p] = "running" /\ run[p].act # "return"
    /\ LET c == run[p] IN
       IF Succeeds(c)
         THEN chains' = Effect(c) /\ run' = [run EXCEPT ![p] = c.yes]
         ELSE UNCHANGED chains /\ run' = [run EXCEPT ![p] = c.no]
    /\ UNCHANGED <<last, result, firewalldRunning, fwUp, signals, started, faults, failed>>

(* firewalld ends while it handles the command: an error, and the command may have been
   carried out. Exists runs -S by itself. *)
RawLost(p) ==
    /\ result[p] = "running" /\ run[p].act \notin {"return", "contains"}
    /\ firewalldRunning /\ fwUp /\ faults < MaxFaults
    /\ faults' = faults + 1
    /\ fwUp' = FALSE
    /\ signals' = Append(signals, "lost")
    /\ chains' \in {chains} \cup (IF Succeeds(run[p]) THEN {Effect(run[p])} ELSE {})
    /\ run' = [run EXCEPT ![p] = run[p].no]
    /\ UNCHANGED <<last, result, firewalldRunning, started, failed>>

Finish(p) ==
    /\ result[p] = "running" /\ run[p].act = "return"
    /\ result' = [result EXCEPT ![p] = run[p].res]
    /\ failed' = (failed \/ run[p].res = "error")
    /\ UNCHANGED <<chains, run, last, firewalldRunning, fwUp, signals, started, faults>>

(* signalHandler: NameOwnerChanged asks firewalld whether it runs; a new owner, like
   Reloaded, calls the callbacks in this goroutine. *)
CallsBackReload == {"reloaded"}     \* mutant: a restart is not taken for a reload
CallsBack == {"established", "reloaded"}

signalHandler ==
    /\ signals # <<>> /\ result[Reloader] # "running"
    /\ firewalldRunning' = IF Head(signals) = "reloaded" THEN firewalldRunning ELSE fwUp
    /\ signals' = Tail(signals)
    /\ IF Head(signals) \in CallsBack /\ Restore # Nil
         THEN /\ run' = [run EXCEPT ![Reloader] = Program(Restore)]
              /\ last' = [last EXCEPT ![Reloader] = Restore]
              /\ result' = [result EXCEPT ![Reloader] = "running"]
         ELSE UNCHANGED <<run, last, result>>
    /\ UNCHANGED <<chains, fwUp, started, faults, failed>>

(* firewalld (external): it starts with empty tables, and flushes them on a reload. *)
FirewalldStarts ==
    /\ Firewalld /\ ~fwUp
    /\ fwUp' = TRUE
    /\ chains' = [ch \in Builtin |-> <<>>]
    /\ signals' = Append(signals, "established")
    /\ UNCHANGED <<run, last, result, firewalldRunning, started, faults, failed>>

FirewalldReloads ==
    /\ fwUp /\ faults < MaxFaults
    /\ faults' = faults + 1
    /\ chains' = [ch \in Builtin |-> <<>>]
    /\ signals' = Append(signals, "reloaded")
    /\ UNCHANGED <<run, last, result, firewalldRunning, fwUp, started, failed>>

Step(p) == Raw(p) \/ Finish(p)

Next ==
    \/ \E p \in Proc, op \in Start : Begin(p, op)
    \/ \E p \in Proc : Step(p) \/ RawLost(p)
    \/ signalHandler
    \/ FirewalldStarts
    \/ FirewalldReloads

Spec == Init /\ [][Next]_vars

----
(* Properties *)

Copies(table, chain, r) ==
    LET ch == <<table, chain>> IN
    IF ch \in DOMAIN chains THEN Cardinality({i \in DOMAIN chains[ch] : chains[ch][i] = r}) ELSE 0
Masquerades(d) == Copies("nat", "POSTROUTING", Rule(d.name, "MASQUERADE"))
Idle == \A p \in Proc : result[p] # "running"
Done(p, op) == result[p] = "ok" /\ last[p].op = op

(* natOut checks for its rule and inserts it in two commands, and nothing removes the
   rule. Copies are bounded by the goroutines that run at a time and the checks that
   firewalld lost (any error is taken for absence), not by the number of networks
   created over time. *)
NatBounded == \A d \in Start : d.op = "natOut" => Masquerades(d) <= Cardinality(Proc) + faults

(* Once all calls are over the rules are what the calls left, however they interleaved.
   Calls of ProgramChain, enabling and disabling, leave the link to the chain exactly once
   or not at all. A chain of the nat table that was removed is gone, whichever links were
   made to it. The three rules of a port forwarding are there together, as long as no call
   has failed. *)
RulesFollowCalls ==
    Idle =>
      /\ \A p \in Proc : last[p] # Nil /\ last[p].table = "filter" =>
           LET n == Copies("filter", "FORWARD", Rule("bridge", last[p].name)) IN
           /\ Done(p, "enable") => n = 1
           /\ Done(p, "disable") => n = 0
      /\ \A p \in Proc : Done(p, "Remove") /\ last[p].table = "nat" =>
           <<"nat", last[p].name>> \notin DOMAIN chains
      /\ \A d \in Start : ~failed /\ d.op = "forward" =>
           LET n == Copies("nat", d.name, Rule("port", "DNAT")) IN
           /\ n = Copies("filter", d.name, Rule("container", "ACCEPT"))
           /\ n = Copies("nat", "POSTROUTING", Rule("container", "MASQUERADE"))

----
(* The inductive invariant of natOut, the plugin's own use of the package: a goroutine that is
   about to insert the rule counts like a copy of it. *)

NatCalls == Start \cup ({Restore} \ {Nil})
Sources == {d.name : d \in NatCalls}
Insert(cidr) == Must("-I", "nat", "POSTROUTING", Rule(cidr, "MASQUERADE"), Return("ok"))
Inserting(cidr) == {p \in Proc : run[p] = Insert(cidr)}
Points == {Return("ok"), Return("error")} \cup {natOut(c) : c \in Sources} \cup {Insert(c) : c \in Sources}

NatInv ==
    /\ faults \in Nat
    /\ DOMAIN run = Proc /\ \A p \in Proc : run[p] \in Points
    /\ DOMAIN chains = Builtin
    /\ chains[<<"nat", "POSTROUTING">>] \in Seq({Rule(c, "MASQUERADE") : c \in Sources})
    /\ \A c \in Sources :
         Copies("nat", "POSTROUTING", Rule(c, "MASQUERADE")) + Cardinality(Inserting(c))
           <= Cardinality(Proc) + faults

(* The calls the plugin makes. *)
OnlyNat == \A d \in NatCalls : d.op = "natOut"
====
