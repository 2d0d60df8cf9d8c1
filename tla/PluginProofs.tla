----------------------------- MODULE PluginProofs ----------------------------
(* The parts of the plugin around the driver: the rules it adds for NAT do not pile up, for any
   number of handlers; the cache loses no row during the start, for any set of rows, any number of
   updates in flight and of attempts to connect; the socket is for root and the group only, for
   any clients. *)
EXTENDS Iptables, FiniteSetTheorems, TLAPS

(* The rules for the source addresses of networks that need NAT: each copy of the rule, and each
   goroutine about to insert one, is paid for by a goroutine or by a fault. *)
Held(s, r) == {i \in DOMAIN s : s[i] = r}

(* Inserting a rule before others adds one to the number of its copies, and to no other. *)
LEMMA OneMore ==
  ASSUME NEW R, NEW s \in Seq(R), NEW x \in R, NEW r
  PROVE  /\ <<x>> \o s \in Seq(R)
         /\ IsFiniteSet(Held(s, r)) /\ Cardinality(Held(s, r)) \in Nat
         /\ Cardinality(Held(<<x>> \o s, r)) \in Nat
         /\ Cardinality(Held(<<x>> \o s, r)) <= Cardinality(Held(s, r)) + 1
         /\ x # r => Cardinality(Held(<<x>> \o s, r)) = Cardinality(Held(s, r))
<1> DEFINE t == <<x>> \o s  S == Held(s, r)  U == {i + 1 : i \in S}
<1>1. /\ t \in Seq(R) /\ Len(s) \in Nat /\ Len(t) = Len(s) + 1 /\ DOMAIN s = 1 .. Len(s)
      /\ DOMAIN t = 1 .. Len(s) + 1 /\ t[1] = x /\ \A i \in 1 .. Len(s) : t[i + 1] = s[i]
  OBVIOUS
<1> HIDE DEF t
<1>2. S \in SUBSET (1 .. Len(s)) /\ IsFiniteSet(1 .. Len(s))
  BY <1>1, FS_Interval DEF Held
<1>3. IsFiniteSet(S) /\ Cardinality(S) \in Nat
  BY <1>2, FS_Subset, FS_CardinalityType, Zenon
<1>4. IsFiniteSet(U) /\ Cardinality(U) = Cardinality(S)
  <2> DEFINE f == [i \in S |-> i + 1]
  <2>1. f \in Bijection(S, U)
    <3>1. f \in [S -> U]
      OBVIOUS
    <3>2. \A i, j \in S : f[i] = f[j] => i = j
      BY <1>1, <1>2
    <3>3. \A u \in U : \E i \in S : f[i] = u
      OBVIOUS
    <3> HIDE DEF f, U, S
    <3> QED BY <3>1, <3>2, <3>3 DEF Bijection, Injection, Surjection, IsInjective
  <2> HIDE DEF f, U, S
  <2>2. ExistsBijection(S, U)
    BY <2>1, Zenon DEF ExistsBijection
  <2> QED BY <1>3, <2>2, FS_Bijection, Zenon
<1>5. Held(t, r) = IF x = r THEN U \cup {1} ELSE U
  <2>1. \A i : i \in Held(t, r) <=> i \in 1 .. Len(s) + 1 /\ t[i] = r
    BY <1>1 DEF Held
  <2>2. \A i : i \in U <=> i \in 2 .. Len(s) + 1 /\ t[i] = r
    <3>1. \A i : i \in S <=> i \in 1 .. Len(s) /\ s[i] = r
      BY <1>1 DEF Held
    <3>2. ASSUME NEW i \in U PROVE i \in 2 .. Len(s) + 1 /\ t[i] = r
      <4>1. PICK j \in S : i = j + 1
        OBVIOUS
      <4> HIDE DEF S
      <4> QED BY <4>1, <3>1, <1>1
    <3>3. ASSUME NEW i \in 2 .. Len(s) + 1, t[i] = r PROVE i \in U
      <4>1. i - 1 \in 1 .. Len(s) /\ (i - 1) + 1 = i
        BY <1>1
      <4>2. i - 1 \in S
        <5> HIDE DEF S
        <5> QED BY <4>1, <3>1, <3>3, <1>1
      <4> HIDE DEF S
      <4> QED BY <4>1, <4>2
    <3> HIDE DEF U
    <3> QED BY <3>2, <3>3
  <2> HIDE DEF U
  <2>3. \A i : i \in 1 .. Len(s) + 1 <=> i = 1 \/ i \in 2 .. Len(s) + 1
    BY <1>1
  <2>4. 1 \notin 2 .. Len(s) + 1
    BY <1>1
  <2>5. ASSUME x = r PROVE Held(t, r) = U \cup {1}
    <3>1. \A i : i \in Held(t, r) <=> i \in U \/ i = 1
      BY <2>1, <2>2, <2>3, <2>5, <1>1, Zenon
    <3> QED BY <3>1, Zenon
  <2>6. ASSUME x # r PROVE Held(t, r) = U
    <3>1. \A i : i \in Held(t, r) <=> i \in U
      BY <2>1, <2>2, <2>3, <2>4, <2>6, <1>1, Zenon
    <3> QED BY <3>1, Zenon
  <2> QED BY <2>5, <2>6
<1>6. Cardinality(U \cup {1}) \in Nat /\ Cardinality(U \cup {1}) <= Cardinality(U) + 1
  <2> HIDE DEF U, S
  <2>1. /\ IsFiniteSet(U \cup {1})
        /\ Cardinality(U \cup {1}) = IF 1 \in U THEN Cardinality(U) ELSE Cardinality(U) + 1
    BY <1>4, FS_AddElement, Zenon
  <2>2. Cardinality(U \cup {1}) \in Nat
    BY <2>1, FS_CardinalityType, Zenon
  <2> QED BY <2>1, <2>2, <1>3, <1>4
<1> HIDE DEF U
<1> QED BY <1>1, <1>3, <1>4, <1>5, <1>6 DEF t

Those(P, f, v) == {x \in P : f[x] = v}

(* One member of a finite set gets a new value: who has a value v changes by that member at most. *)
LEMMA OneMoves ==
  ASSUME NEW P, IsFiniteSet(P), NEW f, DOMAIN f = P, NEW p \in P, NEW q, NEW v
  PROVE  LET S == Those(P, f, v)  T == Those(P, [f EXCEPT ![p] = q], v) IN
         /\ Cardinality(P) \in Nat /\ Cardinality(S) \in Nat /\ Cardinality(T) \in Nat
         /\ Cardinality(S) <= Cardinality(P) /\ Cardinality(T) <= Cardinality(P)
         /\ Cardinality(T) <= Cardinality(S) + 1
         /\ q # v => Cardinality(T) <= Cardinality(S)
         /\ q # v /\ f[p] = v => Cardinality(T) + 1 <= Cardinality(S)
<1> DEFINE S == Those(P, f, v)  T == Those(P, [f EXCEPT ![p] = q], v)
<1>1. S \in SUBSET P /\ T \in SUBSET P
  BY Zenon DEF Those
<1>2. q = v => T = S \cup {p}
  BY DEF Those
<1>3. q # v => T = S \ {p}
  BY DEF Those
<1>4. f[p] = v => p \in S
  BY Zenon DEF Those
<1> HIDE DEF S, T
<1>5. /\ IsFiniteSet(S) /\ Cardinality(P) \in Nat /\ Cardinality(S) \in Nat /\ Cardinality(S) <= Cardinality(P)
      /\ IsFiniteSet(T) /\ Cardinality(T) \in Nat /\ Cardinality(T) <= Cardinality(P)
  BY <1>1, FS_Subset, FS_CardinalityType, Zenon
<1>6. Cardinality(S \cup {p}) = IF p \in S THEN Cardinality(S) ELSE Cardinality(S) + 1
  BY <1>5, FS_AddElement, Zenon
<1>7. Cardinality(S \ {p}) = IF p \in S THEN Cardinality(S) - 1 ELSE Cardinality(S)
  BY <1>5, FS_RemoveElement, Zenon
<1>8. Cardinality(T) <= Cardinality(S) + 1
  BY <1>2, <1>3, <1>5, <1>6, <1>7
<1>9. q # v => Cardinality(T) = Cardinality(S \ {p})
  BY <1>3, Zenon
<1>10. Cardinality(S \ {p}) <= Cardinality(S) /\ (p \in S => Cardinality(S \ {p}) + 1 <= Cardinality(S))
  BY <1>5, <1>7
<1>11. /\ q # v => Cardinality(T) <= Cardinality(S)
       /\ q # v /\ f[p] = v => Cardinality(T) + 1 <= Cardinality(S)
  BY <1>4, <1>9, <1>10, Zenon
<1> QED BY <1>5, <1>8, <1>11, Zenon DEF S, T

Post == <<"nat", "POSTROUTING">>
Masquerade(c) == Rule(c, "MASQUERADE")
MasqueradeRules == {Masquerade(c) : c \in Sources}

(* The points of natOut are told apart, and so are those for different addresses. *)
LEMMA PointsAre ==
  /\ \A c, d : Insert(c) = Insert(d) => c = d
  /\ \A c, d : Masquerade(c) = Masquerade(d) => c = d
  /\ \A c, d : natOut(c) # Insert(d)
  /\ \A r, d : Return(r) # Insert(d)
  /\ \A r : Return(r).act = "return"
  /\ \A c : /\ natOut(c).act = "-C" /\ natOut(c).rule = Masquerade(c)
            /\ Ch(natOut(c)) = Post
            /\ natOut(c).yes = Return("ok") /\ natOut(c).no = Insert(c)
  /\ \A c : /\ Insert(c).act = "-I" /\ Insert(c).rule = Masquerade(c)
            /\ Ch(Insert(c)) = Post
            /\ Insert(c).yes = Return("ok") /\ Insert(c).no = Return("error")
<1> USE DEF Insert, natOut, Return, Must, Try, Masquerade, Rule
<1>1. \A c, d : Masquerade(c) = Masquerade(d) => c = d
  OBVIOUS
<1>2. \A r : Return(r).act = "return"
  OBVIOUS
<1>3. \A c : /\ natOut(c).act = "-C" /\ natOut(c).rule = Masquerade(c)
             /\ Ch(natOut(c)) = Post
             /\ natOut(c).yes = Return("ok") /\ natOut(c).no = Insert(c)
  BY DEF Ch, Post
<1>4. \A c : /\ Insert(c).act = "-I" /\ Insert(c).rule = Masquerade(c)
             /\ Ch(Insert(c)) = Post
             /\ Insert(c).yes = Return("ok") /\ Insert(c).no = Return("error")
  BY DEF Ch, Post
<1> HIDE DEF Insert, natOut, Return, Must, Try, Masquerade, Rule
<1>5. "-C" # "-I" /\ "return" # "-I"
  OBVIOUS
<1>6. \A c, d : Insert(c) = Insert(d) => c = d
  BY <1>1, <1>4, Zenon
<1>7. /\ \A c, d : natOut(c) # Insert(d)
      /\ \A r, d : Return(r) # Insert(d)
  BY <1>2, <1>3, <1>4, <1>5, Zenon
<1> QED BY <1>1, <1>2, <1>3, <1>4, <1>6, <1>7, Zenon

(* The invariant in terms of the number of copies and of the goroutines about to insert one. *)
Copied(s, c) == Cardinality(Held(s, Masquerade(c)))
About(f, c) == Cardinality(Those(Proc, f, Insert(c)))

LEMMA CopiesAre ==
  /\ DOMAIN chains = Builtin =>
       \A c : Copies("nat", "POSTROUTING", Rule(c, "MASQUERADE")) = Copied(chains[Post], c)
  /\ DOMAIN chains' = Builtin =>
       \A c : Copies("nat", "POSTROUTING", Rule(c, "MASQUERADE"))' = Copied(chains'[Post], c)
<1>1. Post \in Builtin
  BY Zenon DEF Post, Builtin
<1>2. DOMAIN chains = Builtin =>
        \A c : Copies("nat", "POSTROUTING", Rule(c, "MASQUERADE")) = Copied(chains[Post], c)
  BY <1>1 DEF Copies, Copied, Held, Post, Masquerade
<1>3. DOMAIN chains' = Builtin =>
        \A c : Copies("nat", "POSTROUTING", Rule(c, "MASQUERADE"))' = Copied(chains'[Post], c)
  BY <1>1 DEF Copies, Copied, Held, Post, Masquerade
<1> QED BY <1>2, <1>3, Zenon

LEMMA NatInvIs ==
  /\ NatInv <=>
       /\ faults \in Nat
       /\ DOMAIN run = Proc /\ \A p \in Proc : run[p] \in Points
       /\ DOMAIN chains = Builtin /\ chains[Post] \in Seq(MasqueradeRules)
       /\ \A c \in Sources : Copied(chains[Post], c) + About(run, c) <= Cardinality(Proc) + faults
  /\ NatInv' <=>
       /\ faults' \in Nat
       /\ DOMAIN run' = Proc /\ \A p \in Proc : run'[p] \in Points
       /\ DOMAIN chains' = Builtin /\ chains'[Post] \in Seq(MasqueradeRules)
       /\ \A c \in Sources : Copied(chains'[Post], c) + About(run', c) <= Cardinality(Proc) + faults'
<1>1. /\ \A c : Cardinality(Inserting(c)) = About(run, c)
      /\ \A c : Cardinality(Inserting(c))' = About(run', c)
  BY DEF Inserting, About, Those
<1>2. MasqueradeRules = {Rule(c, "MASQUERADE") : c \in Sources}
  BY Zenon DEF MasqueradeRules, Masquerade
<1> QED BY <1>1, <1>2, CopiesAre DEF NatInv, Post

(* A goroutine moves on without a new insertion ahead; the rules stay or are flushed. *)
LEMMA NatKeep ==
  ASSUME IsFiniteSet(Proc), NatInv, faults' \in Nat, faults <= faults',
         DOMAIN chains' = Builtin, chains'[Post] \in {chains[Post], <<>>},
         \/ DOMAIN run' = Proc /\ \A p \in Proc : run'[p] = run[p]
         \/ \E p \in Proc, q \in Points :
              run' = [run EXCEPT ![p] = q] /\ \A c : q # Insert(c)
  PROVE  NatInv'
<1>1. /\ faults \in Nat /\ DOMAIN run = Proc /\ (\A p \in Proc : run[p] \in Points)
      /\ chains[Post] \in Seq(MasqueradeRules)
      /\ \A c \in Sources : Copied(chains[Post], c) + About(run, c) <= Cardinality(Proc) + faults
  BY NatInvIs, Zenon
<1>2. DOMAIN run' = Proc /\ \A p \in Proc : run'[p] \in Points
  BY <1>1
<1>3. chains'[Post] \in Seq(MasqueradeRules)
  <2>1. <<>> \in Seq(MasqueradeRules)
    OBVIOUS
  <2> QED BY <1>1, <2>1, Zenon
<1>4. ASSUME NEW c \in Sources
      PROVE  Copied(chains'[Post], c) + About(run', c) <= Cardinality(Proc) + faults'
  <2> DEFINE Fewer == /\ Cardinality(Proc) \in Nat /\ About(run, c) \in Nat /\ About(run', c) \in Nat
                      /\ About(run', c) <= Cardinality(Proc) /\ About(run', c) <= About(run, c)
  <2>1. Fewer
    <3>1. CASE \A p \in Proc : run'[p] = run[p]
      <4>1. /\ Those(Proc, run, Insert(c)) \in SUBSET Proc
            /\ Those(Proc, run', Insert(c)) = Those(Proc, run, Insert(c))
        BY <3>1 DEF Those
      <4>2. Cardinality(Proc) \in Nat /\ About(run, c) \in Nat /\ About(run, c) <= Cardinality(Proc)
        BY <4>1, FS_Subset, FS_CardinalityType, Zenon DEF About
      <4>3. About(run', c) = About(run, c)
        BY <4>1, Zenon DEF About
      <4> QED BY <4>2, <4>3
    <3>2. ASSUME NEW p \in Proc, NEW q \in Points,
                 run' = [run EXCEPT ![p] = q], \A d : q # Insert(d)
          PROVE  Fewer
      <4>1. q # Insert(c)
        BY <3>2, Zenon
      <4> QED BY <1>1, <3>2, <4>1, OneMoves, Zenon DEF About
    <3> QED BY <3>1, <3>2, Zenon
  <2>2. Copied(chains[Post], c) \in Nat /\ Copied(chains'[Post], c) \in Nat
        /\ (chains'[Post] = <<>> => Copied(chains'[Post], c) = 0)
    <3>1. Masquerade(c) \in MasqueradeRules
      BY Zenon DEF MasqueradeRules
    <3>2. Copied(chains[Post], c) \in Nat /\ Copied(chains'[Post], c) \in Nat
      BY <1>1, <1>3, <3>1, OneMore, Zenon DEF Copied
    <3>3. Held(<<>>, Masquerade(c)) = {}
      BY DEF Held
    <3> QED BY <3>2, <3>3, FS_EmptySet, Zenon DEF Copied
  <2>3. CASE chains'[Post] = <<>>
    BY <2>1, <2>2, <2>3
  <2>4. CASE chains'[Post] = chains[Post]
    <3>1. Copied(chains'[Post], c) + About(run, c) <= Cardinality(Proc) + faults
      BY <1>1, <2>4, Zenon
    <3> QED BY <1>1, <2>1, <2>2, <3>1
  <2> QED BY <2>3, <2>4, Zenon
<1> QED BY <1>2, <1>3, <1>4, NatInvIs, Zenon

(* A check that failed: there was no copy of the rule, or firewalld was lost. *)
LEMMA ChecksIn ==
  ASSUME IsFiniteSet(Proc), NatInv, NEW p \in Proc, NEW a \in Sources,
         chains' = chains, run' = [run EXCEPT ![p] = Insert(a)],
         \/ faults' = faults /\ \A i \in DOMAIN chains[Post] : chains[Post][i] # Masquerade(a)
         \/ faults' = faults + 1
  PROVE  NatInv'
<1>1. /\ faults \in Nat /\ DOMAIN run = Proc /\ (\A o \in Proc : run[o] \in Points)
      /\ chains[Post] \in Seq(MasqueradeRules) /\ DOMAIN chains = Builtin
      /\ \A c \in Sources : Copied(chains[Post], c) + About(run, c) <= Cardinality(Proc) + faults
  BY NatInvIs, Zenon
<1>2. Insert(a) \in Points
  BY Zenon DEF Points
<1>3. DOMAIN run' = Proc /\ \A o \in Proc : run'[o] \in Points
  BY <1>1, <1>2
<1>4. faults' \in Nat /\ faults <= faults'
  BY <1>1
<1>5. ASSUME NEW c \in Sources
      PROVE  Copied(chains'[Post], c) + About(run', c) <= Cardinality(Proc) + faults'
  <2>0. Copied(chains'[Post], c) + About(run, c) <= Cardinality(Proc) + faults
    BY <1>1, Zenon
  <2>1. /\ Cardinality(Proc) \in Nat /\ About(run, c) \in Nat /\ About(run', c) \in Nat
        /\ About(run', c) <= Cardinality(Proc) /\ About(run', c) <= About(run, c) + 1
        /\ (Insert(a) # Insert(c) => About(run', c) <= About(run, c))
    BY <1>1, OneMoves, Zenon DEF About
  <2>2. Copied(chains'[Post], c) \in Nat /\ faults \in Nat
    <3>1. Masquerade(c) \in MasqueradeRules
      BY Zenon DEF MasqueradeRules
    <3> QED BY <1>1, <3>1, OneMore, Zenon DEF Copied
  <2>3. CASE a # c
    <3>1. About(run', c) <= About(run, c)
      BY <2>1, <2>3, PointsAre, Zenon
    <3> QED BY <1>4, <2>0, <2>1, <2>2, <3>1
  <2>4. CASE faults' = faults + 1
    BY <2>0, <2>1, <2>2, <2>4
  <2>5. CASE a = c /\ faults' = faults /\ \A i \in DOMAIN chains[Post] : chains[Post][i] # Masquerade(a)
    <3>1. Held(chains[Post], Masquerade(c)) = {}
      BY <2>5, Zenon DEF Held
    <3>2. Copied(chains'[Post], c) = 0
      BY <3>1, FS_EmptySet, Zenon DEF Copied
    <3> QED BY <1>1, <2>1, <2>5, <3>2
  <2> QED BY <2>3, <2>4, <2>5, Zenon
<1> QED BY <1>1, <1>3, <1>4, <1>5, NatInvIs, Zenon

(* An insertion carried out: one copy more, one goroutine less about to insert it. *)
LEMMA InsertsIt ==
  ASSUME IsFiniteSet(Proc), NatInv, NEW p \in Proc, NEW a \in Sources,
         run[p] = Insert(a), NEW r \in {"ok", "error"}, run' = [run EXCEPT ![p] = Return(r)],
         chains' = [chains EXCEPT ![Post] = <<Masquerade(a)>> \o @], faults' \in {faults, faults + 1}
  PROVE  NatInv'
<1>1. /\ faults \in Nat /\ DOMAIN run = Proc /\ (\A o \in Proc : run[o] \in Points)
      /\ chains[Post] \in Seq(MasqueradeRules) /\ DOMAIN chains = Builtin
      /\ \A c \in Sources : Copied(chains[Post], c) + About(run, c) <= Cardinality(Proc) + faults
  BY NatInvIs, Zenon
<1>2. Return(r) \in Points
  BY Zenon DEF Points
<1>3. DOMAIN run' = Proc /\ \A o \in Proc : run'[o] \in Points
  BY <1>1, <1>2
<1>4. faults' \in Nat /\ faults <= faults'
  BY <1>1
<1>5. Post \in Builtin
  BY Zenon DEF Post, Builtin
<1>6. DOMAIN chains' = Builtin /\ chains'[Post] = <<Masquerade(a)>> \o chains[Post]
  BY <1>1, <1>5
<1>7. \A c \in Sources : Masquerade(c) \in MasqueradeRules
  BY Zenon DEF MasqueradeRules
<1>8. chains'[Post] \in Seq(MasqueradeRules)
  BY <1>1, <1>6, <1>7
<1>9. ASSUME NEW c \in Sources
      PROVE  Copied(chains'[Post], c) + About(run', c) <= Cardinality(Proc) + faults'
  <2>1. /\ Cardinality(Proc) \in Nat /\ About(run, c) \in Nat /\ About(run', c) \in Nat
        /\ (Return(r) # Insert(c) => About(run', c) <= About(run, c))
        /\ (Return(r) # Insert(c) /\ run[p] = Insert(c) => About(run', c) + 1 <= About(run, c))
    BY <1>1, OneMoves, Zenon DEF About
  <2>2. /\ Copied(chains[Post], c) \in Nat
        /\ Cardinality(Held(<<Masquerade(a)>> \o chains[Post], Masquerade(c))) \in Nat
        /\ Cardinality(Held(<<Masquerade(a)>> \o chains[Post], Masquerade(c))) <= Copied(chains[Post], c) + 1
        /\ Masquerade(a) # Masquerade(c) =>
             Cardinality(Held(<<Masquerade(a)>> \o chains[Post], Masquerade(c))) = Copied(chains[Post], c)
    BY <1>1, <1>7, OneMore DEF Copied
  <2>3. Copied(chains'[Post], c) = Cardinality(Held(<<Masquerade(a)>> \o chains[Post], Masquerade(c)))
    BY <1>6 DEF Copied
  <2>4. CASE a = c
    <3>1. About(run', c) + 1 <= About(run, c)
      BY <2>1, <2>4, PointsAre, Zenon
    <3> QED BY <1>1, <1>4, <2>1, <2>2, <2>3, <3>1
  <2>5. CASE a # c
    <3>1. About(run', c) <= About(run, c) /\ Masquerade(a) # Masquerade(c)
      BY <2>1, <2>5, PointsAre, Zenon
    <3> QED BY <1>1, <1>4, <2>1, <2>2, <2>3, <3>1
  <2> QED BY <2>4, <2>5, Zenon
<1> QED BY <1>3, <1>4, <1>6, <1>8, <1>9, NatInvIs, Zenon

(* What the two commands of natOut do. *)
LEMMA CommandsDo ==
  Post \in DOMAIN chains => \A c, q :
         /\ q = natOut(c) =>
              /\ Effect(q) = chains
              /\ ~Succeeds(q) => \A i \in DOMAIN chains[Post] : chains[Post][i] # Masquerade(c)
              /\ q.yes = Return("ok") /\ q.no = Insert(c)
         /\ q = Insert(c) =>
              /\ Effect(q) = [chains EXCEPT ![Post] = <<Masquerade(c)>> \o @]
              /\ q.yes = Return("ok") /\ q.no = Return("error")
<1> SUFFICES ASSUME Post \in DOMAIN chains, NEW c, NEW q
             PROVE  /\ q = natOut(c) =>
                         /\ Effect(q) = chains
                         /\ ~Succeeds(q) => \A i \in DOMAIN chains[Post] : chains[Post][i] # Masquerade(c)
                         /\ q.yes = Return("ok") /\ q.no = Insert(c)
                    /\ q = Insert(c) =>
                         /\ Effect(q) = [chains EXCEPT ![Post] = <<Masquerade(c)>> \o @]
                         /\ q.yes = Return("ok") /\ q.no = Return("error")
  BY Zenon
<1>1. ASSUME q = natOut(c)
      PROVE  /\ Effect(q) = chains
             /\ ~Succeeds(q) => \A i \in DOMAIN chains[Post] : chains[Post][i] # Masquerade(c)
             /\ q.yes = Return("ok") /\ q.no = Insert(c)
  <2>1. /\ q.act = "-C" /\ q.rule = Masquerade(c) /\ Ch(q) = Post
        /\ q.yes = Return("ok") /\ q.no = Insert(c)
    BY <1>1, PointsAre, Zenon
  <2>2. Effect(q) = chains
    BY <2>1 DEF Effect
  <2>3. Succeeds(q) <=> HasRule(q)
    BY <2>1 DEF Succeeds
  <2>4. ~HasRule(q) => \A i \in DOMAIN chains[Post] : chains[Post][i] # Masquerade(c)
    BY <2>1, Zenon DEF HasRule, HasChain, Range
  <2> QED BY <2>1, <2>2, <2>3, <2>4
<1>2. ASSUME q = Insert(c)
      PROVE  /\ Effect(q) = [chains EXCEPT ![Post] = <<Masquerade(c)>> \o @]
             /\ q.yes = Return("ok") /\ q.no = Return("error")
  <2>1. /\ q.act = "-I" /\ q.rule = Masquerade(c) /\ Ch(q) = Post
        /\ q.yes = Return("ok") /\ q.no = Return("error")
    BY <1>2, PointsAre, Zenon
  <2>2. Effect(q) = [chains EXCEPT ![Post] = <<Masquerade(c)>> \o @]
    BY <2>1 DEF Effect
  <2> QED BY <2>1, <2>2
<1> QED BY <1>1, <1>2, Zenon

LEMMA ProgramsAre ==
  ASSUME NEW d \in NatCalls, OnlyNat
  PROVE  /\ d.name \in Sources /\ Program(d) = natOut(d.name)
         /\ Program(d) \in Points /\ \A c : Program(d) # Insert(c)
<1>1. d.op = "natOut"
  BY Zenon DEF OnlyNat
<1>2. Program(d) = natOut(d.name)
  BY <1>1 DEF Program
<1>3. d.name \in Sources
  BY Zenon DEF Sources
<1> QED BY <1>2, <1>3, PointsAre, Zenon DEF Points

(* A command, answered or lost. *)
LEMMA CommandKeeps ==
  ASSUME IsFiniteSet(Proc), NatInv, NEW p \in Proc, Raw(p) \/ RawLost(p)
  PROVE  NatInv'
<1> DEFINE q == run[p]
<1>1. /\ faults \in Nat /\ DOMAIN run = Proc /\ q \in Points /\ DOMAIN chains = Builtin
  BY NatInvIs, Zenon
<1>2. Post \in DOMAIN chains
  BY <1>1, Zenon DEF Post, Builtin
<1>3. /\ q.act # "return"
      /\ \/ faults' = faults /\ Succeeds(q) /\ chains' = Effect(q) /\ run' = [run EXCEPT ![p] = q.yes]
         \/ faults' = faults /\ ~Succeeds(q) /\ chains' = chains /\ run' = [run EXCEPT ![p] = q.no]
         \/ faults' = faults + 1 /\ chains' \in {chains, Effect(q)} /\ run' = [run EXCEPT ![p] = q.no]
  BY DEF Raw, RawLost
<1> HIDE DEF q
<1>4. faults' \in Nat /\ faults <= faults'
  BY <1>1, <1>3
<1>5. Return("ok") \in Points /\ Return("error") \in Points
  BY Zenon DEF Points
<1>6. CASE \E a \in Sources : q = natOut(a)
  <2>1. PICK a \in Sources : q = natOut(a)
    BY <1>6, Zenon
  <2>2. /\ q.yes = Return("ok") /\ q.no = Insert(a) /\ Effect(q) = chains
        /\ ~Succeeds(q) => \A i \in DOMAIN chains[Post] : chains[Post][i] # Masquerade(a)
    BY <1>2, <2>1, CommandsDo, Zenon
  <2>3. chains' = chains
    BY <1>3, <2>2, Zenon
  <2>4. CASE run' = [run EXCEPT ![p] = q.yes]
    <3>1. chains'[Post] \in {chains[Post], <<>>} /\ DOMAIN chains' = Builtin
      BY <1>1, <2>3, Zenon
    <3> QED BY <1>4, <1>5, <2>2, <2>4, <3>1, PointsAre, NatKeep, Zenon
  <2>5. CASE run' = [run EXCEPT ![p] = q.no] /\ (faults' = faults + 1 \/ (faults' = faults /\ ~Succeeds(q)))
    <3>1. run' = [run EXCEPT ![p] = Insert(a)]
      BY <2>2, <2>5, Zenon
    <3>2. \/ faults' = faults /\ \A i \in DOMAIN chains[Post] : chains[Post][i] # Masquerade(a)
          \/ faults' = faults + 1
      BY <2>2, <2>5, Zenon
    <3> QED BY <2>3, <3>1, <3>2, ChecksIn, Zenon
  <2> QED BY <1>3, <2>4, <2>5, Zenon
<1>7. CASE \E a \in Sources : q = Insert(a)
  <2>1. PICK a \in Sources : q = Insert(a)
    BY <1>7, Zenon
  <2>2. /\ q.yes = Return("ok") /\ q.no = Return("error")
        /\ Effect(q) = [chains EXCEPT ![Post] = <<Masquerade(a)>> \o @]
    BY <1>2, <2>1, CommandsDo, Zenon
  <2>3. PICK r \in {"ok", "error"} : run' = [run EXCEPT ![p] = Return(r)]
    BY <1>3, <2>2, Zenon
  <2>4. CASE chains' = chains
    <3>1. chains'[Post] \in {chains[Post], <<>>} /\ DOMAIN chains' = Builtin
      BY <1>1, <2>4, Zenon
    <3>2. Return(r) \in Points
      BY <1>5, Zenon
    <3> QED BY <1>4, <2>3, <3>1, <3>2, PointsAre, NatKeep, Zenon
  <2>5. CASE chains' = Effect(q)
    <3>1. chains' = [chains EXCEPT ![Post] = <<Masquerade(a)>> \o @]
      BY <2>2, <2>5, Zenon
    <3>2. faults' \in {faults, faults + 1}
      BY <1>3, Zenon
    <3>3. run[p] = Insert(a)
      BY <2>1, Zenon DEF q
    <3> QED BY <2>3, <3>1, <3>2, <3>3, InsertsIt, Zenon
  <2> QED BY <1>3, <2>4, <2>5, Zenon
<1>8. q \notin {Return("ok"), Return("error")}
  <2>1. Return("ok").act = "return" /\ Return("error").act = "return"
    BY PointsAre, Zenon
  <2> QED BY <1>3, <2>1, Zenon
<1> QED BY <1>1, <1>6, <1>7, <1>8, Zenon DEF Points

LEMMA NatInit == ASSUME IsFiniteSet(Proc), Init PROVE NatInv
<1>1. /\ faults = 0 /\ run = [p \in Proc |-> Return("ok")] /\ chains = [ch \in Builtin |-> <<>>]
  BY Zenon DEF Init
<1>2. Post \in Builtin
  BY Zenon DEF Post, Builtin
<1>3. Return("ok") \in Points
  BY Zenon DEF Points
<1>4. /\ DOMAIN run = Proc /\ (\A p \in Proc : run[p] = Return("ok"))
      /\ DOMAIN chains = Builtin /\ chains[Post] = <<>>
  BY <1>1, <1>2
<1>5. chains[Post] \in Seq(MasqueradeRules)
  <2>1. <<>> \in Seq(MasqueradeRules)
    OBVIOUS
  <2> QED BY <1>4, <2>1, Zenon
<1>6. ASSUME NEW c \in Sources
      PROVE  Copied(chains[Post], c) + About(run, c) <= Cardinality(Proc) + faults
  <2>1. Held(<<>>, Masquerade(c)) = {}
    BY DEF Held
  <2>2. Those(Proc, run, Insert(c)) = {}
    BY <1>4, PointsAre, Zenon DEF Those
  <2>3. Copied(chains[Post], c) = 0 /\ About(run, c) = 0 /\ Cardinality(Proc) \in Nat
    BY <1>4, <2>1, <2>2, FS_EmptySet, FS_CardinalityType, Zenon DEF Copied, About
  <2> QED BY <1>1, <2>3
<1>7. faults \in Nat
  BY <1>1
<1>8. \A p \in Proc : run[p] \in Points
  BY <1>3, <1>4, Zenon
<1> QED BY <1>4, <1>5, <1>6, <1>7, <1>8, NatInvIs, Zenon

LEMMA NatStep ==
  ASSUME IsFiniteSet(Proc), OnlyNat, NatInv, [Next]_vars
  PROVE  NatInv'
<1>1. faults \in Nat /\ DOMAIN run = Proc /\ DOMAIN chains = Builtin /\ Post \in Builtin
  BY NatInvIs, Zenon DEF Post, Builtin
<1>2. chains' = chains => DOMAIN chains' = Builtin /\ chains'[Post] \in {chains[Post], <<>>}
  BY <1>1, Zenon
<1>3. run' = run => DOMAIN run' = Proc /\ \A p \in Proc : run'[p] = run[p]
  BY <1>1, Zenon
<1>4. faults' = faults \/ faults' = faults + 1 => faults' \in Nat /\ faults <= faults'
  BY <1>1
<1>5. ASSUME NEW p \in Proc, NEW d \in Start, Begin(p, d) PROVE NatInv'
  <2>1. chains' = chains /\ faults' = faults /\ run' = [run EXCEPT ![p] = Program(d)]
    BY <1>5, Zenon DEF Begin
  <2>2. d \in NatCalls
    BY Zenon DEF NatCalls
  <2> QED BY <1>2, <1>4, <2>1, <2>2, ProgramsAre, NatKeep, Zenon
<1>6. ASSUME NEW p \in Proc, Finish(p) PROVE NatInv'
  <2>1. chains' = chains /\ faults' = faults /\ run' = run
    BY <1>6, Zenon DEF Finish
  <2> QED BY <1>2, <1>4, <1>3, <2>1, NatKeep, Zenon
<1>7. CASE signalHandler
  <2>1. chains' = chains /\ faults' = faults
        /\ (run' = run \/ (Restore # Nil /\ run' = [run EXCEPT ![Reloader] = Program(Restore)]))
    <3>1. CASE Head(signals) \in CallsBack /\ Restore # Nil
      BY <1>7, <3>1, Zenon DEF signalHandler
    <3>2. CASE ~(Head(signals) \in CallsBack /\ Restore # Nil)
      BY <1>7, <3>2, Zenon DEF signalHandler
    <3> QED BY <3>1, <3>2, Zenon
  <2>2. CASE run' = run
    BY <1>2, <1>4, <1>3, <2>1, <2>2, NatKeep, Zenon
  <2>3. CASE Reloader \notin Proc /\ run' = [run EXCEPT ![Reloader] = Program(Restore)]
    <3>1. DOMAIN run' = Proc /\ \A p \in Proc : run'[p] = run[p]
      BY <1>1, <2>3
    <3> QED BY <1>2, <1>4, <2>1, <3>1, NatKeep, Zenon
  <2>4. CASE Reloader \in Proc /\ Restore # Nil /\ run' = [run EXCEPT ![Reloader] = Program(Restore)]
    <3>1. Restore \in NatCalls
      BY <2>4, Zenon DEF NatCalls
    <3> QED BY <1>2, <1>4, <2>1, <2>4, <3>1, ProgramsAre, NatKeep, Zenon
  <2> QED BY <2>1, <2>2, <2>3, <2>4, Zenon
<1>8. CASE FirewalldStarts \/ FirewalldReloads
  <2>1. /\ chains' = [ch \in Builtin |-> <<>>] /\ run' = run
        /\ faults' = faults \/ faults' = faults + 1
    BY <1>8, Zenon DEF FirewalldStarts, FirewalldReloads
  <2>2. DOMAIN chains' = Builtin /\ chains'[Post] \in {chains[Post], <<>>}
    BY <1>1, <2>1
  <2> QED BY <1>4, <1>3, <2>1, <2>2, NatKeep, Zenon
<1>9. CASE UNCHANGED vars
  <2>1. chains' = chains /\ faults' = faults /\ run' = run
    BY <1>9, Zenon DEF vars
  <2> QED BY <1>2, <1>4, <1>3, <2>1, NatKeep, Zenon
<1> QED BY <1>5, <1>6, <1>7, <1>8, <1>9, CommandKeeps, Zenon DEF Next, Step

(* natOut is the plugin's only use of the tables. However many handlers create networks, and
   however often firewalld is reloaded, restarted or lost in between, a rule has at most one copy
   for each goroutine that may run at a time and for each fault: the check of Raw("-C") and the
   insertion are two commands, and what a goroutine saw may be old when it inserts. *)
THEOREM CopiesBounded ==
  ASSUME IsFiniteSet(Proc), OnlyNat
  PROVE  Spec => []NatBounded
<1>1. NatInv => NatBounded
  <2> SUFFICES ASSUME NatInv, NEW d \in Start
               PROVE  Masquerades(d) <= Cardinality(Proc) + faults
    BY Zenon DEF NatBounded
  <2>1. d.name \in Sources /\ Masquerade(d.name) \in MasqueradeRules
    BY Zenon DEF Sources, NatCalls, MasqueradeRules
  <2>2. /\ faults \in Nat /\ chains[Post] \in Seq(MasqueradeRules) /\ DOMAIN chains = Builtin
        /\ Copied(chains[Post], d.name) + About(run, d.name) <= Cardinality(Proc) + faults
    BY <2>1, NatInvIs, Zenon
  <2>3. Copied(chains[Post], d.name) \in Nat
    BY <2>1, <2>2, OneMore, Zenon DEF Copied
  <2>4. Those(Proc, run, Insert(d.name)) \in SUBSET Proc
    BY Zenon DEF Those
  <2>5. About(run, d.name) \in Nat /\ Cardinality(Proc) \in Nat
    BY <2>4, FS_Subset, FS_CardinalityType, Zenon DEF About
  <2>6. Masquerades(d) = Copied(chains[Post], d.name)
    BY <2>2, CopiesAre DEF Masquerades
  <2> QED BY <2>2, <2>3, <2>5, <2>6
<1>2. Init => NatInv
  BY NatInit, Zenon
<1>3. NatInv /\ [Next]_vars => NatInv'
  BY NatStep, Zenon
<1> QED BY <1>1, <1>2, <1>3, PTL DEF Spec

-----------------------------------------------------------------------------
(* The start of the plugin, with constants and variables of its own *)

CONSTANTS Row, Root, Foreign, Retries, MayRename, InFlight
VARIABLES main, attempt, conn, registered, handlers, watcher, db, monitored, snapshot, updates,
          cache, monitor, death
Starts == INSTANCE PluginStart

(* Other users change rows of the database. *)
RowsNamed == Foreign \subseteq Row

(* The start begins with an empty cache and nobody following the database. *)
LEMMA StartInit == Starts!Init => Starts!StartInv
<1> SUFFICES ASSUME Starts!Init PROVE Starts!StartInv
    OBVIOUS
<1>1. Starts!StartTypeOK
    BY DEF Starts!Init, Starts!StartTypeOK, Starts!Following, Starts!Version, Starts!Empty
<1>2. Starts!Followed /\ Starts!DeletedLast /\ Starts!Seen
    BY DEF Starts!Init, Starts!Followed, Starts!DeletedLast, Starts!Seen, Starts!Following,
           Starts!Started
<1> QED
    BY <1>1, <1>2 DEF Starts!StartInv

(* The steps of the main goroutine: the snapshot enters what it has and leaves what overtook it. *)
LEMMA MainKeeps == Starts!StartInv /\ Starts!Main => Starts!StartInv'
<1> SUFFICES ASSUME Starts!StartInv, Starts!Main PROVE Starts!StartInv'
    OBVIOUS
<1> USE DEF Starts!StartInv, Starts!Following, Starts!Started
<1>1. CASE Starts!Connect \/ Starts!newOvsdbClient \/ Starts!ListDbs \/ Starts!GetSchema \/ Starts!Register
    <2> USE DEF Starts!Connect, Starts!newOvsdbClient, Starts!ListDbs, Starts!GetSchema,
                Starts!Register, Starts!Connected, Starts!NotConnected, Starts!At
    <2>1. /\ main \notin Starts!Following /\ main' \notin Starts!Following
          /\ UNCHANGED <<db, snapshot, cache, updates, monitored>>
        BY <1>1
    <2>2. Starts!StartTypeOK'
        BY <1>1, <2>1 DEF Starts!StartTypeOK
    <2>3. conn' = "open" /\ main' \notin {"Connect", "newOvsdbClient"} => registered'
        BY <1>1 DEF Starts!Followed
    <2>4. main' \in {"MonitorAll"} \cup Starts!Following => handlers'
        BY <1>1
    <2> QED
        BY <2>1, <2>2, <2>3, <2>4 DEF Starts!Followed, Starts!DeletedLast, Starts!Seen
<1>2. CASE Starts!MonitorAll
    BY <1>2 DEF Starts!MonitorAll, Starts!At, Starts!StartTypeOK, Starts!Followed, Starts!DeletedLast,
                Starts!Seen, Starts!Brings
<1>3. CASE Starts!populateSnapshot
    <2>1. /\ main = "populateCache" /\ main' = "populateContextCache"
          /\ cache' = [r \in Row |-> Starts!AfterSnapshot(r)] /\ snapshot' = Starts!Empty
          /\ UNCHANGED <<conn, registered, handlers, db, monitored, updates>>
        BY <1>3 DEF Starts!populateSnapshot, Starts!At
    <2>2. Starts!StartTypeOK'
        BY <2>1 DEF Starts!StartTypeOK, Starts!AfterSnapshot, Starts!SnapshotRows, Starts!Empty,
                    Starts!Version
    <2>3. \A r \in Row : cache'[r] = IF snapshot[r] \in Starts!Present THEN snapshot[r] ELSE cache[r]
        BY <2>1 DEF Starts!AfterSnapshot, Starts!SnapshotRows
    <2>4. Starts!Seen'
        BY <2>1, <2>3 DEF Starts!Seen, Starts!Brings, Starts!Present
    <2> QED
        BY <2>1, <2>2, <2>4 DEF Starts!Followed, Starts!DeletedLast
<1>4. CASE Starts!populateContextCache \/ Starts!getRootUUID
    BY <1>4 DEF Starts!populateContextCache, Starts!getRootUUID, Starts!At, Starts!StartTypeOK,
                Starts!Followed, Starts!DeletedLast, Starts!Seen, Starts!Brings
<1> QED
    BY <1>1, <1>2, <1>3, <1>4 DEF Starts!Main

(* A change of row r is announced: the update under way brings the row, or says that it is gone. *)
LEMMA ChangeKeeps ==
    ASSUME Starts!StartInv, NEW r \in Row, NEW v \in {"new", "changed", "gone"}, NEW n \in BOOLEAN,
           db[r] # "gone", db' = [db EXCEPT ![r] = v], Starts!Announce(r, v, n),
           UNCHANGED <<main, conn, registered, handlers, monitored, snapshot, cache>>
    PROVE  Starts!StartInv'
<1> DEFINE new == [row |-> r, ver |-> v, renamed |-> n, at |-> "wire"]
<1>1. updates' = IF monitored /\ conn = "open" THEN updates \cup {new} ELSE updates
    BY DEF Starts!Announce
<1>2. Starts!StartTypeOK'
    BY <1>1 DEF Starts!StartInv, Starts!StartTypeOK, Starts!Version
<1>3. Starts!Followed'
    BY <1>1 DEF Starts!StartInv, Starts!Followed
<1>4. db'[r] = v /\ \A s \in Row \ {r} : db'[s] = db[s]
    BY DEF Starts!StartInv, Starts!StartTypeOK
<1>5. Starts!DeletedLast'
    BY <1>1, <1>4 DEF Starts!StartInv, Starts!StartTypeOK, Starts!DeletedLast
<1>6. ASSUME monitored, conn = "open", NEW s \in Row, db'[s] \in Starts!Present
      PROVE  \/ cache[s] # "none"
             \/ \E u \in updates' : Starts!Brings(u, s)
             \/ main = "populateCache" /\ snapshot[s] \in Starts!Present
    <2>1. CASE s = r
        <3>1. new \in updates' /\ new.row = s /\ new.ver \in Starts!Present /\ new.at # "channel"
            BY <1>1, <1>4, <1>6, <2>1
        <3> QED
            BY <3>1 DEF Starts!Brings
    <2>2. CASE s # r
        BY <1>1, <1>4, <1>6, <2>2 DEF Starts!StartInv, Starts!Seen
    <2> QED
        BY <2>1, <2>2
<1>7. Starts!Seen'
    BY <1>6 DEF Starts!Seen, Starts!Brings
<1> QED
    BY <1>2, <1>3, <1>5, <1>7 DEF Starts!StartInv

(* The goroutine of an update: what it has to bring is entered or still on its way, and what it
   removes from the cache is gone from the database. *)
LEMMA GoroutineKeeps == ASSUME Starts!StartInv, NEW u \in updates, Starts!Goroutine(u) PROVE Starts!StartInv'
<1> USE DEF Starts!StartInv
<1>0. /\ u \in [row : Row, ver : Starts!Version \ {"none"}, renamed : BOOLEAN,
                at : {"wire", "check", "Update", "populateCache", "channel"}]
      /\ monitored
    BY DEF Starts!StartTypeOK, Starts!Followed
<1>1. ASSUME NEW stage \in {"check", "Update", "populateCache"}, Starts!Move(u, stage), u.at # "channel",
             UNCHANGED <<Starts!StartVars, cache>>
      PROVE  Starts!StartInv'
    <2> DEFINE w == [u EXCEPT !.at = stage]
    <2>1. /\ updates' = (updates \ {u}) \cup {w}
          /\ w.row = u.row /\ w.ver = u.ver /\ w.at = stage /\ w.renamed = u.renamed
          /\ w \in [row : Row, ver : Starts!Version \ {"none"}, renamed : BOOLEAN,
                    at : {"wire", "check", "Update", "populateCache", "channel"}]
        BY <1>0, <1>1 DEF Starts!Move
    <2> HIDE DEF w
    <2>2. \A r \in Row : (\E x \in updates : Starts!Brings(x, r)) => \E x \in updates' : Starts!Brings(x, r)
        BY <2>1, <1>1 DEF Starts!Brings
    <2> QED
        BY <2>1, <2>2, <1>0, <1>1 DEF Starts!StartTypeOK, Starts!Followed, Starts!DeletedLast,
                                      Starts!Seen, Starts!StartVars, Starts!Brings
<1>2. ASSUME updates' = updates \ {u}, u.at = "channel" \/ conn # "open",
             UNCHANGED <<Starts!StartVars, cache>>
      PROVE  Starts!StartInv'
    <2>1. conn = "open" => \A r \in Row : (\E x \in updates : Starts!Brings(x, r)) => \E x \in updates' : Starts!Brings(x, r)
        BY <1>2 DEF Starts!Brings
    <2> QED
        BY <2>1, <1>0, <1>2 DEF Starts!StartTypeOK, Starts!Followed, Starts!DeletedLast, Starts!Seen,
                                Starts!StartVars, Starts!Brings
<1>3. ASSUME UNCHANGED <<Starts!StartVars, cache, updates>> PROVE Starts!StartInv'
    BY <1>3 DEF Starts!StartTypeOK, Starts!Followed, Starts!DeletedLast, Starts!Seen,
                Starts!StartVars, Starts!Brings
<1>4. conn = "open" => registered /\ handlers
    BY <1>0 DEF Starts!Followed, Starts!Following, Starts!Started
<1>5. CASE Starts!StartGoroutine(u)
    BY <1>5, <1>1, <1>2 DEF Starts!StartGoroutine, Starts!AtStage
<1>6. CASE Starts!checkConnection(u)
    BY <1>6, <1>1, <1>2, <1>4 DEF Starts!checkConnection, Starts!AtStage
<1>7. CASE Starts!callHandlers(u)
    BY <1>7, <1>1, <1>2, <1>3, <1>4 DEF Starts!callHandlers, Starts!AtStage
<1>8. CASE Starts!populateUpdate(u)
    <2> DEFINE w == [u EXCEPT !.at = "channel"]
    <2>1. /\ updates' = (updates \ {u}) \cup {w} /\ u.at = "populateCache"
          /\ cache' = [cache EXCEPT ![u.row] = Starts!Entered(u.ver)]
          /\ UNCHANGED Starts!StartVars
        BY <1>8 DEF Starts!populateUpdate, Starts!Move, Starts!AtStage
    <2>2. /\ w.row = u.row /\ w.ver = u.ver
          /\ w \in [row : Row, ver : Starts!Version \ {"none"}, renamed : BOOLEAN,
                    at : {"wire", "check", "Update", "populateCache", "channel"}]
        BY <1>0
    <2> HIDE DEF w
    <2>3. u.row \in Row /\ cache'[u.row] = Starts!Entered(u.ver) /\ \A r \in Row \ {u.row} : cache'[r] = cache[r]
        BY <2>1, <1>0 DEF Starts!StartTypeOK
    <2>4. Starts!StartTypeOK'
        BY <2>1, <2>2, <1>0 DEF Starts!StartTypeOK, Starts!StartVars, Starts!Entered, Starts!Version,
                                Starts!Present
    <2>5. Starts!Followed' /\ Starts!DeletedLast'
        BY <2>1, <2>2, <1>0 DEF Starts!Followed, Starts!DeletedLast, Starts!StartVars
    <2>6. ASSUME conn = "open", NEW r \in Row, db[r] \in Starts!Present
          PROVE  \/ cache'[r] # "none"
                 \/ \E x \in updates' : Starts!Brings(x, r)
                 \/ main = "populateCache" /\ snapshot[r] \in Starts!Present
        <3>1. CASE r = u.row
            BY <3>1, <2>3, <2>6, <1>0 DEF Starts!DeletedLast, Starts!Entered, Starts!Present,
                                          Starts!Version
        <3>2. CASE r # u.row
            BY <3>2, <2>1, <2>3, <2>6, <1>0 DEF Starts!Seen, Starts!Brings
        <3> QED
            BY <3>1, <3>2
    <2>7. Starts!Seen'
        BY <2>1, <2>6 DEF Starts!Seen, Starts!Brings, Starts!StartVars
    <2> QED
        BY <2>4, <2>5, <2>7
<1>9. CASE Starts!monitorBridges(u)
    BY <1>9, <1>2 DEF Starts!monitorBridges, Starts!AtStage
<1> QED
    BY <1>5, <1>6, <1>7, <1>8, <1>9 DEF Starts!Goroutine

(* Every other step: the connection breaks or is cleared, the process ends, rows change. *)
LEMMA StartStep == ASSUME RowsNamed PROVE Starts!StartInv /\ [Starts!Next]_Starts!vars => Starts!StartInv'
<1> SUFFICES ASSUME Starts!StartInv, [Starts!Next]_Starts!vars PROVE Starts!StartInv'
    OBVIOUS
<1>1. CASE Starts!Main
    BY <1>1, MainKeeps
<1>2. CASE \E u \in updates : Starts!Goroutine(u)
    BY <1>2, GoroutineKeeps
<1>3. CASE Starts!mapRace \/ Starts!clearConnection \/ Starts!Break \/ UNCHANGED Starts!vars
    <2>1. /\ UNCHANGED <<main, db, monitored, handlers, snapshot, cache, updates>>
          /\ conn' \in {conn, "broken"} /\ (conn' = "open" => conn = "open" /\ registered' = registered)
        BY <1>3 DEF Starts!mapRace, Starts!clearConnection, Starts!Break, Starts!vars, Starts!StartVars
    <2> QED
        BY <2>1 DEF Starts!StartInv, Starts!StartTypeOK, Starts!Followed, Starts!DeletedLast,
                    Starts!Seen, Starts!Brings
<1>4. CASE Starts!recreateBridge
    <2>1. /\ UNCHANGED <<main, conn, registered, handlers, monitored, snapshot, cache>>
          /\ \/ \E r \in Row : db[r] = "none" /\ db' = [db EXCEPT ![r] = "new"] /\ Starts!Announce(r, "new", FALSE)
             \/ UNCHANGED <<db, updates>>
        BY <1>4 DEF Starts!recreateBridge
    <2>2. CASE UNCHANGED <<db, updates>>
        BY <2>1, <2>2 DEF Starts!StartInv, Starts!StartTypeOK, Starts!Followed, Starts!DeletedLast,
                          Starts!Seen, Starts!Brings
    <2> QED
        BY <2>1, <2>2, ChangeKeeps
<1>5. CASE \E r \in Foreign : Starts!InsertRow(r) \/ Starts!ModifyRow(r) \/ Starts!DeleteRow(r)
    <2>1. PICK r \in Row : Starts!InsertRow(r) \/ Starts!ModifyRow(r) \/ Starts!DeleteRow(r)
        BY <1>5 DEF RowsNamed
    <2>2. \E v \in {"new", "changed", "gone"}, n \in BOOLEAN : db[r] # "gone" /\ Starts!Change(r, v, n)
        BY <2>1 DEF Starts!InsertRow, Starts!ModifyRow, Starts!DeleteRow, Starts!Present
    <2> QED
        BY <2>2, ChangeKeeps DEF Starts!Change
<1> QED
    BY <1>1, <1>2, <1>3, <1>4, <1>5 DEF Starts!Next

(* NewDriver, populateCache and the update goroutines of libovsdb: when the start has entered the
   snapshot and no update is under way, every row of the database is in the cache, however the
   updates overtake the snapshot and each other. *)
THEOREM NoRowMissed == ASSUME RowsNamed PROVE Starts!Spec => []Starts!CacheMissesNothing
<1>1. Starts!Init => Starts!StartInv
    BY StartInit
<1>2. Starts!StartInv /\ [Starts!Next]_Starts!vars => Starts!StartInv'
    BY StartStep
<1>3. Starts!StartInv => Starts!CacheMissesNothing
    BY DEF Starts!StartInv, Starts!Followed, Starts!Seen, Starts!Brings, Starts!CacheMissesNothing,
           Starts!Following, Starts!Started
<1> QED
    BY <1>1, <1>2, <1>3, PTL DEF Starts!Spec

-----------------------------------------------------------------------------
(* The plugin as a server, with constants and variables of its own *)

CONSTANTS Clients, Kinds, MaxStarts, MaxFails
VARIABLES proto, file, umask, pc, starts, fails, ready, client
Server == INSTANCE PluginServer

LEMMA FilesAre ==
  /\ Server!NoFile \in Server!Files /\ [Server!NoFile EXCEPT !.kind = "plain"] \in Server!Files
  /\ \A f \in Server!Files : /\ [f EXCEPT !.group = TRUE] \in Server!Files
                              /\ [f EXCEPT !.mode = "0660"] \in Server!Files
  /\ \A n \in Nat, k \in {"socket", "spec"}, m \in {"none", "open", "0644"} :
        [kind |-> k, start |-> n, group |-> FALSE, mode |-> m] \in Server!Files
<1> DEFINE K == {"none", "plain", "socket", "spec"}  M == {"none", "open", "0660", "0644"}
<1>1. /\ "none" \in K /\ "plain" \in K /\ "socket" \in K /\ "spec" \in K /\ 0 \in Nat
      /\ "none" \in M /\ "open" \in M /\ "0660" \in M /\ "0644" \in M
  OBVIOUS
<1>2. Server!Files = [kind : K, start : Nat, group : BOOLEAN, mode : M]
  BY Zenon DEF Server!Files
<1> HIDE DEF K, M
<1> QED BY <1>1, <1>2, Zenon DEF Server!NoFile

LEMMA ServerInit == ASSUME Server!Init PROVE Server!ServerInv
<1>1. Server!ServerTypeOK
  <2>1. file \in Server!Files
    BY FilesAre, Zenon DEF Server!Init
  <2>2. Server!Idle \in Server!Connections
    BY DEF Server!Idle, Server!Connections
  <2>3. client \in [Clients -> Server!Connections]
    BY <2>2, Zenon DEF Server!Init
  <2> QED BY <2>1, <2>3 DEF Server!Init, Server!ServerTypeOK, Server!Down
<1>2. Server!Masked /\ Server!SocketMode
  BY DEF Server!Init, Server!Masked, Server!SocketMode, Server!NoFile
<1>3. ASSUME NEW c \in Clients PROVE Server!Waiting(c)
  BY <1>3 DEF Server!Init, Server!Waiting, Server!Idle
<1> QED BY <1>1, <1>2, <1>3 DEF Server!ServerInv

(* The end of the process ends every connection and resets the umask. *)
LEMMA ExitKeeps ==
  ASSUME Server!ServerInv, Server!Exit("down") \/ Server!Exit("crashed"), file' \in {file, Server!NoFile}
  PROVE  Server!ServerInv'
<1>1. /\ pc' \in Server!Down /\ umask' = "normal" /\ client' = Server!Dropped /\ UNCHANGED <<proto, starts>>
  BY DEF Server!Exit, Server!Down
<1>2. Server!ServerTypeOK'
  <2>1. file' \in Server!Files
    BY FilesAre, Zenon DEF Server!ServerInv, Server!ServerTypeOK
  <2>2. Server!Dropped \in [Clients -> Server!Connections]
    BY DEF Server!ServerInv, Server!ServerTypeOK, Server!Dropped, Server!Connections, Server!Answers
  <2> QED BY <1>1, <2>1, <2>2 DEF Server!ServerInv, Server!ServerTypeOK
<1>3. Server!Masked' /\ Server!SocketMode'
  BY <1>1 DEF Server!ServerInv, Server!Masked, Server!SocketMode, Server!Down, Server!NoFile
<1>4. ASSUME NEW c \in Clients PROVE Server!Waiting(c)'
  BY <1>1, <1>4 DEF Server!ServerInv, Server!ServerTypeOK, Server!Connections, Server!Waiting, Server!Dropped
<1> QED BY <1>2, <1>3, <1>4 DEF Server!ServerInv

(* The steps of the start: the group is set before the mode, and both under the umask. *)
LEMMA StartingKeeps ==
  ASSUME Server!ServerInv, Server!Start \/ Server!Starting
  PROVE  Server!ServerInv'
<1> USE DEF Server!Start, Server!At, Server!Others
<1>1. CASE Server!ListenUnix /\ file.kind # "none"
  <2>1. Server!Exit("down") /\ file' = file
    BY <1>1 DEF Server!ListenUnix
  <2> QED BY <2>1, ExitKeeps
<1>2. CASE \/ Server!Start \/ Server!MkdirAll \/ Server!Unlink \/ Server!Umask \/ Server!setSocketGroup \/ Server!Chmod
           \/ Server!Restore \/ Server!ListenTcp \/ Server!writeSpec \/ Server!Activate
           \/ (Server!ListenUnix /\ file.kind = "none")
  <2> USE DEF Server!MkdirAll, Server!Unlink, Server!Unlinked, Server!Umask, Server!SetUmask, Server!setSocketGroup,
              Server!Chmod, Server!Restore, Server!ListenTcp, Server!writeSpec, Server!Activate, Server!ListenUnix
  <2>1. client' = client /\ proto' = proto
    BY <1>2
  <2>2. file' \in Server!Files
    <3>1. file \in Server!Files /\ starts \in Nat
      BY Zenon DEF Server!ServerInv, Server!ServerTypeOK
    <3>2. CASE Server!Unlink \/ Server!setSocketGroup \/ Server!Chmod
      <4>1. file' \in {Server!NoFile, [file EXCEPT !.group = TRUE], [file EXCEPT !.mode = "0660"]}
        BY <3>2
      <4> QED BY <3>1, <4>1, FilesAre, Zenon
    <3>3. CASE Server!writeSpec \/ (Server!ListenUnix /\ file.kind = "none")
      <4>1. \/ file' = [kind |-> "spec", start |-> starts, group |-> FALSE, mode |-> "0644"]
            \/ file' = [kind |-> "socket", start |-> starts, group |-> FALSE, mode |-> "none"]
            \/ file' = [kind |-> "socket", start |-> starts, group |-> FALSE, mode |-> "open"]
        BY <3>3
      <4> QED BY <3>1, <4>1, FilesAre, Zenon
    <3> QED BY <1>2, <3>1, <3>2, <3>3
  <2>3. Server!ServerTypeOK'
    BY <1>2, <2>1, <2>2 DEF Server!ServerInv, Server!ServerTypeOK, Server!StartSteps, Server!Down
  <2>4. Server!Masked'
    BY <1>2 DEF Server!ServerInv, Server!ServerTypeOK, Server!StartSteps, Server!Masked, Server!Down
  <2>5. Server!SocketMode'
    BY <1>2 DEF Server!ServerInv, Server!ServerTypeOK, Server!StartSteps, Server!Files, Server!Masked,
       Server!SocketMode, Server!Down, Server!NoFile
  <2>6. ASSUME NEW c \in Clients PROVE Server!Waiting(c)'
    BY <1>2, <2>1, <2>6 DEF Server!ServerInv, Server!ServerTypeOK, Server!StartSteps, Server!Files, Server!Waiting,
       Server!Listening, Server!Down
  <2> QED BY <2>4, <2>5, <2>6, <2>3 DEF Server!ServerInv
<1> QED BY <1>1, <1>2 DEF Server!Starting

LEMMA ConnectKeeps ==
  ASSUME Server!ServerInv, NEW c \in Clients,
         Server!Connect(c) \/ Server!Accept(c) \/ Server!Decode(c) \/ Server!Call(c)
  PROVE  Server!ServerInv'
<1>1. UNCHANGED <<proto, file, umask, pc, starts>>
  BY DEF Server!Connect, Server!Accept, Server!Decode, Server!Call, Server!Step
<1>2. Server!Masked' /\ Server!SocketMode'
  BY <1>1 DEF Server!ServerInv, Server!Masked, Server!SocketMode
<1>3. /\ client' \in [Clients -> Server!Connections]
      /\ \A d \in Clients \ {c} : client'[d] = client[d]
  BY DEF Server!ServerInv, Server!ServerTypeOK, Server!Connect, Server!Accept, Server!Decode, Server!Call,
         Server!Step, Server!Answer, Server!Answers, Server!Connections
<1>4. Server!ServerTypeOK'
  BY <1>1, <1>3 DEF Server!ServerInv, Server!ServerTypeOK, Server!StartSteps
<1>5. Server!Waiting(c)'
  <2>1. CASE Server!Connect(c)
    <3>1. client'[c].at = "queued"
      BY <2>1 DEF Server!ServerInv, Server!ServerTypeOK, Server!Connect
    <3>2. Server!Listening'
      BY <1>1, <2>1 DEF Server!Connect, Server!Listening
    <3>3. ASSUME proto = "unix", Kinds[c] # "root" PROVE Kinds[c] = "member" /\ file.group
      <4>1. Server!MayOpen(c) /\ file.mode \in {"none", "0660"}
        BY <2>1, <3>3, Zenon DEF Server!ServerInv, Server!SocketMode, Server!Connect
      <4> QED BY <3>3, <4>1 DEF Server!MayOpen
    <3>4. client'[c].at \notin {"handling", "decoded"}
      BY <3>1
    <3> QED BY <1>1, <3>2, <3>3, <3>4, Zenon DEF Server!Waiting
  <2>2. CASE Server!Accept(c) \/ Server!Decode(c) \/ Server!Call(c)
    BY <1>1, <2>2 DEF Server!ServerInv, Server!ServerTypeOK, Server!Connections, Server!Accept, Server!Decode, Server!Call,
       Server!Step, Server!Answer, Server!Waiting
  <2> QED BY <2>1, <2>2
<1>6. ASSUME NEW d \in Clients \ {c} PROVE Server!Waiting(d)'
  BY <1>1, <1>3, <1>6 DEF Server!ServerInv, Server!Waiting, Server!Listening
<1> QED BY <1>2, <1>4, <1>5, <1>6 DEF Server!ServerInv

LEMMA ServerStep == ASSUME Server!ServerInv, [Server!Next]_Server!vars PROVE Server!ServerInv'
<1>1. CASE UNCHANGED Server!vars
  BY <1>1 DEF Server!vars, Server!ServerInv, Server!ServerTypeOK, Server!StartSteps, Server!Masked, Server!SocketMode,
     Server!Waiting, Server!Listening
<1>2. CASE Server!StartFails \/ Server!ServeEnds \/ Server!Crash
  <2>1. file' \in {file, Server!NoFile} /\ (Server!Exit("down") \/ Server!Exit("crashed"))
    BY <1>2 DEF Server!StartFails, Server!ServeEnds, Server!Crash, Server!Closes
  <2> QED BY <2>1, ExitKeeps
<1> QED BY <1>1, <1>2, StartingKeeps, ConnectKeeps DEF Server!Next, Server!Serving

(* NewUnixSocket and the listener over it: at no step of the start, whatever fails or crashes and
   however often the plugin is started again, does anybody but root and the members of the group
   get into the queue of the unix socket, and no request is handled under the umask of the start;
   for any clients. *)
THEOREM SocketForTheGroup == Server!Spec => []Server!OnlyTheGroup
<1>1. Server!ServerInv => Server!OnlyTheGroup
  BY DEF Server!ServerInv, Server!Masked, Server!Waiting, Server!OnlyTheGroup
<1> QED BY <1>1, ServerInit, ServerStep, PTL DEF Server!Spec
=============================================================================
