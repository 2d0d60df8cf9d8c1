--------------------------- MODULE DbusConnProofs ---------------------------
(* Proofs about DbusConn: a caller never gets the reply of another call,     *)
(* though serials are given back and used again.                             *)
EXTENDS DbusConn, SequenceTheorems, WellFoundedInduction, TLAPS

(* What the code fixes: there are serials (serial 0 is never given out), a   *)
(* message is of one of four kinds, and the signal handler makes calls, a    *)
(* new one for every signal.                                                 *)
ConnConstants ==
    /\ SerialMod \in Nat /\ SerialMod > 1
    /\ Kind \in [Proc -> {"call", "oneway", "emit", "answer"}]
    /\ Handlers \in Seq(Calls)
    /\ \A i, j \in DOMAIN Handlers : Handlers[i] = Handlers[j] => i = j

-----------------------------------------------------------------------------
(* The first unused serial *)

LEMMA SmallestExists ==
  ASSUME NEW T, T \subseteq Nat, T # {}
  PROVE  \E x \in T : \A y \in T : x <= y
<1> DEFINE R == OpToRel(<, Nat)
<1>1. \A a, b \in Nat : a < b => <<a, b>> \in R
  BY DEF OpToRel
<1>2. IsWellFoundedOn(R, Nat)
  BY NatLessThanWellFounded, Zenon
<1> HIDE DEF R
<1>3. PICK x \in T : \A y \in T : ~(<<y, x>> \in R)
  BY <1>2, WFMin, Zenon
<1>4. ASSUME NEW y \in T PROVE x <= y
  <2>1. x \in Nat /\ y \in Nat
    OBVIOUS
  <2>2. ~(y < x)
    BY <1>1, <1>3, <2>1, Zenon
  <2> QED BY <2>1, <2>2
<1> QED BY <1>4

(* getSerial never gives out a serial that is in use. *)
LEMMA FreeIsUnused ==
  ASSUME ConnConstants, ConnTypeOK, serialUsed # Serials
  PROVE  Free(serialUsed) \in Serials \ serialUsed
<1> DEFINE U == Serials \ serialUsed
           dist(n) == Wrapped(n + SerialMod - nextSerial)
<1>1. \A n \in U : dist(n) \in Nat
  BY DEF ConnConstants, ConnTypeOK, Serials, Wrapped
<1>2. U # {}
  BY Zenon DEF ConnTypeOK
<1>3. \E n \in U : \A m \in U : dist(n) <= dist(m)
  <2> DEFINE T == {dist(n) : n \in U}
  <2>1. T \subseteq Nat /\ T # {}
    BY <1>1, <1>2
  <2> HIDE DEF T
  <2>2. PICK x \in T : \A y \in T : x <= y
    BY <2>1, SmallestExists, Zenon
  <2> QED BY <2>2, Zenon DEF T
<1> HIDE DEF dist
<1>4. (CHOOSE n \in U : \A m \in U : dist(n) <= dist(m)) \in U
  BY <1>3
<1> QED BY <1>4 DEF Free, dist, Serials

LEMMA WrappedType ==
  ASSUME ConnConstants, NEW n \in Nat
  PROVE  Wrapped(n) \in Serials
BY DEF ConnConstants, Wrapped, Serials

-----------------------------------------------------------------------------
(* Sequences *)

LEMMA TailFacts ==
  ASSUME NEW S, NEW s \in Seq(S), s # <<>>
  PROVE  /\ 1 \in DOMAIN s /\ Head(s) = s[1] /\ Tail(s) \in Seq(S)
         /\ \A i \in DOMAIN Tail(s) : i \in Nat /\ i + 1 \in DOMAIN s /\ i + 1 # 1 /\ Tail(s)[i] = s[i + 1]
         /\ \A j \in DOMAIN s : j # 1 => j - 1 \in DOMAIN Tail(s) /\ Tail(s)[j - 1] = s[j]
BY HeadTailProperties

LEMMA AppendFacts ==
  ASSUME NEW S, NEW s \in Seq(S), NEW x \in S
  PROVE  /\ Append(s, x) \in Seq(S) /\ Len(s) + 1 \notin DOMAIN s
         /\ DOMAIN Append(s, x) = DOMAIN s \cup {Len(s) + 1}
         /\ Append(s, x)[Len(s) + 1] = x /\ \A i \in DOMAIN s : Append(s, x)[i] = s[i]
BY AppendProperties

LEMMA QueueTail ==
  ASSUME ConnTypeOK, QueuedOnce, out # <<>>, out' = Tail(out)
  PROVE  /\ out' \in Seq(Proc) /\ QueuedOnce' /\ Head(out) \in Range(out) /\ Head(out) \in Proc
         /\ Range(out)' = Range(out) \ {Head(out)}
<1>1. /\ 1 \in DOMAIN out /\ Head(out) = out[1] /\ out' \in Seq(Proc)
      /\ \A i \in DOMAIN out' : i \in Nat /\ i + 1 \in DOMAIN out /\ i + 1 # 1 /\ out'[i] = out[i + 1]
      /\ \A j \in DOMAIN out : j # 1 => j - 1 \in DOMAIN out' /\ out'[j - 1] = out[j]
  BY TailFacts DEF ConnTypeOK
<1>2. QueuedOnce'
  BY <1>1 DEF QueuedOnce
<1>3. Head(out) \in Range(out) /\ Head(out) \in Proc
  BY <1>1 DEF Range, ConnTypeOK
<1>4. ASSUME NEW p \in Range(out)' PROVE p \in Range(out) \ {Head(out)}
  <2>1. PICK i \in DOMAIN out' : out'[i] = p
    BY <1>4, Zenon DEF Range
  <2>2. i + 1 \in DOMAIN out /\ i + 1 # 1 /\ out[i + 1] = p
    BY <1>1, <2>1, Zenon
  <2> QED BY <1>1, <2>2, Zenon DEF Range, QueuedOnce
<1>5. ASSUME NEW p \in Range(out), p # Head(out) PROVE p \in Range(out)'
  <2>1. PICK j \in DOMAIN out : out[j] = p
    BY <1>5, Zenon DEF Range
  <2>2. j - 1 \in DOMAIN out' /\ out'[j - 1] = p
    BY <1>1, <1>5, <2>1, Zenon
  <2> QED BY <2>2, Zenon DEF Range
<1> QED BY <1>1, <1>2, <1>3, <1>4, <1>5, Zenon

LEMMA QueueAppend ==
  ASSUME ConnTypeOK, QueuedOnce, NEW p \in Proc, p \notin Range(out), out' = Append(out, p)
  PROVE  out' \in Seq(Proc) /\ QueuedOnce' /\ Range(out)' = Range(out) \cup {p}
<1>1. /\ out' \in Seq(Proc) /\ Len(out) + 1 \notin DOMAIN out
      /\ DOMAIN out' = DOMAIN out \cup {Len(out) + 1}
      /\ out'[Len(out) + 1] = p /\ \A i \in DOMAIN out : out'[i] = out[i]
  BY AppendFacts DEF ConnTypeOK
<1>2. \A i \in DOMAIN out : out[i] # p
  BY DEF Range
<1>3. QueuedOnce'
  BY <1>1, <1>2 DEF QueuedOnce
<1> QED BY <1>1, <1>3 DEF Range

(* What is left to read when the first message has been read *)
LEMMA InboxTail ==
  ASSUME ConnTypeOK, AnsweredOnce, inbox # <<>>, inbox' = Tail(inbox), serial' = serial
  PROVE  /\ inbox' \in Seq(Messages) /\ Head(inbox) \in Messages /\ AnsweredOnce'
         /\ \A p : Answered(p)' => Answered(p)
         /\ \A p : Head(inbox).kind # "signal" /\ Head(inbox).to = p => Answered(p) /\ ~Answered(p)'
         /\ Head(inbox).kind = "reply" => Head(inbox).serial = serial[Head(inbox).to]
<1>1. /\ 1 \in DOMAIN inbox /\ Head(inbox) = inbox[1] /\ inbox' \in Seq(Messages)
      /\ \A i \in DOMAIN inbox' : i \in Nat /\ i + 1 \in DOMAIN inbox /\ i + 1 # 1 /\ inbox'[i] = inbox[i + 1]
  BY TailFacts DEF ConnTypeOK
<1>2. Head(inbox) \in Messages
  BY <1>1 DEF ConnTypeOK
<1>3. AnsweredOnce'
  <2>1. ASSUME NEW i \in DOMAIN inbox', NEW j \in DOMAIN inbox', inbox'[i].kind # "signal",
               inbox'[j].kind # "signal", inbox'[i].to = inbox'[j].to
        PROVE  i = j
    <3>1. i + 1 \in DOMAIN inbox /\ inbox'[i] = inbox[i + 1] /\ j + 1 \in DOMAIN inbox /\ inbox'[j] = inbox[j + 1]
      BY <1>1, Zenon
    <3>2. i + 1 = j + 1
      BY <2>1, <3>1, Zenon DEF AnsweredOnce
    <3> QED BY <1>1, <3>2
  <2>2. ASSUME NEW i \in DOMAIN inbox', inbox'[i].kind = "reply"
        PROVE  inbox'[i].serial = serial'[inbox'[i].to]
    BY <1>1, <2>2 DEF AnsweredOnce
  <2> QED BY <2>1, <2>2, Zenon DEF AnsweredOnce
<1>4. \A p : Answered(p)' => Answered(p)
  BY <1>1 DEF Answered
<1>5. ASSUME NEW p, Head(inbox).kind # "signal", Head(inbox).to = p
      PROVE  Answered(p) /\ ~Answered(p)'
  <2>1. Answered(p)
    BY <1>1, <1>5, Zenon DEF Answered
  <2>2. ASSUME NEW i \in DOMAIN inbox', inbox'[i].kind # "signal" PROVE inbox'[i].to # p
    BY <1>1, <1>5, <2>2, Zenon DEF AnsweredOnce
  <2> QED BY <2>1, <2>2, Zenon DEF Answered
<1>6. Head(inbox).kind = "reply" => Head(inbox).serial = serial[Head(inbox).to]
  BY <1>1 DEF AnsweredOnce
<1> QED BY <1>1, <1>2, <1>3, <1>4, <1>5, <1>6, Zenon

(* What is left to read when the bus has sent a message *)
LEMMA InboxAppend ==
  ASSUME ConnTypeOK, AnsweredOnce, NEW m \in Messages, inbox' = Append(inbox, m), serial' = serial,
         m.kind # "signal" => ~Answered(m.to), m.kind = "reply" => m.serial = serial[m.to]
  PROVE  /\ inbox' \in Seq(Messages) /\ AnsweredOnce'
         /\ \A p : Answered(p)' <=> Answered(p) \/ (m.kind # "signal" /\ m.to = p)
<1>1. /\ inbox' \in Seq(Messages) /\ Len(inbox) + 1 \notin DOMAIN inbox
      /\ DOMAIN inbox' = DOMAIN inbox \cup {Len(inbox) + 1}
      /\ inbox'[Len(inbox) + 1] = m /\ \A i \in DOMAIN inbox : inbox'[i] = inbox[i]
  BY AppendFacts DEF ConnTypeOK
<1>2. m.kind # "signal" => \A i \in DOMAIN inbox : inbox[i].kind # "signal" => inbox[i].to # m.to
  BY Zenon DEF Answered
<1>3. AnsweredOnce'
  BY <1>1, <1>2 DEF AnsweredOnce
<1>4. \A p : Answered(p)' <=> Answered(p) \/ (m.kind # "signal" /\ m.to = p)
  BY <1>1 DEF Answered
<1> QED BY <1>1, <1>3, <1>4

-----------------------------------------------------------------------------
(* Steps *)

LEMMA CallsAreSent ==
  ASSUME ConnConstants
  PROVE  /\ Calls \subseteq Proc /\ \A p \in Calls : Kind[p] = "call"
         /\ \A k \in DOMAIN Handlers : k \in Nat /\ Handlers[k] \in Calls
BY DEF ConnConstants, Calls

(* Only calls and the answers to others are with the bus. *)
LEMMA WithTheBus ==
  ASSUME ConnConstants, ConnInv, NEW p \in Proc, p \in atBus \/ Answered(p)
  PROVE  Kind[p] \in {"call", "answer"}
<1>1. ASSUME NEW i \in DOMAIN inbox, inbox[i].kind # "signal", inbox[i].to = p
      PROVE  Kind[p] \in {"call", "answer"}
  <2>1. inbox[i] \in Messages
    BY DEF ConnInv, ConnTypeOK
  <2> QED BY <1>1, <2>1, Zenon DEF Messages, Calls
<1> QED BY <1>1 DEF Answered, ConnInv, ConnTypeOK

(* A serial that nobody else gets keeps its owner. *)
LEMMA OwnersStay ==
  ASSUME SerialsApart, Entered, serial' = serial, calls' = calls, serialUsed' = serialUsed,
         \A p \in Proc : Holds(p)' => Holds(p),
         \A p \in Calls : pc'[p] = "send" \/ Awaits(p)' => pc[p] = "send" \/ Awaits(p)
  PROVE  SerialsApart' /\ Entered'
BY Zenon DEF SerialsApart, Entered

LEMMA Quiet ==
  ASSUME ConnInv, UNCHANGED <<pc, serial, nextSerial, serialUsed, calls, out, inbox, atBus, taken>>,
         result' \in [Calls -> {"none", "reply", "foreign", "error"}], OwnReply'
  PROVE  ConnInv'
<1>1. ConnTypeOK'
  BY DEF ConnInv, ConnTypeOK
<1>2. Range(out)' = Range(out) /\ \A p : Answered(p)' <=> Answered(p)
  BY DEF Range, Answered
<1>3. QueuedOnce' /\ AnsweredOnce' /\ InPlace'
  BY <1>2, Zenon DEF ConnInv, QueuedOnce, AnsweredOnce, InPlace
<1>4. SerialsApart' /\ Entered'
  BY <1>2, OwnersStay, Zenon DEF ConnInv, Holds, Awaits
<1> QED BY <1>1, <1>3, <1>4, Zenon DEF ConnInv

(* A goroutine sets out to send a message: Start, signalHandler and InCall. *)
LEMMA SetsOut ==
  ASSUME ConnConstants, ConnInv, NEW p \in Proc, pc[p] = "idle", pc' = [pc EXCEPT ![p] = "serial"],
         p \notin atBus, ~Answered(p)', \A q : Answered(q)' => Answered(q),
         inbox' \in Seq(Messages), AnsweredOnce', taken' \in Nat, taken' >= taken,
         \A k \in DOMAIN Handlers : taken' < k => Handlers[k] # p,
         UNCHANGED <<serial, nextSerial, serialUsed, calls, out, atBus, result>>
  PROVE  ConnInv'
<1>1. pc'[p] = "serial" /\ \A q \in Proc \ {p} : pc'[q] = pc[q]
  BY Zenon DEF ConnInv, ConnTypeOK
<1>2. ConnTypeOK'
  BY Zenon DEF ConnInv, ConnTypeOK
<1>3. Range(out)' = Range(out) /\ QueuedOnce' /\ OwnReply'
  BY Zenon DEF Range, ConnInv, QueuedOnce, OwnReply
<1>4. p \notin Range(out)
  BY Zenon DEF ConnInv, InPlace
<1>5. \A k \in DOMAIN Handlers : taken' < k => pc'[Handlers[k]] = "idle"
  BY <1>1, CallsAreSent DEF ConnInv, ConnTypeOK, InPlace
<1>6. InPlace'
  BY <1>1, <1>3, <1>4, <1>5, CallsAreSent DEF ConnInv, InPlace
<1>7. SerialsApart' /\ Entered'
  <2>1. \A q \in Proc : Holds(q)' => Holds(q)
    BY <1>1, <1>3, Zenon DEF Holds, Awaits
  <2>2. \A q \in Calls : pc'[q] = "send" \/ Awaits(q)' => pc[q] = "send" \/ Awaits(q)
    BY <1>1, <1>3, CallsAreSent, Zenon DEF Awaits
  <2> QED BY <2>1, <2>2, OwnersStay, Zenon DEF ConnInv
<1> QED BY <1>2, <1>3, <1>6, <1>7 DEF ConnInv

LEMMA StartStep ==
  ASSUME ConnConstants, ConnInv, NEW p \in Proc, Start(p)
  PROVE  ConnInv'
<1>1. /\ pc[p] = "idle" /\ pc' = [pc EXCEPT ![p] = "serial"] /\ Kind[p] # "answer" /\ p \notin Range(Handlers)
      /\ UNCHANGED <<serial, nextSerial, serialUsed, calls, out, atBus, result, inbox, taken>>
  BY Zenon DEF Start, Spontaneous, completion, sigVars, busVars
<1>2. p \notin atBus /\ ~Answered(p)
  <2>1. SUFFICES ASSUME p \in atBus \/ Answered(p) PROVE FALSE
    OBVIOUS
  <2>2. p \in Calls
    BY <1>1, <2>1, WithTheBus, Zenon DEF Calls
  <2> QED BY <1>1, <2>1, <2>2, Zenon DEF ConnInv, InPlace
<1>3. \A q : Answered(q)' <=> Answered(q)
  BY <1>1, Zenon DEF Answered
<1>4. AnsweredOnce' /\ inbox' \in Seq(Messages) /\ taken' \in Nat /\ taken' >= taken
  BY <1>1 DEF AnsweredOnce, ConnInv, ConnTypeOK
<1>5. \A k \in DOMAIN Handlers : Handlers[k] # p
  BY <1>1, Zenon DEF Range
<1> QED BY <1>1, <1>2, <1>3, <1>4, <1>5, SetsOut, Zenon

LEMMA SignalHandlerStep ==
  ASSUME ConnConstants, ConnInv, signalHandler
  PROVE  ConnInv'
<1>1. /\ taken' = taken + 1 /\ UNCHANGED <<serial, nextSerial, serialUsed, calls, out, atBus, result, inbox>>
      /\ pc' = IF taken + 1 \in DOMAIN Handlers THEN [pc EXCEPT ![Handlers[taken + 1]] = "serial"] ELSE pc
  BY DEF signalHandler, completion, busVars
<1>2. taken \in Nat
  BY DEF ConnInv, ConnTypeOK
<1>3. \A q : Answered(q)' <=> Answered(q)
  BY <1>1, Zenon DEF Answered
<1>4. AnsweredOnce' /\ inbox' \in Seq(Messages) /\ taken' \in Nat /\ taken' >= taken
  BY <1>1, <1>2 DEF AnsweredOnce, ConnInv, ConnTypeOK
<1>5. CASE taken + 1 \in DOMAIN Handlers
  <2> DEFINE p == Handlers[taken + 1]
  <2>1. p \in Calls /\ p \in Proc /\ taken < taken + 1
    BY <1>2, <1>5, CallsAreSent
  <2>2. pc[p] = "idle"
    BY <1>5, <2>1, Zenon DEF ConnInv, InPlace
  <2>3. p \notin atBus /\ ~Answered(p)
    BY <2>1, <2>2, Zenon DEF ConnInv, InPlace
  <2>4. \A k \in DOMAIN Handlers : taken' < k => Handlers[k] # p
    BY <1>1, <1>2, <1>5 DEF ConnConstants
  <2>5. pc' = [pc EXCEPT ![p] = "serial"]
    BY <1>1, <1>5, Zenon
  <2> HIDE DEF p
  <2>6. PICK q \in Proc : q = p
    BY <2>1, Zenon
  <2> QED BY <1>1, <1>3, <1>4, <2>2, <2>3, <2>4, <2>5, <2>6, SetsOut, Zenon
<1>6. CASE taken + 1 \notin DOMAIN Handlers
  <2>1. pc' = pc
    BY <1>1, <1>6, Zenon
  <2>a. ConnTypeOK'
    BY <1>1, <1>4, <2>1, Zenon DEF ConnInv, ConnTypeOK
  <2>b. QueuedOnce' /\ OwnReply'
    BY <1>1, Zenon DEF ConnInv, QueuedOnce, OwnReply
  <2>3. Range(out)' = Range(out)
    BY <1>1 DEF Range
  <2>4. \A k \in DOMAIN Handlers : taken' < k => taken < k
    BY <1>1, <1>2, CallsAreSent
  <2>5. InPlace'
    BY <1>1, <1>3, <2>1, <2>3, <2>4, Zenon DEF ConnInv, InPlace
  <2>6. SerialsApart' /\ Entered'
    BY <1>1, <1>3, <2>1, <2>3, OwnersStay, Zenon DEF ConnInv, Holds, Awaits
  <2> QED BY <1>4, <2>a, <2>b, <2>5, <2>6, Zenon DEF ConnInv
<1> QED BY <1>5, <1>6, Zenon

(* getSerial: the serial is new to all who hold one. *)
LEMMA GetSerialStep ==
  ASSUME ConnConstants, ConnInv, NEW p \in Proc, getSerial(p)
  PROVE  ConnInv'
<1> DEFINE n == Free(serialUsed)
<1>1. /\ pc[p] = "serial" /\ serial' = [serial EXCEPT ![p] = n]
      /\ serialUsed' = serialUsed \cup {n} /\ nextSerial' = Wrapped(n + 1)
      /\ pc' = [pc EXCEPT ![p] = IF p \in Calls THEN "register" ELSE "send"]
      /\ UNCHANGED <<calls, out, atBus, result, inbox, taken>>
  BY DEF getSerial, completion, sigVars, busVars
<1>2. n \in Serials \ serialUsed
  BY FreeIsUnused DEF getSerial, ConnInv, Serials
<1> HIDE DEF n
<1>3. Wrapped(n + 1) \in Serials
  BY <1>2, WrappedType DEF Serials
<1>4. ConnTypeOK'
  BY <1>1, <1>2, <1>3, Zenon DEF ConnInv, ConnTypeOK
<1>5. /\ serial'[p] = n /\ pc'[p] \in {"register", "send"} /\ (p \in Calls <=> pc'[p] = "register")
      /\ \A q \in Proc \ {p} : serial'[q] = serial[q] /\ pc'[q] = pc[q]
  BY <1>1, Zenon DEF ConnInv, ConnTypeOK
<1>6. ~Holds(p) /\ ~Awaits(p)
  <2>1. p \notin Range(out) /\ p \notin atBus /\ ~Answered(p)
    BY <1>1, Zenon DEF ConnInv, InPlace
  <2> QED BY <1>1, <2>1, Zenon DEF Holds, Awaits
<1>7. Range(out)' = Range(out) /\ QueuedOnce' /\ OwnReply' /\ \A q : Answered(q)' <=> Answered(q)
  BY <1>1, Zenon DEF Range, ConnInv, QueuedOnce, OwnReply, Answered
<1>8. AnsweredOnce'
  <2>1. ASSUME NEW i \in DOMAIN inbox, inbox[i].kind = "reply" PROVE inbox[i].to \in Proc \ {p}
    <3>1. inbox[i] \in Messages
      BY DEF ConnInv, ConnTypeOK
    <3>2. inbox[i].to \in Proc
      BY <2>1, <3>1, CallsAreSent, Zenon DEF Messages
    <3>3. Answered(inbox[i].to)
      BY <2>1, Zenon DEF Answered
    <3> QED BY <1>6, <3>2, <3>3, Zenon DEF Awaits
  <2> QED BY <1>1, <1>5, <2>1 DEF ConnInv, AnsweredOnce
<1>9. InPlace'
  <2>1. \A k \in DOMAIN Handlers : taken' < k => pc'[Handlers[k]] = "idle"
    BY <1>1, <1>5, CallsAreSent DEF ConnInv, InPlace
  <2> QED BY <1>1, <1>5, <1>6, <1>7, <2>1, CallsAreSent DEF ConnInv, InPlace, Awaits
<1>10. \A q \in Proc \ {p} : (Holds(q)' <=> Holds(q)) /\ (Awaits(q)' <=> Awaits(q))
  BY <1>1, <1>5, <1>7, Zenon DEF Holds, Awaits
<1>11. SerialsApart'
  BY <1>1, <1>2, <1>5, <1>10 DEF ConnInv, SerialsApart
<1>12. Entered'
  <2>1. ~Awaits(p)' /\ (p \in Calls => pc'[p] # "send")
    BY <1>1, <1>5, <1>6, <1>7, Zenon DEF Awaits
  <2> QED BY <1>1, <1>5, <1>10, <2>1, CallsAreSent, Zenon DEF ConnInv, Entered
<1> QED BY <1>4, <1>7, <1>8, <1>9, <1>11, <1>12, Zenon DEF ConnInv

LEMMA RegisterStep ==
  ASSUME ConnConstants, ConnInv, NEW p \in Proc, Register(p)
  PROVE  ConnInv'
<1>1. /\ pc[p] = "register" /\ pc' = [pc EXCEPT ![p] = "send"]
      /\ calls' = [s \in DOMAIN calls \cup {serial[p]} |-> IF s = serial[p] THEN p ELSE calls[s]]
      /\ UNCHANGED <<serial, nextSerial, serialUsed, out, atBus, result, inbox, taken>>
  BY Zenon DEF Register, completion, sigVars, busVars
<1>2. p \in Calls /\ Holds(p) /\ serial[p] \in Serials
  BY <1>1 DEF ConnInv, ConnTypeOK, InPlace, Holds
<1>3. /\ DOMAIN calls' = DOMAIN calls \cup {serial[p]} /\ calls'[serial[p]] = p
      /\ \A s \in DOMAIN calls : s # serial[p] => calls'[s] = calls[s]
      /\ calls' \in [DOMAIN calls' -> Calls]
  BY <1>1, <1>2, Zenon DEF ConnInv, ConnTypeOK
<1>4. pc'[p] = "send" /\ \A q \in Proc \ {p} : pc'[q] = pc[q]
  BY <1>1, Zenon DEF ConnInv, ConnTypeOK
<1>5. ConnTypeOK'
  BY <1>1, <1>2, <1>3, Zenon DEF ConnInv, ConnTypeOK
<1>6. Range(out)' = Range(out) /\ \A q : Answered(q)' <=> Answered(q)
  BY <1>1, Zenon DEF Range, Answered
<1>7. QueuedOnce' /\ OwnReply' /\ AnsweredOnce'
  BY <1>1, Zenon DEF ConnInv, QueuedOnce, OwnReply, AnsweredOnce
<1>8. InPlace'
  <2>1. \A k \in DOMAIN Handlers : taken' < k => pc'[Handlers[k]] = "idle"
    BY <1>1, <1>4, CallsAreSent DEF ConnInv, InPlace
  <2> QED BY <1>1, <1>4, <1>6, <2>1, CallsAreSent DEF ConnInv, InPlace
<1>9. \A q \in Proc : (Holds(q)' <=> Holds(q)) /\ (Awaits(q)' <=> Awaits(q))
  BY <1>1, <1>4, <1>6, Zenon DEF Holds, Awaits
<1>10. SerialsApart'
  BY <1>1, <1>9, Zenon DEF ConnInv, SerialsApart
<1>11. Entered'
  <2>1. ASSUME NEW q \in Calls, q # p, pc'[q] = "send" \/ Awaits(q)'
        PROVE  serial[q] \in DOMAIN calls /\ calls[serial[q]] = q /\ serial[q] # serial[p]
    <3>1. q \in Proc /\ (pc[q] = "send" \/ Awaits(q))
      BY <1>4, <1>9, <2>1, CallsAreSent, Zenon
    <3>2. Holds(q)
      BY <2>1, <3>1, Zenon DEF Holds, Awaits
    <3> QED BY <1>2, <2>1, <3>1, <3>2, Zenon DEF ConnInv, Entered, SerialsApart
  <2> QED BY <1>1, <1>3, <2>1, Zenon DEF Entered
<1> QED BY <1>5, <1>7, <1>8, <1>10, <1>11, Zenon DEF ConnInv

LEMMA EnqueueStep ==
  ASSUME ConnConstants, ConnInv, NEW p \in Proc, Enqueue(p)
  PROVE  ConnInv'
<1>1. /\ pc[p] = "send" /\ pc' = Sent(p) /\ out' = Append(out, p)
      /\ UNCHANGED <<serial, nextSerial, serialUsed, calls, atBus, result, inbox, taken>>
  BY Zenon DEF Enqueue, completion, sigVars, busVars
<1>2. p \notin Range(out) /\ p \notin atBus /\ ~Answered(p)
  BY <1>1, Zenon DEF ConnInv, InPlace
<1>3. out' \in Seq(Proc) /\ QueuedOnce' /\ Range(out)' = Range(out) \cup {p}
  BY <1>1, <1>2, QueueAppend, Zenon DEF ConnInv
<1>4. pc'[p] \in {"wait", "returned"} /\ \A q \in Proc \ {p} : pc'[q] = pc[q]
  BY <1>1, Zenon DEF Sent, ConnInv, ConnTypeOK
<1>5. ConnTypeOK'
  BY <1>1, <1>3, Zenon DEF Sent, ConnInv, ConnTypeOK
<1>6. \A q : Answered(q)' <=> Answered(q)
  BY <1>1, Zenon DEF Answered
<1>7. OwnReply' /\ AnsweredOnce'
  BY <1>1, Zenon DEF ConnInv, OwnReply, AnsweredOnce
<1>8. InPlace'
  <2>1. \A k \in DOMAIN Handlers : taken' < k => pc'[Handlers[k]] = "idle"
    BY <1>1, <1>4, CallsAreSent DEF ConnInv, InPlace
  <2> QED BY <1>1, <1>2, <1>3, <1>4, <1>6, <2>1, CallsAreSent DEF ConnInv, InPlace
<1>9. \A q \in Proc : Holds(q)' => Holds(q)
  BY <1>1, <1>3, <1>4, <1>6, Zenon DEF Holds, Awaits
<1>10. \A q \in Calls : pc'[q] = "send" \/ Awaits(q)' => pc[q] = "send" \/ Awaits(q)
  BY <1>1, <1>3, <1>4, <1>6, CallsAreSent, Zenon DEF Awaits
<1>11. SerialsApart' /\ Entered'
  BY <1>1, <1>9, <1>10, OwnersStay, Zenon DEF ConnInv
<1> QED BY <1>3, <1>5, <1>7, <1>8, <1>11, Zenon DEF ConnInv

(* RefusedClosed and Return: the sender goes on, the message stays where it is. *)
LEMMA SenderStep ==
  ASSUME ConnConstants, ConnInv, NEW p \in Proc, RefusedClosed(p) \/ Return(p)
  PROVE  ConnInv'
<1>1. /\ pc[p] \in {"send", "wait"} /\ (pc' = Sent(p) \/ pc' = [pc EXCEPT ![p] = "returned"])
      /\ result' = result \/ result' = [c \in Calls |-> IF c = p THEN "error" ELSE result[c]]
      /\ UNCHANGED <<serial, nextSerial, serialUsed, calls, out, atBus, inbox, taken>>
  BY Zenon DEF RefusedClosed, Return, sigVars, busVars
<1>2. pc'[p] \in {"wait", "returned"} /\ \A q \in Proc \ {p} : pc'[q] = pc[q]
  BY <1>1, Zenon DEF Sent, ConnInv, ConnTypeOK
<1>3. pc' \in [Proc -> {"idle", "serial", "register", "send", "wait", "returned"}]
  BY <1>1, Zenon DEF Sent, ConnInv, ConnTypeOK
<1>4. result' \in [Calls -> {"none", "reply", "foreign", "error"}] /\ OwnReply'
  BY <1>1 DEF ConnInv, ConnTypeOK, OwnReply
<1>5. ConnTypeOK'
  BY <1>1, <1>3, <1>4, Zenon DEF ConnInv, ConnTypeOK
<1>6. Range(out)' = Range(out) /\ \A q : Answered(q)' <=> Answered(q)
  BY <1>1 DEF Range, Answered
<1>7. QueuedOnce' /\ AnsweredOnce'
  BY <1>1, Zenon DEF ConnInv, QueuedOnce, AnsweredOnce
<1>8. InPlace'
  <2>1. \A k \in DOMAIN Handlers : taken' < k => pc'[Handlers[k]] = "idle"
    BY <1>1, <1>2, CallsAreSent DEF ConnInv, InPlace
  <2> QED BY <1>1, <1>2, <1>6, <2>1, CallsAreSent DEF ConnInv, InPlace
<1>9. /\ \A q \in Proc : Holds(q)' => Holds(q)
      /\ \A q \in Calls : pc'[q] = "send" \/ Awaits(q)' => pc[q] = "send" \/ Awaits(q)
  BY <1>1, <1>2, <1>6, CallsAreSent, Zenon DEF Holds, Awaits
<1>10. SerialsApart' /\ Entered'
  BY <1>1, <1>9, OwnersStay, Zenon DEF ConnInv
<1> QED BY <1>4, <1>5, <1>7, <1>8, <1>10, Zenon DEF ConnInv

(* outWorker: what gives its serial back at once can have no reply. *)
LEMMA OutWorkerStep ==
  ASSUME ConnConstants, ConnInv, outWorker
  PROVE  ConnInv'
<1>1. PICK p : p = Head(out)
  BY Zenon
<1>2. /\ out # <<>> /\ out' = Tail(out)
      /\ serialUsed' = IF FreesAtOnce(p) THEN serialUsed \ {serial[p]} ELSE serialUsed
      /\ atBus' = IF Arrives(p) /\ p \in Calls THEN atBus \cup {p} ELSE atBus
      /\ result' = IF SendFails(p) /\ serial[p] \in DOMAIN calls
                      THEN [result EXCEPT ![calls[serial[p]]] = "error"] ELSE result
      /\ UNCHANGED <<pc, serial, nextSerial, calls, inbox, taken>>
  BY <1>1, Zenon DEF outWorker, sigVars
<1>3. /\ out' \in Seq(Proc) /\ QueuedOnce' /\ p \in Range(out) /\ p \in Proc
      /\ Range(out)' = Range(out) \ {p}
  BY <1>1, <1>2, QueueTail, Zenon DEF ConnInv
<1>4. result' \in [Calls -> {"none", "reply", "foreign", "error"}] /\ OwnReply'
  BY <1>2, Zenon DEF ConnInv, ConnTypeOK, OwnReply
<1>5. ConnTypeOK'
  <2>1. atBus' \subseteq {q \in Proc : Kind[q] \in {"call", "answer"}}
    BY <1>2, CallsAreSent DEF ConnInv, ConnTypeOK
  <2> QED BY <1>2, <1>3, <1>4, <2>1, Zenon DEF ConnInv, ConnTypeOK
<1>6. AnsweredOnce' /\ \A q : Answered(q)' <=> Answered(q)
  BY <1>2, Zenon DEF ConnInv, AnsweredOnce, Answered
<1>7. pc[p] \in {"wait", "returned"} /\ (p \in Calls => p \notin atBus /\ ~Answered(p))
  BY <1>3, Zenon DEF ConnInv, InPlace
<1>8. InPlace'
  <2>1. ASSUME NEW q \in Calls, q \in atBus' \/ Answered(q)'
        PROVE  pc'[q] \in {"wait", "returned"} /\ q \notin Range(out)' /\ ~(q \in atBus' /\ Answered(q)')
    BY <1>2, <1>3, <1>6, <1>7, <2>1, CallsAreSent DEF ConnInv, InPlace
  <2>2. ASSUME NEW q \in Proc \ Calls PROVE q \in atBus' => q \in atBus
    BY <1>2, <2>2
  <2>3. ASSUME NEW q \in Proc PROVE q \in Range(out)' => pc'[q] \in {"wait", "returned"}
    BY <1>2, <1>3, Zenon DEF ConnInv, InPlace
  <2> QED BY <1>2, <1>6, <2>1, <2>2, <2>3, Zenon DEF ConnInv, InPlace
<1>9. \A q \in Proc : (Holds(q)' => Holds(q)) /\ (q \in Calls => (Awaits(q)' => Awaits(q)))
  BY <1>2, <1>3, <1>6, Zenon DEF Holds, Awaits
<1>10. FreesAtOnce(p) => ~Holds(p)'
  <2>1. FreesAtOnce(p) => ~(Arrives(p) /\ p \in Calls)
    BY DEF FreesAtOnce, Arrives, Calls
  <2> QED BY <1>2, <1>3, <1>6, <1>7, <2>1, Zenon DEF Holds, Awaits
<1>11. SerialsApart'
  <2>1. ASSUME NEW q \in Proc, Holds(q)' PROVE serial'[q] \in serialUsed'
    <3>1. Holds(q) /\ Holds(p) /\ serial[q] \in serialUsed
      BY <1>3, <1>9, <2>1, Zenon DEF Holds, ConnInv, SerialsApart
    <3>2. FreesAtOnce(p) => serial[q] # serial[p]
      BY <1>3, <1>10, <2>1, <3>1, Zenon DEF ConnInv, SerialsApart
    <3> QED BY <1>2, <3>1, <3>2, Zenon
  <2> QED BY <1>2, <1>9, <2>1, Zenon DEF ConnInv, SerialsApart
<1>12. Entered'
  BY <1>2, <1>9, CallsAreSent, Zenon DEF ConnInv, Entered
<1> QED BY <1>3, <1>4, <1>5, <1>6, <1>8, <1>11, <1>12, Zenon DEF ConnInv

(* InEavesdropped, InSignal, and a reply to nobody: a message is read and dropped. *)
LEMMA Dropped ==
  ASSUME ConnConstants, ConnInv, inbox # <<>>, inbox' = Tail(inbox),
         UNCHANGED <<pc, serial, nextSerial, serialUsed, calls, out, atBus, taken, result>>
  PROVE  ConnInv'
<1>1. inbox' \in Seq(Messages) /\ AnsweredOnce' /\ \A p : Answered(p)' => Answered(p)
  BY InboxTail, Zenon DEF ConnInv
<1>2. ConnTypeOK'
  BY <1>1, Zenon DEF ConnInv, ConnTypeOK
<1>3. Range(out)' = Range(out) /\ QueuedOnce' /\ OwnReply'
  BY DEF Range, ConnInv, QueuedOnce, OwnReply
<1>4. InPlace'
  BY <1>1, <1>3, Zenon DEF ConnInv, InPlace
<1>5. SerialsApart' /\ Entered'
  BY <1>1, <1>3, OwnersStay, Zenon DEF ConnInv, Holds, Awaits
<1> QED BY <1>1, <1>2, <1>3, <1>4, <1>5, Zenon DEF ConnInv

LEMMA InCallStep ==
  ASSUME ConnConstants, ConnInv, InCall
  PROVE  ConnInv'
<1>1. PICK p : p = Head(inbox).to
  BY Zenon
<1>2. /\ inbox # <<>> /\ Head(inbox).kind = "answer" /\ inbox' = Tail(inbox)
      /\ pc' = [pc EXCEPT ![p] = "serial"]
      /\ UNCHANGED <<serial, nextSerial, serialUsed, calls, out, atBus, taken, result>>
  BY <1>1, Zenon DEF InCall, Reads, completion, sigVars
<1>3. /\ inbox' \in Seq(Messages) /\ Head(inbox) \in Messages /\ AnsweredOnce'
      /\ \A q : Answered(q)' => Answered(q)
      /\ Answered(p) /\ ~Answered(p)'
  BY <1>1, <1>2, InboxTail, Zenon DEF ConnInv
<1>4. p \in Proc /\ p \notin Calls
  BY <1>1, <1>2, <1>3, Zenon DEF Messages, Calls
<1>5. pc[p] = "idle" /\ p \notin atBus
  BY <1>3, <1>4, Zenon DEF ConnInv, InPlace
<1>6. taken' \in Nat /\ taken' >= taken /\ \A k \in DOMAIN Handlers : Handlers[k] # p
  BY <1>2, <1>4, CallsAreSent DEF ConnInv, ConnTypeOK
<1> QED BY <1>2, <1>3, <1>4, <1>5, <1>6, SetsOut, Zenon

(* The entry that inWorker finds for a reply is that of the call it answers. *)
LEMMA InReplyStep ==
  ASSUME ConnConstants, ConnInv, InReply
  PROVE  ConnInv'
<1>1. PICK p, s : p = Head(inbox).to /\ s = Head(inbox).serial
  BY Zenon
<1>2. /\ inbox # <<>> /\ Head(inbox).kind = "reply" /\ inbox' = Tail(inbox)
      /\ UNCHANGED <<pc, serial, nextSerial, out, atBus, taken>>
  BY Zenon DEF InReply, Reads, sigVars
<1>3. /\ inbox' \in Seq(Messages) /\ Head(inbox) \in Messages /\ AnsweredOnce'
      /\ \A q : Answered(q)' => Answered(q)
      /\ Answered(p) /\ ~Answered(p)' /\ s = serial[p]
  BY <1>1, <1>2, InboxTail, Zenon DEF ConnInv
<1>4. p \in Calls /\ p \in Proc
  BY <1>1, <1>2, <1>3, CallsAreSent, Zenon DEF Messages
<1>5. s \in DOMAIN calls /\ calls[s] = p /\ Holds(p)
  BY <1>3, <1>4, Zenon DEF ConnInv, Entered, Holds, Awaits
<1>6. /\ result' = [result EXCEPT ![p] = "reply"] /\ serialUsed' = serialUsed \ {s}
      /\ calls' = Restrict(calls, DOMAIN calls \ {s})
  BY <1>1, <1>5, Zenon DEF InReply, Forgotten
<1>7. /\ DOMAIN calls' = DOMAIN calls \ {s} /\ calls' \in [DOMAIN calls' -> Calls]
      /\ \A t \in DOMAIN calls \ {s} : calls'[t] = calls[t]
  BY <1>6, Zenon DEF Restrict, ConnInv, ConnTypeOK
<1>8. result' \in [Calls -> {"none", "reply", "foreign", "error"}] /\ OwnReply'
  BY <1>6, Zenon DEF ConnInv, ConnTypeOK, OwnReply
<1>9. ConnTypeOK'
  BY <1>2, <1>3, <1>6, <1>7, <1>8, Zenon DEF ConnInv, ConnTypeOK
<1>10. Range(out)' = Range(out) /\ QueuedOnce'
  BY <1>2, Zenon DEF Range, ConnInv, QueuedOnce
<1>11. InPlace'
  BY <1>2, <1>3, <1>10, Zenon DEF ConnInv, InPlace
<1>12. \A q \in Proc : (Holds(q)' => Holds(q)) /\ (Awaits(q)' => Awaits(q))
  BY <1>2, <1>3, <1>10, Zenon DEF Holds, Awaits
<1>13. ~Holds(p)' /\ ~Awaits(p)' /\ pc'[p] # "send"
  BY <1>2, <1>3, <1>4, <1>10, Zenon DEF Holds, Awaits, ConnInv, InPlace
<1>14. ASSUME NEW q \in Proc, Holds(q)' PROVE Holds(q) /\ serial[q] # s /\ serial[q] \in serialUsed'
  <2>1. Holds(q) /\ serial[q] \in serialUsed
    BY <1>12, <1>14, Zenon DEF ConnInv, SerialsApart
  <2>2. serial[q] # s
    BY <1>3, <1>4, <1>5, <1>13, <1>14, <2>1, Zenon DEF ConnInv, SerialsApart
  <2> QED BY <1>6, <2>1, <2>2, Zenon
<1>15. SerialsApart'
  BY <1>2, <1>14, Zenon DEF ConnInv, SerialsApart
<1>16. Entered'
  <2>1. ASSUME NEW q \in Calls, pc'[q] = "send" \/ Awaits(q)'
        PROVE  serial'[q] \in DOMAIN calls' /\ calls'[serial'[q]] = q
    <3>1. q \in Proc /\ Holds(q)' /\ (pc[q] = "send" \/ Awaits(q))
      BY <1>2, <1>12, <2>1, CallsAreSent, Zenon DEF Holds, Awaits
    <3>2. serial[q] \in DOMAIN calls /\ calls[serial[q]] = q /\ serial[q] # s
      BY <1>14, <3>1, Zenon DEF ConnInv, Entered
    <3> QED BY <1>2, <1>7, <3>2, Zenon
  <2> QED BY <2>1, Zenon DEF Entered
<1> QED BY <1>3, <1>8, <1>9, <1>10, <1>11, <1>15, <1>16, Zenon DEF ConnInv

LEMMA BusMessagesStep ==
  ASSUME ConnConstants, ConnInv, NEW p \in Proc, BusMessages(p)
  PROVE  ConnInv'
<1>1. PICK m : m = [kind |-> IF p \in Calls THEN "reply" ELSE "answer", serial |-> serial[p], to |-> p]
  BY Zenon
<1>2. /\ p \in atBus /\ atBus' = atBus \ {p} /\ inbox' = Append(inbox, m)
      /\ UNCHANGED <<pc, serial, nextSerial, serialUsed, calls, out, taken, result>>
  BY <1>1 DEF BusMessages, BusSends, senders, completion, sigVars
<1>3. m \in Messages /\ m.kind # "signal" /\ m.to = p /\ m.serial = serial[m.to]
  <2>1. Kind[p] \in {"call", "answer"} /\ serial[p] \in Serials
    BY <1>2, Zenon DEF ConnInv, ConnTypeOK
  <2> QED BY <1>1, <2>1, Zenon DEF Messages, Calls
<1>4. ~Answered(p)
  BY <1>2, Zenon DEF ConnInv, InPlace
<1>5. /\ inbox' \in Seq(Messages) /\ AnsweredOnce'
      /\ \A q : Answered(q)' <=> Answered(q) \/ q = p
  BY <1>2, <1>3, <1>4, InboxAppend, Zenon DEF ConnInv
<1>6. ConnTypeOK'
  BY <1>2, <1>5, Zenon DEF ConnInv, ConnTypeOK
<1>7. Range(out)' = Range(out) /\ QueuedOnce' /\ OwnReply'
  BY <1>2, Zenon DEF Range, ConnInv, QueuedOnce, OwnReply
<1>8. InPlace'
  BY <1>2, <1>5, <1>7, Zenon DEF ConnInv, InPlace
<1>9. \A q \in Proc : (Holds(q)' => Holds(q)) /\ (Awaits(q)' => Awaits(q))
  BY <1>2, <1>5, <1>7, Zenon DEF Holds, Awaits
<1>10. SerialsApart' /\ Entered'
  BY <1>2, <1>9, CallsAreSent, OwnersStay, Zenon DEF ConnInv
<1> QED BY <1>5, <1>6, <1>7, <1>8, <1>10, Zenon DEF ConnInv

LEMMA BusSignalsStep ==
  ASSUME ConnConstants, ConnInv, BusSignals
  PROVE  ConnInv'
<1>1. PICK m : m = [kind |-> "signal", serial |-> 0, to |-> "all"]
  BY Zenon
<1>2. /\ inbox' = Append(inbox, m)
      /\ UNCHANGED <<pc, serial, nextSerial, serialUsed, calls, out, taken, result, atBus>>
  BY <1>1 DEF BusSignals, BusSends, senders, completion, sigVars
<1>3. m \in Messages /\ m.kind = "signal"
  BY <1>1 DEF Messages
<1>4. /\ inbox' \in Seq(Messages) /\ AnsweredOnce' /\ \A q : Answered(q)' <=> Answered(q)
  BY <1>2, <1>3, InboxAppend DEF ConnInv
<1>5. ConnTypeOK'
  BY <1>2, <1>4 DEF ConnInv, ConnTypeOK
<1>6. Range(out)' = Range(out) /\ QueuedOnce' /\ OwnReply'
  BY <1>2 DEF Range, ConnInv, QueuedOnce, OwnReply
<1>7. InPlace'
  BY <1>2, <1>4, <1>6, Zenon DEF ConnInv, InPlace
<1>8. SerialsApart' /\ Entered'
  BY <1>2, <1>4, <1>6, OwnersStay, Zenon DEF ConnInv, Holds, Awaits
<1> QED BY <1>4, <1>5, <1>6, <1>7, <1>8, Zenon DEF ConnInv

LEMMA QuietSteps ==
  ASSUME ConnConstants, ConnInv
  PROVE  /\ \A c \in Calls : InEnds(c) => ConnInv'
         /\ LockSignals \/ Deliver \/ InError \/ InEnding \/ InEnded => ConnInv'
         /\ CloseSignals \/ CloseTransport \/ Signal \/ Eavesdrop \/ BusDies => ConnInv'
         /\ \A who : CloseOut(who) => ConnInv'
         /\ UNCHANGED vars => ConnInv'
<1> DEFINE Rest == <<pc, serial, nextSerial, serialUsed, calls, out, inbox, atBus, taken>>
<1>1. ASSUME UNCHANGED Rest, result' = result PROVE ConnInv'
  <2>1. result' \in [Calls -> {"none", "reply", "foreign", "error"}] /\ OwnReply'
    BY <1>1, Zenon DEF ConnInv, ConnTypeOK, OwnReply
  <2> QED BY <1>1, <2>1, Quiet, Zenon
<1>2. ASSUME NEW c \in Calls, InEnds(c) PROVE ConnInv'
  <2>1. UNCHANGED Rest /\ result' = [result EXCEPT ![c] = "error"]
    BY <1>2, Zenon DEF InEnds, senders, sigVars, busVars
  <2>2. result' \in [Calls -> {"none", "reply", "foreign", "error"}] /\ OwnReply'
    BY <2>1, Zenon DEF ConnInv, ConnTypeOK, OwnReply
  <2> QED BY <2>1, <2>2, Quiet, Zenon
<1>3. LockSignals \/ Deliver \/ InError \/ InEnding \/ InEnded => UNCHANGED Rest /\ result' = result
  BY Zenon DEF LockSignals, Deliver, InError, InEnding, InEnded, senders, completion, sigVars, busVars
<1>4. CloseSignals \/ CloseTransport \/ Signal \/ Eavesdrop \/ BusDies => UNCHANGED Rest /\ result' = result
  BY DEF CloseSignals, CloseTransport, Signal, Eavesdrop, BusDies, senders, completion, sigVars, busVars
<1>5. \A who : CloseOut(who) => UNCHANGED Rest /\ result' = result
  BY DEF CloseOut, senders, completion, sigVars, busVars
<1>6. UNCHANGED vars => UNCHANGED Rest /\ result' = result
  BY DEF vars, senders, completion, sigVars, busVars
<1> QED BY <1>1, <1>2, <1>3, <1>4, <1>5, <1>6, Zenon

LEMMA ConnStep ==
  ASSUME ConnConstants, ConnInv, [Next]_vars
  PROVE  ConnInv'
<1>1. ASSUME InEavesdropped \/ InSignal PROVE ConnInv'
  <2>1. /\ inbox # <<>> /\ inbox' = Tail(inbox)
        /\ UNCHANGED <<pc, serial, nextSerial, serialUsed, calls, out, atBus, taken, result>>
    BY <1>1 DEF InEavesdropped, InSignal, Reads, senders, completion, sigVars
  <2> QED BY <2>1, Dropped, Zenon
<1>2. Worker => ConnInv'
  BY <1>1, OutWorkerStep, InReplyStep, InCallStep, SignalHandlerStep, GetSerialStep, RegisterStep,
     EnqueueStep, SenderStep, QuietSteps, Zenon DEF Worker
<1>3. External => ConnInv'
  BY StartStep, BusMessagesStep, BusSignalsStep, QuietSteps, Zenon DEF External
<1> QED BY <1>2, <1>3, QuietSteps, Zenon DEF Next

LEMMA ConnStarts ==
  ASSUME ConnConstants, Init
  PROVE  ConnInv
<1>1. /\ pc = [p \in Proc |-> "idle"] /\ serial = [p \in Proc |-> 0] /\ nextSerial = 1 /\ serialUsed = {0}
      /\ calls = <<>> /\ out = <<>> /\ inbox = <<>> /\ taken = 0 /\ result = [c \in Calls |-> "none"]
      /\ atBus = {p \in Proc : Kind[p] = "answer"}
  BY DEF Init
<1>2. ConnTypeOK
  BY <1>1 DEF ConnTypeOK, ConnConstants, Serials
<1>3. Range(out) = {} /\ \A p : ~Answered(p)
  BY <1>1 DEF Range, Answered
<1>4. QueuedOnce /\ AnsweredOnce /\ OwnReply
  BY <1>1 DEF QueuedOnce, AnsweredOnce, OwnReply
<1>5. InPlace
  BY <1>1, <1>3, CallsAreSent, Zenon DEF InPlace, Calls
<1>6. \A p \in Proc : ~Holds(p) /\ (p \in Calls => ~Awaits(p)) /\ pc[p] # "send"
  BY <1>1, <1>3, Zenon DEF Holds, Awaits, Calls
<1> QED BY <1>2, <1>4, <1>5, <1>6, CallsAreSent, Zenon DEF ConnInv, SerialsApart, Entered

(* A serial has one owner from getSerial until it is given back, and what     *)
(* inWorker finds in calls for a reply is the call that the bus has answered: *)
(* for any number of senders, of serials, of signals and any capacities.      *)
THEOREM SerialsOwned ==
  ASSUME ConnConstants
  PROVE  Spec => []ConnInv
BY ConnStarts, ConnStep, PTL DEF Spec

(* A caller never gets the reply of another call, though getSerial gives the  *)
(* serials that outWorker and inWorker have freed to new messages.            *)
THEOREM RepliesOwn ==
  ASSUME ConnConstants
  PROVE  Spec => []OwnReply
<1>1. ConnInv => OwnReply
  BY DEF ConnInv
<1> QED BY <1>1, SerialsOwned, PTL

-----------------------------------------------------------------------------
(* The authentication before a connection is used, with constants and variables of its own *)

CONSTANTS Callers, Offers, UnixFDs, OkFields, MayFail
VARIABLES caller, lock, systemBus, open, count, at, attempts, state, cookie, unixFD, toBus, toMe, bus
Auth == INSTANCE DbusAuth WITH pc <- at

(* A line is put on an empty wire and taken off it. *)
LEMMA OneLine ==
  /\ \A x : Append(<<>>, x) = <<x>> /\ Head(<<x>>) = x /\ Tail(<<x>>) = <<>> /\ <<x>>[1] = x /\ <<x>> # <<>>
  /\ \A x, y : <<x, y>>[1] = x /\ <<x, y>>[2] = y
OBVIOUS

LEMMA Sends ==
  ASSUME NEW c, NEW n, NEW C, c \in C, toBus = <<>>, toMe = <<>>, Auth!authWriteLine(<<c, n>>), toMe' = toMe
  PROVE  Auth!Asked(C)'
<1> DEFINE x == <<c, n>>
<1>1. x[1] = c
  BY OneLine, Zenon
<1> HIDE DEF x
<1>2. toBus' = Append(<<>>, x)
  BY Zenon DEF Auth!authWriteLine, x
<1>3. toBus' = <<x>> /\ <<x>>[1] = x /\ <<x>> # <<>>
  BY <1>2, OneLine, Zenon
<1> QED BY <1>1, <1>3, Zenon DEF Auth!Asked, Auth!Only

LEMMA Takes ==
  ASSUME NEW C, Auth!Told(C), Auth!authReadLine
  PROVE  /\ toBus = <<>> /\ toMe' = <<>>
         /\ Auth!Cmd = toMe[1][1] /\ Auth!Cmd \in C /\ Auth!Fields = toMe[1][2]
BY OneLine, Zenon DEF Auth!Told, Auth!Only, Auth!authReadLine, Auth!Cmd, Auth!Fields

LEMMA NotBoth ==
  ASSUME NEW C, Auth!authReadLine
  PROVE  ~Auth!Asked(C)
BY Zenon DEF Auth!Asked, Auth!authReadLine

(* The connection ends: there is nothing to keep in step. *)
LEMMA FailKeeps ==
  ASSUME Auth!AuthInv, at' = "none", UNCHANGED <<bus, unixFD>>
  PROVE  Auth!AuthInv'
BY Zenon DEF Auth!AuthInv

LEMMA AuthInit == ASSUME Auth!Init PROVE Auth!AuthInv
BY DEF Auth!Init, Auth!AuthInv

(* What asks for the mechanisms, and for each of them in turn. *)
LEMMA ListKeeps ==
  ASSUME Auth!AuthInv, Auth!Dial \/ Auth!AskMechanisms \/ Auth!ReadMechanisms \/ Auth!Unknown \/ Auth!TryNext \/ Auth!NoneLeft
  PROVE  Auth!AuthInv'
<1>1. CASE Auth!Dial
  <2>1. PICK offer \in Offers : bus' = [at |-> "auth", offer |-> offer, fd |-> FALSE]
    BY <1>1, Zenon DEF Auth!Dial
  <2>2. /\ bus'.at = "auth" /\ bus'.fd = FALSE /\ bus' = [at |-> bus'.at, offer |-> bus'.offer, fd |-> bus'.fd]
        /\ "auth" \notin {"none", "dial", "list", "try", "ok", "fd", "begin", "hello"}
    BY <2>1
  <2> QED BY <1>1, <2>2, Zenon DEF Auth!Dial, Auth!AuthInv, Auth!Quiet
<1>2. CASE Auth!AskMechanisms
  <2>1. /\ at = "auth" /\ at' = "list" /\ Auth!authWriteLine(<<"AUTH", 0>>) /\ toMe' = toMe
        /\ UNCHANGED <<bus, unixFD, state>>
    BY <1>2, Zenon DEF Auth!AskMechanisms, Auth!auth
  <2>2. bus.at = "auth" /\ Auth!Quiet /\ ~unixFD /\ ~bus.fd
    BY <2>1, Zenon DEF Auth!AuthInv
  <2>3. Auth!Asked({"AUTH"})'
    BY <2>1, <2>2, Sends, Zenon DEF Auth!Quiet
  <2> QED BY <2>1, <2>2, <2>3 DEF Auth!AuthInv, Auth!Listing
<1>3. CASE Auth!ReadMechanisms
  <2>1. at = "list" /\ Auth!authReadLine /\ UNCHANGED <<bus, state, unixFD, toBus>>
    BY <1>3, Zenon DEF Auth!ReadMechanisms
  <2>2. bus.at = "auth" /\ Auth!Told({"REJECTED"}) /\ ~unixFD /\ ~bus.fd
    BY <2>1, NotBoth, Zenon DEF Auth!AuthInv, Auth!Listing
  <2>3. toBus = <<>> /\ toMe' = <<>>
    BY <2>1, <2>2, Takes, Zenon
  <2>4. at' \in {"next", "none"}
    BY <1>3, Zenon DEF Auth!ReadMechanisms, Auth!Fail, Auth!Return
  <2>5. CASE at' = "next"
    BY <2>1, <2>2, <2>3, <2>5 DEF Auth!AuthInv, Auth!Quiet
  <2> QED BY <2>1, <2>4, <2>5, FailKeeps, Zenon
<1>4. CASE Auth!Unknown
  <2>1. at = "next" /\ UNCHANGED <<at, state, unixFD, toBus, toMe, bus>>
    BY <1>4, Zenon DEF Auth!Unknown
  <2> QED BY <2>1 DEF Auth!AuthInv, Auth!Quiet
<1>5. CASE Auth!TryNext
  <2>1. /\ at = "next" /\ at' = "try" /\ Auth!authWriteLine(<<Head(attempts), 1>>) /\ toMe' = toMe
        /\ Head(attempts) \in {"EXTERNAL", "DBUS_COOKIE_SHA1"} /\ UNCHANGED <<bus, unixFD>>
        /\ state' = IF Head(attempts) = "EXTERNAL" THEN "waitingForOk" ELSE "waitingForData"
    BY <1>5, Zenon DEF Auth!TryNext, Auth!methods, Auth!FirstData
  <2>2. bus.at = "auth" /\ Auth!Quiet /\ ~unixFD /\ ~bus.fd
    BY <2>1, Zenon DEF Auth!AuthInv
  <2>3. CASE Head(attempts) = "EXTERNAL"
    <3>1. Auth!Asked({"EXTERNAL", "DATA"})'
      BY <2>1, <2>2, <2>3, Sends, Zenon DEF Auth!Quiet
    <3> QED BY <2>1, <2>2, <2>3, <3>1 DEF Auth!AuthInv, Auth!Asking
  <2>4. CASE Head(attempts) = "DBUS_COOKIE_SHA1"
    <3>1. Auth!Asked({"DBUS_COOKIE_SHA1", "ERROR"})'
      BY <2>1, <2>2, <2>4, Sends, Zenon DEF Auth!Quiet
    <3> QED BY <2>1, <2>2, <2>4, <3>1 DEF Auth!AuthInv, Auth!Asking
  <2> QED BY <2>1, <2>3, <2>4, Zenon
<1>6. CASE Auth!NoneLeft
  BY <1>6, FailKeeps, Zenon DEF Auth!NoneLeft, Auth!Fail, Auth!Return, Auth!auth
<1> QED BY <1>1, <1>2, <1>3, <1>4, <1>5, <1>6, Zenon

(* tryAuth, line by line: only REJECTED leads to the next mechanism, only OK to the end. *)
LEMMA Replies ==
  /\ \A st, n : Auth!OnLine(st, "REJECTED", n) = <<"", st, "next">>
  /\ \A n : \/ Auth!OnLine("waitingForData", "DATA", n) = <<"ERROR", "waitingForData", "try">>
            \/ Auth!OnLine("waitingForData", "DATA", n) = <<"DATA", "waitingForOk", "try">>
  /\ \A n : Auth!OnLine("waitingForOk", "DATA", n) = <<"CANCEL", "waitingForReject", "try">>
  /\ \A st \in {"waitingForData", "waitingForOk"} : Auth!OnLine(st, "OK", 1) = <<"", "waitingForReject", "ok">>
<1>1. ASSUME NEW st, NEW n PROVE Auth!OnLine(st, "REJECTED", n) = <<"", st, "next">>
  BY DEF Auth!OnLine
<1>2. ASSUME NEW n
      PROVE  \/ Auth!OnLine("waitingForData", "DATA", n) = <<"ERROR", "waitingForData", "try">>
             \/ Auth!OnLine("waitingForData", "DATA", n) = <<"DATA", "waitingForOk", "try">>
  BY DEF Auth!OnLine, Auth!HandleData, Auth!DataError
<1>3. ASSUME NEW n PROVE Auth!OnLine("waitingForOk", "DATA", n) = <<"CANCEL", "waitingForReject", "try">>
  BY DEF Auth!OnLine, Auth!AfterCancel
<1>4. ASSUME NEW st \in {"waitingForData", "waitingForOk"}
      PROVE  Auth!OnLine(st, "OK", 1) = <<"", "waitingForReject", "ok">>
  <2>1. Auth!AcceptOk(1) = <<"", "waitingForReject", "ok">>
    BY DEF Auth!AcceptOk
  <2>2. Auth!OnLine(st, "OK", 1) = Auth!AcceptOk(1)
    BY <1>4 DEF Auth!OnLine
  <2> QED BY <2>1, <2>2, Zenon
<1> QED BY <1>1, <1>2, <1>3, <1>4, Zenon

LEMMA TryKeeps ==
  ASSUME Auth!AuthInv, Auth!tryAuth
  PROVE  Auth!AuthInv'
<1> DEFINE r == Auth!OnLine(state, Auth!Cmd, Auth!Fields)
<1>1. /\ at = "try" /\ Auth!authReadLine /\ UNCHANGED <<bus, unixFD>>
      /\ r[1] = "" => toBus' = toBus
      /\ r[1] # "" => Auth!authWriteLine(<<r[1], IF r[1] = "DATA" THEN 1 ELSE 0>>)
      /\ state' = r[2] /\ (r[3] # "err" => at' = r[3])
  BY Zenon DEF Auth!tryAuth
<1>2. /\ Auth!Answered /\ ~unixFD /\ ~bus.fd /\ state \in {"waitingForData", "waitingForOk", "waitingForReject"}
      /\ bus = [at |-> bus.at, offer |-> bus.offer, fd |-> bus.fd] /\ bus.fd \in BOOLEAN /\ unixFD \in BOOLEAN
  BY <1>1, NotBoth, Zenon DEF Auth!AuthInv, Auth!Asking
<1>3. CASE bus.at = "auth" /\ Auth!Told({"REJECTED"})
  <2>1. toBus = <<>> /\ toMe' = <<>> /\ Auth!Cmd \in {"REJECTED"}
    BY <1>1, <1>3, Takes, Zenon
  <2>2. r = <<"", state, "next">>
    BY <2>1, Replies, Zenon
  <2>3. toBus' = <<>> /\ at' = "next"
    <3>1. r[1] = "" /\ r[3] = "next"
      <4> HIDE DEF r
      <4> QED BY <2>2
    <3>2. "next" # "err"
      OBVIOUS
    <3> QED BY <1>1, <2>1, <3>1, <3>2, Zenon
  <2> QED BY <1>1, <1>2, <1>3, <2>1, <2>3 DEF Auth!AuthInv, Auth!Quiet
<1>4. CASE bus.at = "data" /\ Auth!Told({"DATA"}) /\ state # "waitingForReject"
  <2>1. toBus = <<>> /\ toMe' = <<>> /\ Auth!Cmd \in {"DATA"}
    BY <1>1, <1>4, Takes, Zenon
  <2>2. \/ r = <<"ERROR", "waitingForData", "try">>
        \/ r = <<"DATA", "waitingForOk", "try">>
        \/ r = <<"CANCEL", "waitingForReject", "try">>
    BY <1>2, <1>4, <2>1, Replies, Zenon
  <2>3. /\ r[1] # "" /\ r[3] = "try"
        /\ \/ r[2] = "waitingForData" /\ r[1] \in {"DBUS_COOKIE_SHA1", "ERROR"}
           \/ r[2] = "waitingForOk" /\ r[1] \in {"EXTERNAL", "DATA"}
           \/ r[2] = "waitingForReject" /\ r[1] \in {"CANCEL"}
    <3>1. \/ r[1] = "ERROR" /\ r[2] = "waitingForData" /\ r[3] = "try"
          \/ r[1] = "DATA" /\ r[2] = "waitingForOk" /\ r[3] = "try"
          \/ r[1] = "CANCEL" /\ r[2] = "waitingForReject" /\ r[3] = "try"
      <4> HIDE DEF r
      <4> QED BY <2>2
    <3> HIDE DEF r
    <3> QED BY <3>1
  <2> HIDE DEF r
  <2>4. ASSUME NEW C, r[1] \in C PROVE Auth!Asked(C)'
    <3> DEFINE x == <<r[1], IF r[1] = "DATA" THEN 1 ELSE 0>>
    <3>1. x[1] = r[1]
      BY OneLine, Zenon
    <3>2. toBus' = Append(toBus, x)
      BY <1>1, <2>3, Zenon DEF Auth!authWriteLine
    <3> HIDE DEF x
    <3>3. toBus' = <<x>> /\ <<x>>[1] = x /\ <<x>> # <<>>
      BY <2>1, <3>2, OneLine, Zenon
    <3> QED BY <2>1, <2>4, <3>1, <3>3, Zenon DEF Auth!Asked, Auth!Only
  <2>5. at' = "try" /\ state' = r[2]
    BY <1>1, <2>3
  <2>6. Auth!Asking' /\ state' \in {"waitingForData", "waitingForOk", "waitingForReject"}
    BY <2>3, <2>4, <2>5, Zenon DEF Auth!Asking
  <2> QED BY <1>1, <1>2, <2>5, <2>6 DEF Auth!AuthInv
<1>5. CASE bus.at = "begin" /\ Auth!Told({"OK"}) /\ toMe[1][2] = 1 /\ state # "waitingForReject"
  <2>1. toBus = <<>> /\ toMe' = <<>> /\ Auth!Cmd \in {"OK"} /\ Auth!Fields = toMe[1][2]
    BY <1>1, <1>5, Takes, Zenon
  <2>2. r = <<"", "waitingForReject", "ok">>
    BY <1>2, <1>5, <2>1, Replies, Zenon
  <2>3. toBus' = <<>> /\ at' = "ok"
    <3>1. r[1] = "" /\ r[3] = "ok"
      <4> HIDE DEF r
      <4> QED BY <2>2
    <3>2. "ok" # "err"
      OBVIOUS
    <3> QED BY <1>1, <2>1, <3>1, <3>2, Zenon
  <2> QED BY <1>1, <1>2, <1>5, <2>1, <2>3 DEF Auth!AuthInv, Auth!Quiet
<1> QED BY <1>2, <1>3, <1>4, <1>5, Zenon DEF Auth!Answered

(* After OK: the agreement on descriptors, and BEGIN. *)
LEMMA AgreeKeeps ==
  ASSUME Auth!AuthInv, Auth!Negotiate \/ Auth!ReadAgreement \/ Auth!Begin \/ Auth!Hello
  PROVE  Auth!AuthInv'
<1>1. CASE Auth!Negotiate
  <2>1. /\ at = "ok" /\ UNCHANGED <<bus, unixFD, toMe>> /\ at' \in {"fd", "begin"}
        /\ at' = "fd" => Auth!authWriteLine(<<"NEGOTIATE_UNIX_FD", 0>>)
        /\ at' = "begin" => toBus' = toBus
    BY <1>1 DEF Auth!Negotiate, Auth!auth
  <2>2. bus.at = "begin" /\ Auth!Quiet /\ ~unixFD /\ ~bus.fd /\ unixFD \in BOOLEAN /\ bus.fd \in BOOLEAN
    BY <2>1, Zenon DEF Auth!AuthInv
  <2>3. CASE at' = "fd"
    <3>1. Auth!Asked({"NEGOTIATE_UNIX_FD"})'
      BY <2>1, <2>2, <2>3, Sends, Zenon DEF Auth!Quiet
    <3> QED BY <2>1, <2>2, <2>3, <3>1 DEF Auth!AuthInv, Auth!Negotiating
  <2>4. CASE at' = "begin"
    <3>1. unixFD' = bus'.fd
      BY <2>1, <2>2, Zenon
    <3> QED BY <2>1, <2>2, <2>4, <3>1 DEF Auth!AuthInv, Auth!Quiet
  <2> QED BY <2>1, <2>3, <2>4, Zenon
<1>2. CASE Auth!ReadAgreement
  <2>1. /\ at = "fd" /\ Auth!authReadLine /\ UNCHANGED <<bus, toBus>>
        /\ at' \in {"begin", "none"} /\ (at' = "begin" => unixFD' = (Auth!Cmd = "AGREE_UNIX_FD"))
        /\ at' = "none" => unixFD' = unixFD
    BY <1>2, Zenon DEF Auth!ReadAgreement, Auth!Agreed, Auth!Fail, Auth!Return
  <2>2. bus.at = "begin" /\ Auth!Told({IF bus.fd THEN "AGREE_UNIX_FD" ELSE "ERROR"}) /\ bus.fd \in BOOLEAN
    BY <2>1, NotBoth, Zenon DEF Auth!AuthInv, Auth!Negotiating
  <2>3. toBus = <<>> /\ toMe' = <<>> /\ Auth!Cmd \in {IF bus.fd THEN "AGREE_UNIX_FD" ELSE "ERROR"}
    BY <2>1, <2>2, Takes, Zenon
  <2>4. bus.fd = (Auth!Cmd = "AGREE_UNIX_FD")
    BY <2>2, <2>3
  <2>5. CASE at' = "begin"
    BY <2>1, <2>2, <2>3, <2>4, <2>5 DEF Auth!AuthInv, Auth!Quiet
  <2> QED BY <2>1, <2>5, FailKeeps, Zenon
<1>3. CASE Auth!Begin
  <2>1. /\ at = "begin" /\ at' = "hello" /\ Auth!authWriteLine(<<"BEGIN", 0>>) /\ toMe' = toMe
        /\ UNCHANGED <<bus, unixFD>>
    BY <1>3, Zenon DEF Auth!Begin, Auth!auth
  <2>2. Auth!Quiet /\ unixFD = bus.fd
    BY <2>1, Zenon DEF Auth!AuthInv
  <2>3. Auth!Asked({"BEGIN"})'
    BY <2>1, <2>2, Sends, Zenon DEF Auth!Quiet
  <2> QED BY <2>1, <2>2, <2>3 DEF Auth!AuthInv, Auth!Asked
<1>4. CASE Auth!Hello
  BY <1>4, FailKeeps, Zenon DEF Auth!Hello, Auth!Return, Auth!auth
<1> QED BY <1>1, <1>2, <1>3, <1>4, Zenon

(* The bus answers a line with one line; OK has its one field. *)
LEMMA BusAnswersWell ==
  ASSUME OkFields \subseteq {1}, NEW a
  PROVE  /\ \A c \in {"AUTH", "CANCEL", "ERROR"} :
               a \in Auth!Answers(c) => a[1][1] = "REJECTED" /\ a[2] = "auth"
         /\ \A c \in {"EXTERNAL", "DATA", "DBUS_COOKIE_SHA1"} : a \in Auth!Answers(c) =>
               \/ a[1][1] = "REJECTED" /\ a[2] = "auth"
               \/ a[1][1] = "DATA" /\ a[2] = "data"
               \/ a[1][1] = "OK" /\ a[1][2] = 1 /\ a[2] = "begin"
         /\ bus.at = "begin" /\ a \in Auth!Answers("NEGOTIATE_UNIX_FD") =>
               a[2] = "begin" /\ a[1][1] \in {"AGREE_UNIX_FD", "ERROR"}
<1>1. a = Auth!Rejected => a[1][1] = "REJECTED" /\ a[2] = "auth"
  BY DEF Auth!Rejected
<1>2. a \in Auth!Oks => a[1][1] = "OK" /\ a[1][2] = 1 /\ a[2] = "begin"
  BY DEF Auth!Oks
<1>3. ASSUME NEW n, a = <<<<"DATA", n>>, "data">> PROVE a[1][1] = "DATA" /\ a[2] = "data"
  BY <1>3
<1>4. ASSUME NEW c \in {"AUTH", "CANCEL", "ERROR"} PROVE Auth!Answers(c) = {Auth!Rejected}
  BY <1>4 DEF Auth!Answers
<1>5. /\ Auth!Answers("EXTERNAL") = {Auth!Rejected, <<<<"DATA", 0>>, "data">>} \cup Auth!Oks
      /\ Auth!Answers("DATA") = {Auth!Rejected} \cup Auth!Oks
      /\ Auth!Answers("DBUS_COOKIE_SHA1") = {Auth!Rejected} \cup {<<<<"DATA", n>>, "data">> : n \in {0, 1}}
  BY DEF Auth!Answers
<1>6. ASSUME bus.at = "begin", a \in Auth!Answers("NEGOTIATE_UNIX_FD")
      PROVE  a[2] = "begin" /\ a[1][1] \in {"AGREE_UNIX_FD", "ERROR"}
  <2>1. Auth!Answers("NEGOTIATE_UNIX_FD") = {<<<<c, 0>>, "begin">> : c \in {"AGREE_UNIX_FD", "ERROR"}}
    BY <1>6 DEF Auth!Answers
  <2>2. PICK c \in {"AGREE_UNIX_FD", "ERROR"} : a = <<<<c, 0>>, "begin">>
    BY <1>6, <2>1, Zenon
  <2> QED BY <2>2
<1>7. ASSUME NEW c \in {"EXTERNAL", "DATA", "DBUS_COOKIE_SHA1"}, a \in Auth!Answers(c)
      PROVE  \/ a[1][1] = "REJECTED" /\ a[2] = "auth"
             \/ a[1][1] = "DATA" /\ a[2] = "data"
             \/ a[1][1] = "OK" /\ a[1][2] = 1 /\ a[2] = "begin"
  <2>1. a = Auth!Rejected \/ a \in Auth!Oks \/ \E n : a = <<<<"DATA", n>>, "data">>
    BY <1>5, <1>7, Zenon
  <2> QED BY <1>1, <1>2, <1>3, <2>1, Zenon
<1>8. ASSUME NEW c \in {"AUTH", "CANCEL", "ERROR"}, a \in Auth!Answers(c) PROVE a[1][1] = "REJECTED" /\ a[2] = "auth"
  BY <1>1, <1>4, <1>8, Zenon
<1> QED BY <1>6, <1>7, <1>8, Zenon

LEMMA BusKeeps ==
  ASSUME OkFields \subseteq {1}, Auth!AuthInv, Auth!BusAnswers \/ Auth!BusBegins
  PROVE  Auth!AuthInv'
<1>a. toBus # <<>> /\ UNCHANGED <<at, state, unixFD>>
  BY Zenon DEF Auth!BusAnswers, Auth!BusBegins, Auth!auth
<1>b. /\ bus = [at |-> bus.at, offer |-> bus.offer, fd |-> bus.fd] /\ bus.fd \in BOOLEAN /\ unixFD \in BOOLEAN
      /\ at \in {"none", "dial", "auth", "list", "next", "try", "ok", "fd", "begin", "hello"}
  BY Zenon DEF Auth!AuthInv
<1>c. at \notin {"auth", "next", "ok", "begin"}
  BY <1>a, Zenon DEF Auth!AuthInv, Auth!Quiet
<1>d. ASSUME NEW C PROVE ~Auth!Told(C)
  BY <1>a, Zenon DEF Auth!Told
<1>1. CASE Auth!BusBegins
  <2>1. /\ bus' = [bus EXCEPT !.at = "up"] /\ toBus' = Tail(toBus) /\ toMe' = toMe /\ Head(toBus)[1] = "BEGIN"
    BY <1>1, Zenon DEF Auth!BusBegins
  <2>2. bus' = [at |-> bus'.at, offer |-> bus'.offer, fd |-> bus'.fd] /\ bus'.fd = bus.fd
    BY <1>b, <2>1
  <2>3. ASSUME NEW C, Auth!Asked(C) PROVE "BEGIN" \in C
    <3>1. toBus = <<toBus[1]>> /\ toBus[1][1] \in C
      BY <2>3, Zenon DEF Auth!Asked, Auth!Only
    <3>2. Head(toBus) = toBus[1]
      BY <3>1, OneLine, Zenon
    <3> QED BY <2>1, <3>1, <3>2, Zenon
  <2>4. at \in {"none", "dial", "hello"}
    <3>1. "BEGIN" \notin {"AUTH"} \cup {"NEGOTIATE_UNIX_FD"} \cup {"EXTERNAL", "DATA"} \cup {"DBUS_COOKIE_SHA1", "ERROR"} \cup {"CANCEL"}
      OBVIOUS
    <3>2. at # "list" /\ at # "fd"
      BY <1>d, <2>3, <3>1, Zenon DEF Auth!AuthInv, Auth!Listing, Auth!Negotiating
    <3>3. at # "try"
      BY <1>d, <2>3, <3>1, Zenon DEF Auth!AuthInv, Auth!Asking, Auth!Answered
    <3> QED BY <1>b, <1>c, <3>2, <3>3, Zenon
  <2>5. CASE at = "hello"
    <3>1. toMe = <<>> /\ unixFD = bus.fd /\ Auth!Only(toBus, {"BEGIN"})
      BY <1>a, <2>5, Zenon DEF Auth!AuthInv
    <3>2. toBus' = <<>>
      BY <2>1, <3>1, OneLine, Zenon DEF Auth!Only
    <3> QED BY <1>a, <1>b, <2>1, <2>2, <2>5, <3>1, <3>2 DEF Auth!AuthInv
  <2>6. CASE at \in {"none", "dial"}
    BY <1>a, <1>b, <2>1, <2>2, <2>6 DEF Auth!AuthInv
  <2> QED BY <2>4, <2>5, <2>6, Zenon
<1>2. CASE Auth!BusAnswers
  <2> DEFINE cmd == Head(toBus)[1]
  <2>1. PICK a \in Auth!Answers(cmd) :
          toMe' = Append(toMe, a[1]) /\ bus' = [bus EXCEPT !.at = a[2], !.fd = a[1][1] = "AGREE_UNIX_FD"]
    BY <1>2, Zenon DEF Auth!BusAnswers
  <2>2. toBus' = Tail(toBus) /\ cmd # "BEGIN"
    BY <1>2, Zenon DEF Auth!BusAnswers
  <2>3. /\ bus' = [at |-> bus'.at, offer |-> bus'.offer, fd |-> bus'.fd] /\ bus'.at = a[2]
        /\ bus'.fd = (a[1][1] = "AGREE_UNIX_FD")
    BY <1>b, <2>1
  <2>4. ASSUME NEW C, NEW D, Auth!Asked(C), a[1][1] \in D PROVE cmd \in C /\ Auth!Told(D)' /\ toMe'[1] = a[1]
    <3>1. toBus = <<toBus[1]>> /\ toBus[1][1] \in C /\ toMe = <<>>
      BY <2>4, Zenon DEF Auth!Asked, Auth!Only
    <3>2. cmd = toBus[1][1] /\ toBus' = <<>>
      BY <2>2, <3>1, OneLine, Zenon
    <3>3. toMe' = <<a[1]>> /\ <<a[1]>>[1] = a[1] /\ <<a[1]>> # <<>>
      BY <2>1, <3>1, OneLine, Zenon
    <3> QED BY <2>4, <3>1, <3>2, <3>3, Zenon DEF Auth!Told, Auth!Only
  <2> HIDE DEF cmd
  <2>5. CASE at \in {"none", "dial"}
    BY <1>a, <1>b, <2>3, <2>5 DEF Auth!AuthInv
  <2>6. CASE at = "list"
    <3>1. bus.at = "auth" /\ Auth!Asked({"AUTH"}) /\ ~unixFD
      BY <1>d, <2>6, Zenon DEF Auth!AuthInv, Auth!Listing
    <3>2. cmd \in {"AUTH"}
      BY <2>4, <3>1, Zenon
    <3>3. a[1][1] = "REJECTED" /\ a[2] = "auth"
      BY <2>1, <3>2, BusAnswersWell, Zenon
    <3>4. Auth!Told({"REJECTED"})'
      BY <2>4, <3>1, <3>3, Zenon
    <3> QED BY <1>a, <1>b, <2>3, <2>6, <3>1, <3>3, <3>4 DEF Auth!AuthInv, Auth!Listing
  <2>7. CASE at = "try"
    <3>1. Auth!Asking /\ ~unixFD /\ state \in {"waitingForData", "waitingForOk", "waitingForReject"}
      BY <1>d, <2>7, Zenon DEF Auth!AuthInv, Auth!Answered
    <3>2. \E C \in {{"EXTERNAL", "DATA"}, {"DBUS_COOKIE_SHA1", "ERROR"}, {"CANCEL"}} :
             Auth!Asked(C) /\ (state = "waitingForReject" => C = {"CANCEL"})
      <4>1. "waitingForReject" # "waitingForOk" /\ "waitingForReject" # "waitingForData"
        OBVIOUS
      <4> QED BY <3>1, <4>1, Zenon DEF Auth!Asking
    <3>3. PICK C \in {{"EXTERNAL", "DATA"}, {"DBUS_COOKIE_SHA1", "ERROR"}, {"CANCEL"}} :
             Auth!Asked(C) /\ (state = "waitingForReject" => C = {"CANCEL"})
      BY <3>2, Zenon
    <3>4. cmd \in C /\ \A D : a[1][1] \in D => Auth!Told(D)' /\ toMe'[1] = a[1]
      <4>1. cmd \in C
        BY <2>4, <3>3, Zenon
      <4>2. ASSUME NEW D, a[1][1] \in D PROVE Auth!Told(D)' /\ toMe'[1] = a[1]
        BY <2>4, <3>3, <4>2, Zenon
      <4> QED BY <4>1, <4>2, Zenon
    <3>5. /\ cmd \in {"EXTERNAL", "DATA", "DBUS_COOKIE_SHA1", "ERROR", "CANCEL"}
          /\ state = "waitingForReject" => cmd = "CANCEL"
      BY <3>3, <3>4, Zenon
    <3>6. \/ a[1][1] = "REJECTED" /\ a[2] = "auth"
          \/ a[1][1] = "DATA" /\ a[2] = "data" /\ state # "waitingForReject"
          \/ a[1][1] = "OK" /\ a[1][2] = 1 /\ a[2] = "begin" /\ state # "waitingForReject"
      BY <2>1, <3>5, BusAnswersWell, Zenon
    <3>7. Auth!Answered'
      BY <1>a, <2>3, <3>4, <3>6, Zenon DEF Auth!Answered
    <3>8. ~bus'.fd
      BY <2>3, <3>6
    <3> QED BY <1>a, <1>b, <2>3, <2>7, <3>1, <3>7, <3>8 DEF Auth!AuthInv
  <2>8. CASE at = "fd"
    <3>1. bus.at = "begin" /\ Auth!Asked({"NEGOTIATE_UNIX_FD"})
      BY <1>d, <2>8, Zenon DEF Auth!AuthInv, Auth!Negotiating
    <3>2. cmd \in {"NEGOTIATE_UNIX_FD"}
      BY <2>4, <3>1, Zenon
    <3>3. a[2] = "begin" /\ a[1][1] \in {"AGREE_UNIX_FD", "ERROR"}
      BY <2>1, <3>1, <3>2, BusAnswersWell, Zenon
    <3>4. a[1][1] \in {IF bus'.fd THEN "AGREE_UNIX_FD" ELSE "ERROR"}
      BY <2>3, <3>3
    <3>5. Auth!Told({IF bus.fd THEN "AGREE_UNIX_FD" ELSE "ERROR"})'
      BY <2>4, <3>1, <3>4, Zenon
    <3> QED BY <1>a, <1>b, <2>3, <2>8, <3>3, <3>5 DEF Auth!AuthInv, Auth!Negotiating
  <2>9. CASE at = "hello"
    <3>1. toBus = <<toBus[1]>> /\ toBus[1][1] \in {"BEGIN"}
      BY <1>a, <2>9, Zenon DEF Auth!AuthInv, Auth!Only
    <3> QED BY <2>2, <3>1, OneLine, Zenon DEF cmd
  <2> QED BY <1>b, <1>c, <2>5, <2>6, <2>7, <2>8, <2>9, Zenon
<1> QED BY <1>1, <1>2, Zenon

LEMMA AuthStep ==
  ASSUME OkFields \subseteq {1}, Auth!AuthInv, [Auth!Next]_Auth!vars
  PROVE  Auth!AuthInv'
<1>1. CASE UNCHANGED Auth!vars
  <2>1. UNCHANGED <<at, bus, state, unixFD, toBus, toMe>>
    BY <1>1, Zenon DEF Auth!vars, Auth!auth
  <2> QED BY <2>1, Zenon DEF Auth!AuthInv, Auth!Quiet, Auth!Listing, Auth!Asking, Auth!Answered, Auth!Negotiating,
       Auth!Asked, Auth!Told, Auth!Only
<1>2. CASE Auth!DialFails \/ Auth!Lost
  BY <1>2, FailKeeps, Zenon DEF Auth!DialFails, Auth!Lost, Auth!Fail, Auth!Return, Auth!auth
<1>3. ASSUME NEW c \in Callers, Auth!SystemBus(c) PROVE Auth!AuthInv'
  <2>1. /\ at' \in {at, "dial"} /\ UNCHANGED <<bus, state, unixFD, toBus, toMe>>
    BY <1>3, Zenon DEF Auth!SystemBus, Auth!auth
  <2>2. CASE at' = at
    BY <2>1, <2>2, Zenon DEF Auth!AuthInv, Auth!Quiet, Auth!Listing, Auth!Asking, Auth!Answered, Auth!Negotiating,
       Auth!Asked, Auth!Told, Auth!Only
  <2>3. CASE at' = "dial"
    BY <2>1, <2>3, Zenon DEF Auth!AuthInv
  <2> QED BY <2>1, <2>2, <2>3, Zenon
<1> QED BY <1>1, <1>2, <1>3, ListKeeps, TryKeeps, AgreeKeeps, BusKeeps, Zenon DEF Auth!Next, Auth!Holder, Auth!Bus

(* Auth and tryAuth: whatever mechanisms a bus offers, in whatever order, and however it refuses
   them, the next one is tried only when the answer to the last one has been read, and after BEGIN
   both sides agree on descriptors and no line of the authentication is left for inWorker. The bus
   puts one field after OK, as tryAuth expects. *)
THEOREM AuthInStep == ASSUME OkFields \subseteq {1} PROVE Auth!Spec => []Auth!InStep
<1>1. Auth!AuthInv => Auth!InStep
  BY Zenon DEF Auth!AuthInv, Auth!Quiet, Auth!InStep
<1> QED BY <1>1, AuthInit, AuthStep, PTL DEF Auth!Spec
=============================================================================
