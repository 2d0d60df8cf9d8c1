---- MODULE MCNetlink ----
(* Instances of the modules of the netlink package for TLC, side by side: a behaviour chooses
   a part and stays in it, the variables of the other parts keep their first values. *)
EXTENDS Naturals, TLC

VARIABLES part,
    links, last, old, lookupByDump, todo, obj, count, ret, pos, got, kept, sent, claims, steady,
    attrs, cut, out,                    \* RtAttr
    given, request, listed,             \* NetlinkAttrs
    table, clock, latest, done          \* NetlinkTc

linkVars == <<links, last, old, lookupByDump, todo, obj, count, ret, pos, got, kept, sent, claims, steady>>
treeVars == <<attrs, cut, out>>
objectVars == <<given, request, listed>>
tcVars == <<table, clock, latest, done>>

(* Two callers create, enslave, rename, delete and list links; one caller uses every operation
   while Receive fails. *)
Races == INSTANCE Netlink WITH Procs <- {"p", "q"}, Names <- {"br", "a"}, Bridge <- "br",
    Ops <- {"LinkAdd", "LinkDel", "LinkSetName", "LinkList"},
    MaxOps <- 2, MaxIndex <- 3, Namespaces <- FALSE, OldKernels <- {FALSE, TRUE}, Faults <- FALSE
AllOps == {"LinkAdd", "LinkDel", "LinkSetNsPid", "LinkSetNsFd", "LinkSetDown", "LinkSetUp", "LinkSetMTU",
    "LinkSetHardwareAddr", "LinkSetMaster", "LinkSetNoMaster", "LinkSetHairpin", "LinkSetGuard",
    "LinkSetFastLeave", "LinkSetLearning", "LinkSetRootBlock", "LinkSetFlood", "LinkList",
    "AddrAdd", "AddrDel", "AddrList", "RouteAdd", "RouteDel", "RouteList",
    "NeighAdd", "NeighSet", "NeighAppend", "NeighDel", "NeighList"}
Alone == INSTANCE Netlink WITH Procs <- {"p"}, Names <- {"br", "a"}, Bridge <- "br", Ops <- AllOps,
    MaxOps <- 2, MaxIndex <- 2, Namespaces <- TRUE, OldKernels <- {FALSE, TRUE}, Faults <- TRUE

(* Both have what the proofs about Netlink ask of its constants. *)
ASSUME ConstantsFit == Races!LinkConstants /\ Alone!LinkConstants

(* Trees of attributes with types of one byte and of two, and data of 0 to 5 bytes. *)
Tree == INSTANCE RtAttr WITH Types <- {1, 300}, MaxData <- 5, MaxCut <- 8
Objects == INSTANCE NetlinkAttrs WITH obj <- given, sent <- request, got <- listed

(* Several operations on htb beside other programs, and every kind of options. *)
Tables == INSTANCE NetlinkTc WITH U <- 64, Rates <- {16, 40}, Kinds <- {"htb"}, Others <- {"fq", "basic"},
    MaxOps <- 3, last <- latest, count <- done
Options == INSTANCE NetlinkTc WITH U <- 64, Rates <- {4, 40, 600}, Kinds <- {"prio", "htb", "tbf", "netem"},
    Others <- {}, MaxOps <- 2, last <- latest, count <- done

Init ==
    /\ part \in {"races", "alone", "tree", "objects", "tables", "options"}
    /\ IF part = "alone" THEN Alone!Init ELSE Races!Init /\ (part = "races" \/ ~old)
    /\ IF part = "tree" THEN Tree!Init ELSE attrs = <<>> /\ cut = 0 /\ out = <<>>
    /\ IF part = "objects" THEN Objects!Init ELSE given = <<>> /\ request = <<>> /\ listed = <<>>
    /\ Tables!Init /\ (part \in {"tables", "options"} \/ clock = 0)
InRaces == part = "races" /\ Races!Next /\ UNCHANGED <<part, treeVars, objectVars, tcVars>>
InAlone == part = "alone" /\ Alone!Next /\ UNCHANGED <<part, treeVars, objectVars, tcVars>>
InTree == part = "tree" /\ Tree!Next /\ UNCHANGED <<part, linkVars, objectVars, tcVars>>
InObjects == part = "objects" /\ Objects!Next /\ UNCHANGED <<part, linkVars, treeVars, tcVars>>
InTables == part = "tables" /\ Tables!Next /\ UNCHANGED <<part, linkVars, treeVars, objectVars>>
InOptions == part = "options" /\ Options!Next /\ UNCHANGED <<part, linkVars, treeVars, objectVars>>
Next == InRaces \/ InAlone \/ InTree \/ InObjects \/ InTables \/ InOptions
Spec == Init /\ [][Next]_<<part, linkVars, treeVars, objectVars, tcVars>>

(* ensureIndex: an operation on a link given by name goes to the device that bore the name
   during the whole call. *)
TargetsNamed == /\ part = "races" => Races!TargetsNamed
                /\ part = "alone" => Alone!TargetsNamed

(* Execute with NLM_F_DUMP: what was there from the first to the last answer is listed. *)
SteadyIsListed == /\ part = "races" => Races!SteadyIsListed
                  /\ part = "alone" => Alone!SteadyIsListed

(* An operation that returned nil was carried out by the kernel. *)
NilMeansDone == /\ part = "races" => Races!NilMeansDone
                /\ part = "alone" => Alone!NilMeansDone

(* ParseRouteAttr reads what RtAttr.Serialize wrote, and never past the end of what is left of it. *)
TreeComesBack == part = "tree" => Tree!RoundTrip

(* Links, addresses, routes and neighbours are listed as they were added. *)
ObjectsComeBack == part = "objects" => Objects!ObjectsComeBack

(* An operation of traffic control leaves alone what it does not name. *)
OthersStay == /\ part = "tables" => Tables!OthersStay
              /\ part = "options" => Options!OthersStay

(* Qdiscs, classes and filters are listed as they were given. *)
ListedAsGiven == /\ part = "tables" => Tables!ListedAsGiven
                 /\ part = "options" => Options!ListedAsGiven

(* adjustSize and CalcRtable: the cells of a policed rate reach up to its MTU. *)
CellsCoverMtu == part = "tables" => Tables!CellsCoverMtu
====
