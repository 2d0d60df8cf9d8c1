---- MODULE PluginStart ----
(* The start of the plugin, in detail: NewDriver connects to ovsdb-server, registers
   for notifications, asks for a snapshot of all tables and enters it into the
   cache, while the goroutines that rpc2 starts for update notifications do the
   same with theirs, and monitorBridges takes them over one at a time through an
   unbuffered channel. Other users of the database (ovs-vsctl, ovs-vswitchd) change
   it all along. The rpc2 client appears as its RpcService: calls that succeed or
   fail, notifications handled in any order. *)
EXTENDS Naturals, FiniteSets

CONSTANTS
    Row,        \* rows of the database, by uuid: never reused
    Root,       \* the row of table Open_vSwitch
    Foreign,    \* bound: the rows, Root among them, that other users change
    Retries,    \* attempts to connect
    MayRename,  \* somebody renames bridges (the schema of Open vSwitch forbids it)
    InFlight    \* bound: updates under way at a time

VARIABLES
    main,       \* the main goroutine: the call it makes next
    attempt,    \* i of the loop in NewDriver
    conn,       \* the connection: "none" | "open" | "broken"
    registered, \* connections[c] is set
    handlers,   \* the notifier is in ovs.handlers
    watcher,    \* handleDisconnectNotification has cleared the connection
    db,         \* the database: per row "none", "new", "changed" or "gone"
    monitored,  \* ovsdb-server sends updates
    snapshot,   \* initCache, the reply of MonitorAll
    updates,    \* update notifications: [row, ver, renamed, at], `at` being "wire", "check",
                \* "Update", "populateCache" or "channel"
    cache,      \* ovsdbCache: per row the version it holds, or "none"
    monitor,    \* monitorBridges: "none" | "receive" | "recreate"
    death       \* why the process ended, or "no"

vars == <<main, attempt, conn, registered, handlers, watcher, db, monitored, snapshot, updates,
          cache, monitor, death>>

Present == {"new", "changed"}
Started == {"populateContextCache", "getRootUUID", "serving"}

Empty == [r \in Row |-> "none"]

Init ==
    /\ main = "Connect" /\ attempt = 0 /\ conn = "none"
    /\ registered = FALSE /\ handlers = FALSE /\ watcher = FALSE
    /\ db \in {d \in [Row -> {"none", "new"}] : \A r \in Row \ Foreign : d[r] = "none"}
    /\ monitored = FALSE
    /\ snapshot = Empty /\ cache = Empty
    /\ updates = {}
    /\ monitor = "none" /\ death = "no"

----
(* The main goroutine *)

At(l) == death = "no" /\ main = l
Die(why) == death' = why

LastAttempt == attempt + 1 = Retries

Connected == conn' = "open" /\ main' = "newOvsdbClient" /\ UNCHANGED <<attempt, death>>
NotConnected ==
    /\ attempt' = attempt + 1
    /\ IF LastAttempt THEN Die("gave up") ELSE UNCHANGED death
    /\ main' = "Connect"

(* NewDriver's loop over libovsdb.Connect; main panics when it gives up. *)
Connect ==
    /\ At("Connect")
    /\ Connected \/ (NotConnected /\ UNCHANGED conn)
    /\ registered' = FALSE /\ watcher' = FALSE
    /\ UNCHANGED <<handlers, db, monitored, snapshot, updates, cache, monitor>>

(* The reading goroutine and the watcher already run when the connection is
   entered into `connections`. *)
newOvsdbClient ==
    /\ At("newOvsdbClient")
    /\ registered' = TRUE
    /\ main' = "ListDbs"
    /\ UNCHANGED <<attempt, conn, handlers, watcher, db, monitored, snapshot, updates, cache,
                   monitor, death>>

(* log.Fatal on failure. *)
ListDbs ==
    /\ At("ListDbs")
    /\ \/ conn = "open" /\ main' = "GetSchema" /\ UNCHANGED death
       \/ conn = "broken" /\ Die("ListDbs") /\ UNCHANGED main
    /\ UNCHANGED <<attempt, conn, registered, handlers, watcher, db, monitored, snapshot, updates,
                   cache, monitor>>

(* A failure makes Connect fail: the next attempt opens a connection of its own. *)
GetSchema ==
    /\ At("GetSchema")
    /\ \/ conn = "open" /\ main' = "Register" /\ UNCHANGED <<attempt, conn, death>>
       \/ NotConnected /\ conn' = "none"
    /\ UNCHANGED <<registered, handlers, watcher, db, monitored, snapshot, updates, cache, monitor>>

(* The loop of NewDriver is over, and its counter with it. *)
Register ==
    /\ At("Register")
    /\ handlers' = TRUE
    /\ main' = "MonitorAll" /\ attempt' = 0
    /\ UNCHANGED <<conn, registered, watcher, db, monitored, snapshot, updates, cache,
                   monitor, death>>

(* An error is logged and then a nil *initCache is dereferenced. *)
MonitorAll ==
    /\ At("MonitorAll")
    /\ \/ /\ conn = "open"
          /\ monitored' = TRUE /\ snapshot' = db
          /\ main' = "populateCache" /\ UNCHANGED death
       \/ /\ conn = "broken"
          /\ Die("MonitorAll") /\ UNCHANGED <<main, monitored, snapshot>>
    /\ UNCHANGED <<attempt, conn, registered, handlers, watcher, db, updates, cache, monitor>>

(* populateCache: a row with a new version is entered, one without is deleted. *)
Entered(v) == IF v \in Present THEN v ELSE "none"
SnapshotRows == {r \in Row : snapshot[r] \in Present}

SnapshotOnly(r) == Entered(snapshot[r])     \* mutant: the snapshot replaces the cache
AfterSnapshot(r) == IF r \in SnapshotRows THEN snapshot[r] ELSE cache[r]

(* initCache is not used again. *)
populateSnapshot ==
    /\ At("populateCache")
    /\ cache' = [r \in Row |-> AfterSnapshot(r)]
    /\ main' = "populateContextCache" /\ snapshot' = Empty
    /\ UNCHANGED <<attempt, conn, registered, handlers, watcher, db, monitored, updates, monitor,
                   death>>

NotStarted == "none"    \* mutant: monitorBridges is not started
MonitorStarted == "receive"

(* contextCache, which nobody reads, is filled; then monitorBridges is started. *)
populateContextCache ==
    /\ At("populateContextCache")
    /\ monitor' = MonitorStarted
    /\ main' = "getRootUUID"
    /\ UNCHANGED <<attempt, conn, registered, handlers, watcher, db, monitored, snapshot, updates,
                   cache, death>>

RootCached == cache[Root] # "none"

getRootUUID ==
    /\ At("getRootUUID") /\ RootCached
    /\ main' = "serving"
    /\ UNCHANGED <<attempt, conn, registered, handlers, watcher, db, monitored, snapshot, updates,
                   cache, monitor, death>>

----
(* Update notifications, each in a goroutine of rpc2 *)

Move(u, stage) == updates' = (updates \ {u}) \cup {[u EXCEPT !.at = stage]}
AtStage(u, stage) == death = "no" /\ u \in updates /\ u.at = stage
StartVars == <<main, attempt, conn, registered, handlers, watcher, db, monitored, snapshot>>

(* readLoop reads the message and starts a goroutine; a broken connection loses it. *)
StartGoroutine(u) ==
    /\ AtStage(u, "wire")
    /\ Move(u, "check") \/ (conn = "broken" /\ updates' = updates \ {u})
    /\ UNCHANGED <<StartVars, cache, monitor, death>>

(* libovsdb.update looks the connection up, and then again for its handlers: a nil
   connection is dereferenced when it was cleared in between. *)
checkConnection(u) ==
    /\ AtStage(u, "check")
    /\ IF registered THEN Move(u, "Update") ELSE updates' = updates \ {u}
    /\ UNCHANGED <<StartVars, cache, monitor, death>>

callHandlers(u) ==
    /\ AtStage(u, "Update")
    /\ IF registered
         THEN /\ IF handlers THEN Move(u, "populateCache") ELSE updates' = updates \ {u}
              /\ UNCHANGED death
         ELSE Die("nil connection") /\ UNCHANGED updates
    /\ UNCHANGED <<StartVars, cache, monitor>>

populateUpdate(u) ==
    /\ AtStage(u, "populateCache")
    /\ cache' = [cache EXCEPT ![u.row] = Entered(u.ver)]
    /\ Move(u, "channel")
    /\ UNCHANGED <<StartVars, monitor, death>>

(* The Go runtime ends the process when it sees two goroutines write one map. *)
mapRace ==
    /\ death = "no"
    /\ \E u \in updates : u.at = "populateCache" /\
         (main = "populateCache" \/ \E v \in updates \ {u} : v.at = "populateCache")
    /\ Die("map race")
    /\ UNCHANGED <<StartVars, updates, cache, monitor>>

(* update <- &tableUpdates meets <-update: a bridge that has a new version and an old
   name is created again under the old name. *)
monitorBridges(u) ==
    /\ AtStage(u, "channel") /\ monitor = "receive"
    /\ updates' = updates \ {u}
    /\ monitor' = IF u.ver \in Present /\ u.renamed THEN "recreate" ELSE "receive"
    /\ UNCHANGED <<StartVars, cache, death>>

Announce(r, v, renamed) ==
    updates' = IF monitored /\ conn = "open"
                 THEN updates \cup {[row |-> r, ver |-> v, renamed |-> renamed, at |-> "wire"]}
                 ELSE updates

recreateBridge ==
    /\ death = "no" /\ monitor = "recreate"
    /\ monitor' = "receive"
    /\ \/ /\ conn = "open"
          /\ \E r \in Row \ {Root} :
               db[r] = "none" /\ db' = [db EXCEPT ![r] = "new"] /\ Announce(r, "new", FALSE)
       \/ UNCHANGED <<db, updates>>
    /\ UNCHANGED <<main, attempt, conn, registered, handlers, watcher, monitored, snapshot, cache,
                   death>>

----
(* libovsdb: the goroutine that waits for the end of the connection *)

clearConnection ==
    /\ death = "no" /\ conn = "broken" /\ ~watcher
    /\ watcher' = TRUE
    /\ registered' = FALSE
    /\ UNCHANGED <<main, attempt, conn, handlers, db, monitored, snapshot, updates, cache, monitor,
                   death>>

----
(* The database and the network (external), followed while the process lives *)

Change(r, v, renamed) ==
    /\ death = "no" /\ Cardinality(updates) < InFlight
    /\ db' = [db EXCEPT ![r] = v]
    /\ Announce(r, v, renamed)
    /\ UNCHANGED <<main, attempt, conn, registered, handlers, watcher, monitored, snapshot, cache,
                   monitor, death>>

InsertRow(r) == db[r] = "none" /\ Change(r, "new", FALSE)
ModifyRow(r) == db[r] = "new" /\ \E n \in {FALSE, MayRename /\ r # Root} : Change(r, "changed", n)
DeleteRow(r) == db[r] \in Present /\ r # Root /\ Change(r, "gone", FALSE)

Break ==
    /\ death = "no" /\ conn = "open"
    /\ conn' = "broken"
    /\ UNCHANGED <<main, attempt, registered, handlers, watcher, db, monitored, snapshot, updates,
                   cache, monitor, death>>

----
Main ==
    \/ Connect \/ newOvsdbClient \/ ListDbs \/ GetSchema \/ Register \/ MonitorAll
    \/ populateSnapshot \/ populateContextCache \/ getRootUUID
Goroutine(u) ==
    StartGoroutine(u) \/ checkConnection(u) \/ callHandlers(u) \/ populateUpdate(u) \/ monitorBridges(u)

Next ==
    \/ Main
    \/ \E u \in updates : Goroutine(u)
    \/ mapRace
    \/ recreateBridge
    \/ clearConnection
    \/ \E r \in Foreign : InsertRow(r) \/ ModifyRow(r) \/ DeleteRow(r)
    \/ Break

Spec == Init /\ [][Next]_vars

----
(* Properties *)

(* No row is invisible for good: when the start has entered the snapshot and no update
   is under way, every row of the database is in the cache, although the snapshot,
   older than the updates that overtake it, is entered last. Deletions of bridges
   and ports, and createOvsdbBridge's root, depend on it. *)
CacheMissesNothing ==
    (death = "no" /\ conn = "open" /\ main \in Started
       /\ \A u \in updates : u.at = "channel")
      => \A r \in Row : db[r] \in Present => cache[r] # "none"

(* The inductive invariant behind it. A row of the database is in the cache, or an update that
   has yet to be entered, or the snapshot not yet entered, will bring it; the deletion of a row
   is the last that is heard of it; and nothing on the way drops an update while the connection
   is open: it is in `connections`, and the notifier was registered before MonitorAll. *)
Following == {"populateCache"} \cup Started
Version == {"none", "new", "changed", "gone"}
StartTypeOK ==
    /\ main \in {"Connect", "newOvsdbClient", "ListDbs", "GetSchema", "Register", "MonitorAll"} \cup Following
    /\ conn \in {"none", "open", "broken"}
    /\ {db, snapshot, cache} \subseteq [Row -> Version]
    /\ updates \subseteq [row : Row, ver : Version \ {"none"}, renamed : BOOLEAN,
                          at : {"wire", "check", "Update", "populateCache", "channel"}]
Followed ==
    /\ monitored <=> main \in Following
    /\ ~monitored => updates = {}
    /\ conn = "open" /\ main \notin {"Connect", "newOvsdbClient"} => registered
    /\ main \in {"MonitorAll"} \cup Following => handlers
DeletedLast == \A u \in updates : u.ver = "gone" => db[u.row] = "gone"
Brings(u, r) == u.row = r /\ u.ver \in Present /\ u.at # "channel"
Seen ==
    monitored /\ conn = "open" =>
      \A r \in Row : db[r] \in Present =>
        \/ cache[r] # "none"
        \/ \E u \in updates : Brings(u, r)
        \/ main = "populateCache" /\ snapshot[r] \in Present
StartInv == StartTypeOK /\ Followed /\ DeletedLast /\ Seen

(* The start ends: requests are served or the process exits. The one place where it can
   hang is the wait for the root row over a connection that is gone. *)
Ends ==
    <>(main = "serving" \/ death # "no" \/ (main = "getRootUUID" /\ conn = "broken"))

(* No update is stuck for good in front of the unbuffered channel. *)
UpdatesDrain ==
    LET waits == \E u \in updates : u.at = "channel"
    IN  waits ~> (~waits \/ death # "no")
====
