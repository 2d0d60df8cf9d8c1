---- MODULE UserLookup ----
(* Users and groups: the readers of /etc/passwd and /etc/group (libcontainer/user) and the
   group of the plugin's socket (docker/pkg/sockets), over every pair of files an
   administrator can write from the lines given. A line is the sequence of its fields;
   lines may be short or blank. The functions only read, so they are operators of the
   files. *)
EXTENDS Integers, Sequences, FiniteSets, TLC, SequencesExt

CONSTANTS MaxLines,    \* lines of a file
          maxId

VARIABLES passwd, group     \* [there |-> BOOLEAN, lines |-> sequence of lines]

vars == <<passwd, group>>

Number == ("0" :> 0) @@ ("1" :> 1) @@ ("2" :> 2) @@ ("10" :> 10) @@ ("20" :> 20) @@ ("999" :> 999)
IsNumber(s) == s \in DOMAIN Number
Itoa(n) == CHOOSE s \in DOMAIN Number : Number[s] = n
minId == 0

PasswdLines == {<<"amy", "x", "1", "10">>, <<"bob", "x", "2", "20">>, <<"1", "x", "2", "10">>, <<"eve">>, <<>>}
GroupLines == {<<"adm", "x", "10", <<"amy">>>>, <<"dev", "x", "20", <<"bob", "amy">>>>, <<"ops", "x", "10", <<>>>>,
               <<"20", "x", "1", <<"amy">>>>, <<"eve">>, <<>>}
Groups == {"adm", "dev", "ops", "10", "20", "999", "joe"}
Defaults == [Uid |-> 2, Gid |-> 0, Sgids |-> <<2>>]
None == [Name |-> "", err |-> TRUE]

----------------------------------------------------------------------------
(* parseLine: a field that is missing keeps its zero, one that is no number is 0. *)
Field(line, i, zero) == IF i <= Len(line) THEN line[i] ELSE zero
Atoi(s) == IF IsNumber(s) THEN Number[s] ELSE 0
ParseUser(line) ==
    [Name |-> Field(line, 1, ""), Uid |-> Atoi(Field(line, 3, "")), Gid |-> Atoi(Field(line, 4, ""))]
ParseGroup(line) ==
    [Name |-> Field(line, 1, ""), Gid |-> Atoi(Field(line, 3, "")), List |-> Field(line, 4, <<>>)]

(* ParsePasswdFilter, ParseGroupFilter: blank lines are skipped. The filter is the SelectSeq of
   the caller; a file that is not there has no entries. *)
NotBlank(file) == SelectSeq(file.lines, LAMBDA l : l # <<>>)
Users(file) == LET ls == NotBlank(file) IN [i \in 1..Len(ls) |-> ParseUser(ls[i])]
GroupsOf(file) == LET ls == NotBlank(file) IN [i \in 1..Len(ls) |-> ParseGroup(ls[i])]
ParsePasswdFile(file) == IF file.there THEN Users(file) ELSE <<>>
ParseGroupFile(file) == IF file.there THEN GroupsOf(file) ELSE <<>>

----------------------------------------------------------------------------
(* lookup.go *)
First(found) == IF found = <<>> THEN None ELSE found[1]
lookupUser(field, value) == First(SelectSeq(ParsePasswdFile(passwd), LAMBDA u : u[field] = value))
LookupUser(username) == lookupUser("Name", username)
LookupUid(uid) == lookupUser("Uid", uid)
lookupGroup(field, value) == First(SelectSeq(ParseGroupFile(group), LAMBDA g : g[field] = value))
LookupGroup(groupname) == lookupGroup("Name", groupname)
LookupGid(gid) == lookupGroup("Gid", gid)

----------------------------------------------------------------------------
(* GetExecUser: the first entry named by the specification or by its number; a number that
   is in no entry stands for itself; no user stands for the user of the defaults. *)
Err == [err |-> TRUE]
Named(entry, id, arg) == entry.Name = arg \/ (IsNumber(arg) /\ Number[arg] = id)
InRange(n) == minId <= n /\ n <= maxId
UserMatches(u, userArg) == IF userArg = "" THEN u.Uid = Defaults.Uid ELSE Named(u, u.Uid, userArg)
GroupMatches(g, groupArg, name) == IF groupArg # "" THEN Named(g, g.Gid, groupArg) ELSE name \in ToSet(g.List)

FindUser(userArg) ==
    LET found == SelectSeq(ParsePasswdFile(passwd), LAMBDA u : UserMatches(u, userArg)) IN
    IF found # <<>> THEN [err |-> FALSE, Name |-> found[1].Name, Uid |-> found[1].Uid, Gid |-> found[1].Gid]
    ELSE IF userArg = "" THEN [err |-> FALSE, Name |-> "", Uid |-> Defaults.Uid, Gid |-> Defaults.Gid]
    ELSE IF IsNumber(userArg) /\ InRange(Number[userArg])
         THEN [err |-> FALSE, Name |-> "", Uid |-> Number[userArg], Gid |-> Defaults.Gid]
    ELSE [err |-> TRUE]

GetExecUser(userArg, groupArg) ==
    LET u == FindUser(userArg) IN
    IF u.err THEN Err
    ELSE LET found == SelectSeq(ParseGroupFile(group), LAMBDA g : GroupMatches(g, groupArg, u.Name))
             user(gid, sgids) == [err |-> FALSE, Uid |-> u.Uid, Gid |-> gid, Sgids |-> sgids]
         IN IF groupArg = "" THEN
                 IF u.Name # "" /\ found # <<>> THEN user(u.Gid, [i \in 1..Len(found) |-> found[i].Gid])
                 ELSE user(u.Gid, Defaults.Sgids)
            ELSE IF found # <<>> THEN user(found[1].Gid, Defaults.Sgids)
            ELSE IF IsNumber(groupArg) /\ InRange(Number[groupArg]) THEN user(Number[groupArg], Defaults.Sgids)
            ELSE Err

(* GetAdditionalGroups: one step per group asked for. An entry counts only if its id is not
   among the ids found before. *)
Candidates(gids, ag) == SelectSeq(GroupsOf(group), LAMBDA g : Named(g, g.Gid, ag) /\ g.Gid \notin gids)
Additional(gids, ag) ==
    LET found == IF group.there THEN Candidates(gids, ag) ELSE <<>> IN
    IF found # <<>> THEN gids \cup {found[1].Gid}
    ELSE IF IsNumber(ag) /\ InRange(Number[ag]) THEN gids \cup {Number[ag]}
    ELSE {-1}
Failed(gids) == -1 \in gids
GetAdditionalGroups(asked) ==
    FoldLeft(LAMBDA gids, ag : IF Failed(gids) THEN gids ELSE Additional(gids, ag), {}, asked)

(* lookupGidByName of docker/pkg/sockets; -1 is an error. *)
LastOf(found) == found[Len(found)].Gid      \* mutant
FirstOf(found) == found[1].Gid
lookupGidByName(nameOrGid) ==
    LET found == SelectSeq(ParseGroupFile(group), LAMBDA g : Named(g, g.Gid, nameOrGid)) IN
    IF ~group.there THEN -1
    ELSE IF found # <<>> THEN FirstOf(found)
    ELSE IF IsNumber(nameOrGid) THEN Number[nameOrGid] ELSE -1

----------------------------------------------------------------------------
(* The administrator *)
Append1(file, line) == [there |-> TRUE, lines |-> Append(file.lines, line)]
AddUser == \E l \in PasswdLines : Len(passwd.lines) < MaxLines /\ passwd' = Append1(passwd, l) /\ UNCHANGED group
AddGroup == \E l \in GroupLines : Len(group.lines) < MaxLines /\ group' = Append1(group, l) /\ UNCHANGED passwd
Init == passwd = [there |-> FALSE, lines |-> <<>>] /\ group = [there |-> FALSE, lines |-> <<>>]
Next == AddUser \/ AddGroup
Spec == Init /\ [][Next]_vars

----------------------------------------------------------------------------
(* Name and number of entry i are its own, and its name is no number. *)
Own(i, us) ==
    /\ ~IsNumber(us[i].Name)
    /\ \A j \in 1..Len(us) : us[j].Name # Itoa(us[i].Uid)
    /\ \A j \in (1..Len(us)) \ {i} : us[j].Name # us[i].Name /\ us[j].Uid # us[i].Uid

(* A user can be named or numbered: where name and number of an entry are its own and no
   number is used as a name, GetExecUser answers the same to both, and to no user at all if
   it is the default. The lookups find that entry too. *)
NameOrNumber ==
    LET us == Users(passwd) IN
    \A i \in 1..Len(us) : Own(i, us) =>
        /\ LookupUser(us[i].Name) = us[i] /\ LookupUid(us[i].Uid) = us[i]
        /\ \A g \in {"", "adm", "10", "joe"} :
              /\ GetExecUser(us[i].Name, g) = GetExecUser(Itoa(us[i].Uid), g)
              /\ us[i].Uid = Defaults.Uid => GetExecUser(us[i].Name, g) = GetExecUser("", g)

(* The three ways to find a group agree where all of them answer: for the socket, for a
   process and as an additional group. *)
GroupLookupsAgree ==
    \A g \in Groups : lookupGidByName(g) # -1 /\ (IsNumber(g) => InRange(Number[g])) =>
        /\ GetAdditionalGroups(<<g>>) = {lookupGidByName(g)}
        /\ GetExecUser("", g).Gid = lookupGidByName(g)
        /\ ~IsNumber(g) => LookupGroup(g).Gid = lookupGidByName(g) /\ LookupGid(lookupGidByName(g)) # None

====
