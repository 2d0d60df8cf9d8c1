--------------------------- MODULE GatewayService ---------------------------
(***************************************************************************)
(* The one systemd unit of the plugin, linkerGateway.service, and what     *)
(* StartOvsService and stopOvsService do to it.  All networks share the    *)
(* unit: its file holds the command line of the network created last.      *)
(* systemd is not part of the repository: "start" leaves an active unit    *)
(* alone, and it runs what the last daemon-reload read, not the file.      *)
(***************************************************************************)
CONSTANT Nil        \* no command, and the absent value elsewhere

VARIABLE unit

UnitTypeOK(Command) ==
    unit \in [file : Command \cup {Nil}, loaded : Command \cup {Nil},
              active : Command \cup {Nil}, enabled : BOOLEAN]

UnitInit == unit = [file |-> Nil, loaded |-> Nil, active |-> Nil, enabled |-> FALSE]

(* os.Create and templ.Execute *)
WriteUnitFile(cmd) == unit' = [unit EXCEPT !.file = cmd]

(* systemctl daemon-reload *)
ReloadUnit == unit' = [unit EXCEPT !.loaded = unit.file]

(* systemctl start linkerGateway.service: fails when there is no unit *)
StartUnit ==
    /\ unit.loaded # Nil \/ unit.active # Nil
    /\ unit' = [unit EXCEPT !.active = IF unit.active = Nil THEN unit.loaded ELSE unit.active]

(* systemctl enable: links the unit file *)
EnableUnit ==
    /\ unit.file # Nil
    /\ unit' = [unit EXCEPT !.enabled = TRUE]

(* systemctl stop: fails when systemd knows no such unit *)
StopUnit ==
    /\ unit.loaded # Nil \/ unit.active # Nil
    /\ unit' = [unit EXCEPT !.active = Nil]

DisableUnit == unit' = [unit EXCEPT !.enabled = FALSE]

(* os.Remove: fails when there is no file *)
RemoveUnitFile ==
    /\ unit.file # Nil
    /\ unit' = [unit EXCEPT !.file = Nil]
=============================================================================
