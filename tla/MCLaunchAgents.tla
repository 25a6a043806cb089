--------------------------- MODULE MCLaunchAgents ---------------------------
(* An instance of LaunchAgents for TLC: one project port, which other        *)
(* programs use too, and two configurations with revisions of their own, so  *)
(* that an edit is a drift of every plist.                                   *)
EXTENDS LaunchAgents

MCContested == {PortOf(Manual(p)) : p \in Ports}
MCConfigs == {
    [agents |-> {"desktop", "browser"}, auto |-> Ports, rev |-> 1],
    [agents |-> {"browser"}, auto |-> {}, rev |-> 2]}
=============================================================================
