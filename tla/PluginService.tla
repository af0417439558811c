--------------------------- MODULE PluginService ---------------------------
(***************************************************************************)
(* What the plug-in manager promises (engine/src/pluginmanager/manager.h): *)
(* users take and give back plug-ins by path; a plug-in stays open from    *)
(* before its first user to after its last one, and it is opened once for  *)
(* all of them.                                                            *)
(***************************************************************************)
EXTENDS Integers

CONSTANTS Users, Paths

VARIABLES
  open, \* the paths whose plug-in is loaded
  uses  \* uses[u][p]: SPlugin objects on p that user u holds

Unused(p) == \A u \in Users : uses[u][p] = 0

Init ==
  /\ open = {}
  /\ uses = [u \in Users |-> [p \in Paths |-> 0]]

\* s_pm_load_plugin returns a plug-in, loaded now or before.
Acquire(u, p) ==
  /\ open' = open \cup {p}
  /\ uses' = [uses EXCEPT ![u][p] = @ + 1]

\* A user starts to delete its plug-in.
Release(u, p) ==
  /\ p \in open /\ uses[u][p] > 0
  /\ uses' = [uses EXCEPT ![u][p] = @ - 1]
  /\ UNCHANGED open

\* The library is unloaded: nobody uses it.
Close(p) ==
  /\ p \in open /\ Unused(p)
  /\ open' = open \ {p}
  /\ UNCHANGED uses

Next ==
  \/ \E u \in Users, p \in Paths : Acquire(u, p) \/ Release(u, p)
  \/ \E p \in Paths : Close(p)

Spec == Init /\ [][Next]_<<open, uses>>

=============================================================================
