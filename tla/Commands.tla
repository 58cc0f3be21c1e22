------------------------------ MODULE Commands ------------------------------
(***************************************************************************)
(* One run of zae is one command, told from its first argument (main.go):  *)
(* the first-run checklist, what an instance declares, the logs of a       *)
(* workload, or an addon at an address.  What the other commands keep does *)
(* not exist in that run, and stays as it is here.                         *)
(***************************************************************************)
EXTENDS Dispatch, LogFollow, AddressAddon

CommandNames == {"setup", "service", "debug", "addon"}

commandsVars == <<dispatchVars, followVars, vars>>

\* A run without logs, without an addon, or with neither a checklist nor a call.
NoLogs ==
  /\ portal = CHOOSE p \in Portals : TRUE
  /\ live = Sources /\ log = [s \in Sources |-> <<>>]
  /\ FollowInit

NoAddon ==
  /\ older = FALSE
  /\ serves = [a \in Addrs |-> Nil] /\ rows = [k \in Keys |-> Nil]
  /\ op \in [kind : {"refresh"}, name : Keys, yes : {FALSE}]
  /\ Init

NeitherOfTheTwo ==
  /\ catalog = "answers" /\ key = "none" /\ scan = "none" /\ titled = FALSE
  /\ switch = Unset /\ rolled = FALSE /\ secure = TRUE /\ record = Unset /\ acts = 0
  /\ setupOp = [kind |-> "done", yes |-> FALSE]
  /\ SetupStarts
  /\ discovery = "answers" /\ service = FALSE /\ path = NoPath /\ turns = 0
  /\ invokeOp = [kind |-> "run", fits |-> TRUE]
  /\ beenThere = FALSE /\ beenAway = TRUE
  /\ InvokeStarts

CommandsInit ==
  \/ DispatchInit /\ NoLogs /\ NoAddon
  \/ name = "debug" /\ FollowInit /\ NeitherOfTheTwo /\ NoAddon
  \/ name = "addon" /\ Init /\ NeitherOfTheTwo /\ NoLogs

CommandsNext ==
  \/ DispatchNext /\ UNCHANGED <<followVars, vars>>
  \/ name = "debug" /\ FollowNext /\ UNCHANGED <<dispatchVars, vars>>
  \/ name = "addon" /\ Next /\ UNCHANGED <<dispatchVars, followVars>>

CommandsSpec == CommandsInit /\ [][CommandsNext]_commandsVars

=============================================================================
