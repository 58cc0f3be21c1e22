------------------------------ MODULE Dispatch ------------------------------
(***************************************************************************)
(* The two kinds of commands of main.go: those that ship in the binary -   *)
(* here `setup` - and those that the instance declares.  A name of the     *)
(* first kind is never looked up in what the instance declares.            *)
(***************************************************************************)
EXTENDS Setup, Invoke

VARIABLE
  name          \* the first argument: the name of a static command, or of a service

dispatchVars == <<setupVars, invokeVars, name>>

\* Every variable holds a value of its kind.
DispatchTypeOK ==
  /\ SetupTypeOK
  /\ InvokeTypeOK
  /\ name \in {"setup", "service"}

\* A static command; the instance's declarations do not matter.
Static ==
  /\ name = "setup"
  /\ SetupInit
  /\ discovery = "answers" /\ service = FALSE /\ path = NoPath /\ turns = 0
  /\ invokeOp = [kind |-> "run", fits |-> TRUE]
  /\ beenThere = FALSE /\ beenAway = TRUE
  /\ InvokeStarts

\* A declared one; the checklist does not matter.
Dynamic ==
  /\ name = "service"
  /\ InvokeInit
  /\ catalog = "answers" /\ key = "none" /\ scan = "none" /\ titled = FALSE
  /\ switch = Unset /\ rolled = FALSE /\ secure = TRUE /\ record = Unset /\ acts = 0
  /\ setupOp = [kind |-> "done", yes |-> FALSE]
  /\ SetupStarts

DispatchInit == Static \/ Dynamic

DispatchNext ==
  \/ name = "setup" /\ UNCHANGED <<invokeVars, name>> /\ (SetupCommand \/ SetupWorld)
  \/ name = "service" /\ UNCHANGED <<setupVars, name>> /\ (InvokeCommand \/ InvokeWorld)

DispatchSpec == DispatchInit /\ [][DispatchNext]_dispatchVars

=============================================================================
