------------------------------- MODULE MCOvs -------------------------------
(***************************************************************************)
(* The packages ovs and ovsnl in one instance: a question to the stateless *)
(* operations, a flow bundle, or commands of concurrent callers.  The      *)
(* three share no state that one writes, so their steps need not be        *)
(* interleaved.                                                            *)
(***************************************************************************)
EXTENDS OvsLibrary, FlowBundle, Commands

vars == <<query, bundleVars, commandVars>>

NoCommand == \A t \in Callers : pc[t] = "idle"
NoFlags   == ofctlFlags.len = 0

Init == query = NoQuery /\ BundleInit /\ CommandsInit

Next ==
  \/ at = "idle" /\ NoCommand /\ NoFlags /\ Ask
     /\ UNCHANGED <<bundleVars, commandVars>>
  \/ query = NoQuery /\ NoCommand /\ NoFlags /\ BundleNext
     /\ UNCHANGED <<query, commandVars>>
  \/ query = NoQuery /\ at = "idle" /\ CommandsNext
     /\ UNCHANGED <<query, bundleVars>>

Spec == Init /\ [][Next]_vars /\ BundleFairness
=============================================================================
