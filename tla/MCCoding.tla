------------------------------ MODULE MCCoding ------------------------------
(***************************************************************************)
(* The two experiments with coding in one instance: the controller with    *)
(* its switch, and the forwarder on DPDK.  They are two programs that      *)
(* share nothing, so their steps need not be interleaved: one of them runs *)
(* and the other has not been started.                                     *)
(***************************************************************************)
EXTENDS CodingSwitch, BasicFwd

codingVars == <<vars, fwdVars>>

ForwarderIdle == main = "setup" /\ ready = 0
SwitchIdle    == sent = <<>> /\ moves = 0 /\ connections = 1

CodingInit == Init /\ FwdInit

CodingNext ==
  \/ ForwarderIdle /\ Next /\ UNCHANGED fwdVars
  \/ SwitchIdle /\ FwdNext /\ UNCHANGED vars

CodingSpec == CodingInit /\ [][CodingNext]_codingVars /\ Fairness
=============================================================================
