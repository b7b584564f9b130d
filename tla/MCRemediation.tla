---------------------------- MODULE MCRemediation ----------------------------
(***************************************************************************)
(* Instances of Remediation for TLC, and what the README says of an        *)
(* attempt that did not recover.                                           *)
(***************************************************************************)
EXTENDS Remediation, TLC

(* README.md:36, "Recover or roll back - stability held -> recovered.       *)
(* Otherwise restore the snapshot": an attempt that changed the Deployment  *)
(* and did not recover it has restored the snapshot when it returns, and a  *)
(* Restore that returned nil has not left the template of this attempt's    *)
(* own rollout_undo.                                                        *)
NotRecoveredIsRestored ==
  /\ /\ pc = "idle" /\ attempt > 0 /\ result # "recovered"
     /\ \E i \in 1 .. Len(versions) : versions[i].by = attempt
     => restoredAt # 0
  /\ restoredAt # 0 => \/ versions[restoredAt].by # attempt
                       \/ versions[restoredAt].template = snapshot

=============================================================================
