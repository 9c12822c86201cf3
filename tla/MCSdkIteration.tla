-------------------------- MODULE MCSdkIteration --------------------------
(***************************************************************************)
(* Build roots for SdkIteration that a cfg cannot write.                   *)
(***************************************************************************)
EXTENDS SdkIteration

Root(workspace, config, conf, generated, kept, learner) ==
    [workspace |-> workspace, config |-> config, devtool_conf |-> conf,
     ide_generated |-> generated, ide_kept |-> kept, learner |-> learner]

\* What environment setup leaves before the first run.
FreshRoot == {Root("absent", "unknown", "absent", FALSE, FALSE, FALSE)}

\* What a restored run leaves, once its outputs are moved away.
RestoredRoot == {Root("inert", "base", "ok", FALSE, FALSE, FALSE)}

\* Whatever earlier runs, half of them, or a user may have left.
AnyRoot == {b \in BuildType : b.workspace = "absent" => ~b.ide_generated}
=============================================================================
