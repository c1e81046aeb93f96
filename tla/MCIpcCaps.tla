------------------------------ MODULE MCIpcCaps ------------------------------
(* The instance of IpcCaps that TLC checks.                                 **)
EXTENDS IpcCaps, TLC

CONSTANTS vfs, root   \* the names "vfs" and "vfs.root"

MCParentName == vfs :> NULL @@ root :> vfs
MCMasks == {{"SEND", "RECV"}}
=============================================================================
