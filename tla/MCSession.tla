----------------------------- MODULE MCSession -----------------------------
(* Instances of Session for TLC. *)
EXTENDS Session, TLC

CONSTANTS l1, l2

(* One Local of the Remote's minor version. *)
OneVersion == l1 :> <<3, 4, 0>>

(* One Local of the Remote's minor version, one of the version before. *)
MixedVersions == (l1 :> <<3, 4, 0>>) @@ (l2 :> <<3, 3, 9>>)

RemoteVersionDef == <<3, 4, 1>>
=============================================================================
