--------------------- MODULE MCEnumerationContextsClaims ---------------------
(* Small instances of EnumerationContextsClaims for TLC.                    *)
EXTENDS EnumerationContextsClaims

PullOnly == {"open", "pull"}
PullAndClose == {"open", "pull", "close"}

ObjectsOnly == {"objects"}
=============================================================================
