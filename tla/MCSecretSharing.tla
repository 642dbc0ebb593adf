-------------------------- MODULE MCSecretSharing ---------------------------
(* Constants of the model-checked instances of SecretSharing. *)
EXTENDS SecretSharing, TLC

CONSTANTS owner, p1, p2, p3, repl, healer, forcer, v1, v2

ThreePeers == {p1, p2, p3}
TwoPeers == {p1, p2}
NoPeers == {}
OneHealer == {healer}
OneForcer == {forcer}
NoJob == {}
AnyRequest == {"store", "backup", "reconstruct", "heal-now"}
StoreOnly == {"store"}
OneValue == {v1}
TwoValues == {v1, v2}
NodeFaults == {"down", "disk", "timeout", "crash", "orch"}
LateFaults == {"timeout", "notice"}
LossFaults == {"down", "disk", "timeout", "device", "orch"}
DownOnly == {"down"}
TwoPeerSymmetry == Permutations(TwoPeers)
PeerSymmetry == Permutations(ThreePeers)
=============================================================================
