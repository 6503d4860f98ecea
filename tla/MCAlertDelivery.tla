--------------------------- MODULE MCAlertDelivery ---------------------------
(* Instances of AlertDelivery for TLC.                                     *)
EXTENDS AlertDelivery

(* Path A: f1 and f2 are two breakout levels of one scan signal (two       *)
(* fingerprints, one cooldown key) routed to different bots.               *)
ScanPath == {"scan"}
ScanFingerprint == {"f1", "f2"}
ScanSignalOf == [f \in ScanFingerprint |-> "s"]
ScanPathOf == [f \in ScanFingerprint |-> "scan"]
ScanCategoryOf == [f1 |-> "FNO", f2 |-> "IPO"]

(* Path B: the TRIGGERED alert of one symbol; its producer runs during recovery. *)
MomentumPath == {"momentum"}
MomentumFingerprint == {"m1"}
MomentumSignalOf == [f \in MomentumFingerprint |-> f]
MomentumPathOf == [f \in MomentumFingerprint |-> "momentum"]
MomentumCategoryOf == [f \in MomentumFingerprint |-> "NONE"]

MCBots == {"fno", "default"}
=============================================================================
