------------------------- MODULE MCWorldAcquisition -------------------------
(* World acquisition for TLC: one deployment of each kind, few effects.  A *)
(* BrowserGym frame is the expensive one: two of them see a second         *)
(* dispatch begin after a first one whose fate was uncertain.              *)
EXTENDS WorldAcquisition

MCDeployments == {"dom", "bundle", "gym"}

MCCaptures == [dom |-> 3, bundle |-> 3, gym |-> 2]

MCDrift == [dom |-> 1, bundle |-> 1, gym |-> 0]
=============================================================================
