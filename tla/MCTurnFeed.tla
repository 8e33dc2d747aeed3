---- MODULE MCTurnFeed ----
(* TurnFeed for TLC: streams of a device that is at its limit, and one of another *)
(* device.                                                                        *)
EXTENDS TurnFeed, TLC

CONSTANTS s1, s2, s3, phone, tablet

\* s1 and s2 compete for the phone's slots, s3 is the tablet's.
PhoneAndTablet == (s1 :> phone) @@ (s2 :> phone) @@ (s3 :> tablet)
====
