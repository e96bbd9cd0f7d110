----------------------------- MODULE MCDMServer -----------------------------
(* Instances of DMServer for TLC.                                          *)
EXTENDS DMServer

CONSTANTS a, b, d

Asks(section) == [json |-> TRUE, section3 |-> section]

(* SafetyScript: a asks for two jobs; b for the version and for a job, and *)
(* then sends a text without Section3; d only connects.                    *)
(* LiveScript: a asks for the version while its job may be under way; b    *)
(* has a job of its own.                                                   *)
SafetyScript ==
    [c \in Clients |->
        CASE c = a -> <<Asks("Stabilize"), Asks("Stabilize")>>
          [] c = b -> <<Asks("Version"), Asks("Stabilize"), Asks("missing")>>
          [] OTHER -> <<>>]
LiveScript ==
    [c \in Clients |->
        CASE c = a -> <<Asks("Stabilize"), Asks("Version")>>
          [] OTHER -> <<Asks("Stabilize")>>]
=============================================================================
