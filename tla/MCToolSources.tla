--------------------------- MODULE MCToolSources ---------------------------
(* Instances of ToolSources for TLC: two servers that may publish the same *)
(* local name, which may also be registered directly.                      *)
EXTENDS ToolSources

CONSTANTS s1, s2, y, z

MCOrder   == <<s1, s2>>
MCOffered == [s \in Sources |-> IF s = s1 THEN {y, z} ELSE {y}]
MCPages   == [s \in Sources |-> IF s = s1 THEN <<{y}, {z}>> ELSE <<{y}>>]
MCBlocked == [s \in Sources |-> IF s = s1 THEN {z} ELSE {}]

=============================================================================
