---------------------------- MODULE MCConfigReload ----------------------------
(***************************************************************************)
(* Two settings and three documents: two that give both, one that gives    *)
(* the second only.                                                        *)
(***************************************************************************)
EXTENDS ConfigReload

CONSTANTS a, b, part

KeysDef == <<"Username", "EndpointCsv">>

GivesDef == [c \in Contents |-> IF c = part THEN {"EndpointCsv"} ELSE {"Username", "EndpointCsv"}]

=============================================================================
