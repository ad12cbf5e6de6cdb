----------------------------- MODULE McpProxyMC -----------------------------
(* Small instances of McpProxy for TLC.                                    *)
EXTENDS McpProxy, TLC

CONSTANTS first, second, again, bare, one, two

\* again uses the id of first once that is answered; bare has no id.
IdTable == [c \in Calls |-> IF c = second THEN two ELSE IF c = bare THEN NoId ELSE one]
=============================================================================
