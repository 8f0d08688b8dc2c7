--------------------------- MODULE MCScriptWorker ---------------------------
(* Small instances of ScriptWorker.                                         *)
EXTENDS ScriptWorker, TLC

CONSTANTS c1, c2

\* A budget with its high watermark at a half and the low one at a quarter.
Cfg(rxLimit, outLimit, enabled, backpressure) ==
    [rxLimit |-> rxLimit, memory |-> 8, highPct |-> 50, lowPct |-> 25, outLimit |-> outLimit,
     batch |-> 2, enabled |-> enabled, backpressure |-> backpressure]

TightConfig == {Cfg(4, 1, TRUE, TRUE)}
NoOutputLimit == {Cfg(4, 0, TRUE, TRUE)}

\* Synchronous calls with one output, asynchronous ones with two and half the
\* budget.
CallConfigs == {Cfg(4, 1, FALSE, TRUE), Cfg(2, 2, TRUE, TRUE)}

\* Either the poster may block or the publisher, never both.
LiveConfigs == {Cfg(2, 0, TRUE, TRUE), Cfg(2, 1, TRUE, FALSE)}

Symmetry == Permutations({c1, c2})

CallOps == {"try", "push", "sync", "toggle", "idle", "reset", "configure", "drain", "stop"}
LiveOps == {"push", "clear", "reload", "drain", "stop"}
PumpOps == {"try", "post", "open", "close", "clear", "reload", "drain", "stop"}
ClosePushOps == {"push", "close", "drain", "stop"}
PostPushOps == {"push", "post", "drain", "stop"}
=============================================================================
