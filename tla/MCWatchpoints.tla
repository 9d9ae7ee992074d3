---------------------------- MODULE MCWatchpoints ----------------------------
(* Two units over two address bits, and configurations that use masks,       *)
(* RANGE, CHAIN, a Thumb half and monitor mode; the transfers hit and miss   *)
(* each of them. BigEnd is TRUE, the case in which the half is not the one   *)
(* that the address bit says.                                                *)
EXTENDS Watchpoints, TLC

MCUnmasked == LowControl \cup HighControl

MCTransfer(addr, control, data, extern, brk) ==
  [valid |-> TRUE, addr |-> addr, control |-> control, data |-> data, extern |-> extern,
   brk |-> brk]

MCTransfers ==
  {Idle,
   MCTransfer({"a2"}, {"nOPC", "nRW"}, {"low"}, {}, FALSE),
   MCTransfer({"a2"}, {"nOPC"}, {"low"}, {0}, FALSE),
   MCTransfer({"a2"}, {"nOPC", "nRW"}, {}, {1}, TRUE),
   MCTransfer({"a1"}, {"HALFWORD"}, {"low"}, {}, FALSE),
   MCTransfer({}, {"HALFWORD"}, {"low"}, {}, TRUE)}

MCUnit(av, am, dv, dm, cv, cm) ==
  [addr_val |-> av, addr_mask |-> am, data_val |-> dv, data_mask |-> dm,
   ctrl_val |-> cv, ctrl_mask |-> cm]

\* WP1 waits for a write at a2, and chains to WP0, a Thumb breakpoint.
MCChained ==
  [wp |-> (0 :> MCUnit({}, {"a1"}, {"low"}, {}, {"ENABLE", "HALFWORD", "CHAIN"},
                       {"nTRANS", "RANGE", "EXTERN"}))
       @@ (1 :> MCUnit({"a2"}, {}, {"low"}, {}, {"nOPC", "nRW"}, MCUnmasked \ {"nOPC", "nRW"})),
   monitor |-> FALSE]

\* WP0 stops on an access at a2 that WP1 does not match.
MCRange ==
  [wp |-> (0 :> MCUnit({"a2"}, {"a1"}, {}, Halves, {"ENABLE", "nOPC"},
                       MCUnmasked \ {"nOPC", "RANGE"}))
       @@ (1 :> MCUnit({"a2"}, {}, {"low"}, {"high"}, {"nOPC"}, {"nTRANS", "EXTERN", "nRW", "CHAIN", "RANGE"})),
   monitor |-> FALSE]

\* Monitor mode, WP0 on address, WP1 with a chain it may not use.
MCMonitor ==
  [wp |-> (0 :> MCUnit({"a2"}, {}, {}, Halves, {"ENABLE", "nOPC", "nRW"}, MCUnmasked \ {"nOPC", "nRW"}))
       @@ (1 :> MCUnit({}, {"a1", "a2"}, {}, Halves, {"ENABLE", "nOPC"}, MCUnmasked \ {"nOPC", "EXTERN", "CHAIN"})),
   monitor |-> TRUE]

MCConfigurations == {MCChained, MCRange, MCMonitor}
MCOther == {{}, Halves}
=============================================================================
