-------------------------- MODULE MCPowerIteration --------------------------
(***************************************************************************)
(* PowerIteration on both backends, with a fixed number of inactive        *)
(* batches and with a detector that looks at three entropies and gives up  *)
(* after four batches; room is left for one that never sees a full window. *)
(***************************************************************************)
EXTENDS PowerIteration

Config(backend, inactive, detector) ==
  [backend |-> backend, inactive |-> inactive, detector |-> detector,
   statepoint |-> TRUE]

MCAuto == [min_inactive |-> 2, max_inactive |-> 4, window |-> 3]
MCWideWindow == [min_inactive |-> 3, max_inactive |-> 2, window |-> 9]

MCConfigs ==
  {Config("Cpu", 1, MCAuto), Config("Cpu", 1, MCWideWindow), Config("Cpu", 2, None),
   Config("Cuda", 2, None), Config("Cuda", 1, MCAuto)}

MCAdaptive == {Config("Cpu", 1, MCAuto)}
=============================================================================
