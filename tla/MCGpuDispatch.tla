--------------------------- MODULE MCGpuDispatch ----------------------------
(* The dispatch engine with a ring of two, a deferred queue of one and a   *)
(* cache of two, and the Vulkan calls that may fail in each run.           *)
EXTENDS GpuDispatchInvariants

Steps == {"buffers", "presets", "pipeline", "set", "cmd", "fence", "record", "submit"}

\* Any Vulkan call of the first dispatch of a call may fail.
FirstDispatch == (Single \cup Chain) \X {1} \X Steps

\* A wait may fail, of a device that is not lost.
SomeWaits ==
  {<<"now", 1, "drain">>, <<"now", 1, "wait">>, <<"flush", 1, "flush">>, <<"destroy", 1, "destroy">>,
   <<"chain", 3, "park">>, <<"chain", 3, "flush">>, <<"defer", 1, "park">>}

\* The last dispatch of a chain may fail: it leaves a full ring to the next call.
LastOfChain == {<<"chain", 3, "cmd">>}

Mixed == FirstDispatch \cup SomeWaits \cup LastOfChain

\* A later dispatch of a chain may fail.
WithinChain == {<<"chain", 2, "cmd">>}

\* A dispatch with a preset set may fail.
WithPreset == {<<"preset", 1, "cmd">>}

Nothing == {}
=============================================================================
