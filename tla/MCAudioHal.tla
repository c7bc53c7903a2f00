----------------------------- MODULE MCAudioHal -----------------------------
(* Values of the AudioHal constants for TLC. *)
EXTENDS AudioHal

\* Speaker, then a wired headset: two routes that select different paths,
\* and 0, which out_set_parameters ignores.
MCOutRoutes == {{}, {"SPEAKER"}, {"WIRED_HEADSET"}}

\* Raw input masks carry AUDIO_DEVICE_BIT_IN; {BIT_IN} alone is NONE.
MCInRoutes == {{BitIn}, {BitIn, "BUILTIN_MIC"}, {BitIn, "WIRED_HEADSET_MIC"}}

\* For the protocol runs: one non-zero route per direction, so the first
\* set_parameters call changes the routing and later ones do not.
MCOneOutRoute == {{"SPEAKER"}}
MCOneInRoute == {{BitIn, "BUILTIN_MIC"}}

\* For the liveness run: routing values that set_parameters ignores.
MCNoOutRoute == {{}}
MCNoInRoute == {{BitIn}}

MCSources == {"DEFAULT", "CAMCORDER"}
MCOneSource == {"DEFAULT"}

MCModes == {"NORMAL", "IN_CALL"}
MCNormalOnly == {"NORMAL"}

MCOpenAlwaysOk == {"ok"}
MCOpenMayFail == {"ok", "fail"}
====
