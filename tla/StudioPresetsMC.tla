--------------------------- MODULE StudioPresetsMC ---------------------------
EXTENDS StudioPresets, TLC

\* Three names, the last two of which are saved to one file.
MCStem == 1 :> "a" @@ 2 :> "b" @@ 3 :> "b"
==============================================================================
