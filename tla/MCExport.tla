------------------------------ MODULE MCExport ------------------------------
(* Small instances of the exporter for TLC. *)
EXTENDS ExportSource, ExportWriter

CONSTANTS r1, r2, r3, d0, d1, d2

ThreeRuns == {r1, r2, r3}
ThreeDatasets == {d0, d1, d2}
OneShort == {d0}

(* Each half by itself. *)
SourceAlone == SourceInit /\ WriterInit /\ [][SourceNext /\ UNCHANGED writerVars]_<<sourceVars, writerVars>>
WriterAlone ==
  SourceInit /\ public = {} /\ WriterInit
    /\ [][WriterNext /\ UNCHANGED sourceVars]_<<sourceVars, writerVars>>
=============================================================================
