------------------------------ MODULE MCIngest ------------------------------
(* A file and a pipe, small enough for TLC.                                *)
EXTENDS Ingest

MCFileOnly == {{File}}
MCOneEach == {{File}, {Stdin}}
MCBoth == {{File, Stdin}}

\* Writes of a logger that flushes whole lines: an empty line, a short one.
MCWhole == {<<TRUE>>, <<FALSE, TRUE>>}
\* One that may also flush in the middle of a line.
MCParts == {<<FALSE>>, <<FALSE, TRUE>>}
MCChunks == {<<FALSE>>, <<TRUE>>, <<TRUE, FALSE>>, <<FALSE, TRUE>>}
MCNoChunks == {}
=============================================================================
