------------------------------ MODULE MCPipeline ------------------------------
(* The pipeline for TLC: the installations each run considers.              *)
EXTENDS Pipeline

CONSTANT f1

\* With inotify, audio deployed by itself and maintenance asked for; with a
\* polling watcher, an operator who changes tags and nothing automatic; with an
\* AcoustID key, fetches, cover art, changes of tags and packings, the full one by
\* the operator or by an idle Witch; with a key and audio deployed by itself, a
\* mutation that meets a fetch.
Installations ==
  { [commands |-> {"maintenance", "disk"}, api |-> FALSE, auto |-> TRUE,
     repack |-> FALSE, inotify |-> TRUE],
    [commands |-> {"mutation", "disk"}, api |-> FALSE, auto |-> FALSE,
     repack |-> FALSE, inotify |-> FALSE],
    [commands |-> {"mutation", "packing", "fetch", "covers", "disk"}, api |-> TRUE,
     auto |-> FALSE, repack |-> TRUE, inotify |-> TRUE],
    [commands |-> {"midfetch"}, api |-> TRUE, auto |-> TRUE,
     repack |-> FALSE, inotify |-> TRUE] }
=============================================================================
