-------------------------- MODULE MCPipeWireSession --------------------------
(* Two buffers and two queued invokes: a stop finds one callback executing  *)
(* and another invoke behind it.  Two ticks: the timeout can expire, and    *)
(* can be missed by a wait that began before it.                            *)
EXTENDS PipeWireSession

MCMaxPending == 2
MCNumBuffers == 2
MCTimeout    == 2

=============================================================================
