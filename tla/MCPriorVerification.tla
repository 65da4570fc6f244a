-------------------------- MODULE MCPriorVerification --------------------------
(* A few documents, some of which contradict one another or list nothing.   *)
EXTENDS PriorVerification

Saying(manifest, source, registry, envelope, listed, entry, code) ==
  [registry |-> [manifest |-> manifest, source |-> source, artifact |-> registry],
   envelope |-> [artifact |-> envelope],
   manifest |-> [artifact |-> listed],
   listing |-> [artifact |-> entry],
   root_manifest |-> [code |-> code]]

MCClaims ==
  {Saying(1, 1, 0, 0, 1, 1, 1),    \* as a candidate should be
   Saying(2, 1, 0, 0, 1, 0, 1),    \* another manifest; the artifact not listed
   Saying(1, 2, 1, 0, 2, 2, 2),    \* registry and manifest differ, the release lies
   Saying(1, 1, 2, 1, 0, 11, 1)}   \* so do envelope and registry; a pointer's digest

=============================================================================
