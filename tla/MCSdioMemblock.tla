---------------------------- MODULE MCSdioMemblock ----------------------------
(***************************************************************************)
(* A chip with 8 windows of 16 octets behind two keyhole octets of which   *)
(* the lower takes two values, blocks of 8 octets and words of 2.          *)
(***************************************************************************)
EXTENDS SdioMemblock

\* Transfers from the start, the middle and the end of a window, with and without
\* blocks and part words, over up to four windows, the last one included.
MCRequests ==
  {r \in [addr : {0, 8, 14, 26, 90, 112, 120, 126}, len : {1, 2, 7, 8, 9, 15, 16, 24, 35, 40}] :
    r.addr + r.len <= Space}

===============================================================================
