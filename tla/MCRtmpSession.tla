--------------------------- MODULE MCRtmpSession ---------------------------
(***************************************************************************)
(* Instance for TLC: what a URL may ask for, connections that break early  *)
(* or never, and packets on either side of every size that matters (a tag  *)
(* header and size are 15 bytes, the file header is 13).  The program sets *)
(* RTMP_LF_BUFX and RTMP_LF_PLST nowhere, and gives no SWF: what the       *)
(* second set of options reaches is about the library.                     *)
(***************************************************************************)
EXTENDS RtmpSession

MCOptionSets == {{"live", "token", "usher"}, {"bufx", "playlist", "swf"}}

Packet(type, size, stamp, tracks, lacks) ==
  [type |-> type, size |-> size, stamp |-> stamp, tracks |-> tracks, lacks |-> lacks]

MCMedia == {Packet("audio", 3, 0, {}, 0), Packet("audio", 1, 0, {}, 0),
            Packet("video", 6, 0, {}, 0), Packet("video", 21, 7, {}, 0),
            Packet("info", 9, 0, {4}, 0), Packet("info", 9, 0, NULL, 0),
            Packet("flv", 15, 0, {1}, 4)}

=============================================================================
