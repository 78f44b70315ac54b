------------------------------- MODULE MCIpFrag -------------------------------
(***************************************************************************)
(* A small instance of IpFrag: every fragment of one or two units within a *)
(* datagram of four.                                                       *)
(***************************************************************************)
EXTENDS IpFrag

AllFrags ==
    {fr \in [seq : 0 .. 3, len : 1 .. 2, more : BOOLEAN] : fr.seq + fr.len <= 4}
===============================================================================
