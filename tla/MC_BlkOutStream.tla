-------------------------- MODULE MC_BlkOutStream --------------------------
(***************************************************************************)
(* BlkOutStream for TLC: a device of two 2-byte sectors holding bits, and  *)
(* puts of up to 3 bytes. These reach all three branches of the puts loop  *)
(* and a write that runs past the end of the device.                       *)
(*                                                                         *)
(* SafeSeeks never moves back to the first byte of a partly written        *)
(* sector. It still has the same-sector path (SEEK_CUR 0), moves within a  *)
(* sector and to another one, SEEK_END, and out-of-range offsets.          *)
(* AllSeeks adds SEEK_SET 0 and SEEK_SET 2.                                *)
(***************************************************************************)
EXTENDS BlkOutStream

SafeSeeks ==
    {<<"SEEK_SET", 1>>, <<"SEEK_SET", 3>>, <<"SEEK_SET", 5>>, <<"SEEK_SET", 6>>,
     <<"SEEK_CUR", 0>>, <<"SEEK_CUR", -5>>, <<"SEEK_END", 0>>,
     <<"SEEK_END", -1>>}

AllSeeks == SafeSeeks \cup {<<"SEEK_SET", 0>>, <<"SEEK_SET", 2>>}

=============================================================================
