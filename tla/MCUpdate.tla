------------------------------- MODULE MCUpdate -------------------------------
(***************************************************************************)
(* TLC instance of Update: bytes of two values, lengths of two of them     *)
(* (cut from 4 on), sizes of four.  The URLs are of every length from      *)
(* blank to one that is cut; a text has no zero byte, and its second part  *)
(* read as a size exceeds what can be allocated, as eight bytes do.        *)
(***************************************************************************)
EXTENDS Update

MCUrls == {<<>>, <<1>>, <<1, 0>>, <<0, 1, 1>>, <<1, 1, 0, 1>>, <<0, 1, 0, 1, 1>>}
MCStreams == {<<>>, <<1>>, <<0, 1>>}
MCTexts == {<<>>, <<1>>, <<1, 1>>, <<1, 1, 1, 1>>}
=============================================================================
