------------------------------- MODULE MCOutbox -------------------------------
(***************************************************************************)
(* One alert of a text row and a media row.  Telegram accepts both, or     *)
(* refuses the text row for ever, so that the media row must get past it.  *)
(***************************************************************************)
EXTENDS Outbox

CONSTANT m1

MCMediaRows == {<<m1, 1>>}
MCRefusals == {{}, {<<m1, 0>>}}
===============================================================================
