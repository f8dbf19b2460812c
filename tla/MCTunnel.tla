------------------------------- MODULE MCTunnel -------------------------------
(***************************************************************************)
(* The tunnel of the documentation, and one from a raw end.  Each          *)
(* application says something once, so that what one end still has to say  *)
(* meets the other's leaving.                                              *)
(***************************************************************************)
EXTENDS Tunnel

ListenDial == <<"tcp-listen", "tcp-dial">>
RawDial == <<"raw", "tcp-dial">>
MCPairings == {ListenDial, RawDial}
OneEach == <<1, 1>>

===============================================================================
