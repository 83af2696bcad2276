--------------------------- MODULE MCControlSocket ---------------------------
(* A client of the unix socket and one of the inet socket, with two units of *)
(* receive buffer: a one-word line just fits with its delimiter, two empty   *)
(* lines do, and Long does not. A NUL fills it together with the delimiter   *)
(* behind it, which is not found.                                            *)
EXTENDS ControlSocket

CONSTANTS u, r

Long == <<"junk", "junk">>
All == {<<>>, <<"auth">>, <<"command">>, <<"events">>, <<"binary">>, <<"nul">>, Long}
Talk == {<<"command">>, <<"events">>, <<"noevents">>}
=============================================================================
