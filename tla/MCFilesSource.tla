---------------------------- MODULE MCFilesSource ----------------------------
(* The two paths that a pattern matches. *)
EXTENDS FilesSource

TwoPaths == <<"auth.log", "mail.log">>
(* The last of them becomes the head of the list; the other one has none
   after it to keep from being read. *)
HeadOnly == {"mail.log"}
=============================================================================
