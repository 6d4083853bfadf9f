------------------------- MODULE MCPersistentStorage -------------------------
(* Three members, the middle one across the border of two sectors. *)
EXTENDS PersistentStorage

Layout == [m \in {"settings", "user_pwd", "hostname"} |->
             CASE m = "settings" -> {1} [] m = "user_pwd" -> {1, 2} [] OTHER -> {2}]
=============================================================================
