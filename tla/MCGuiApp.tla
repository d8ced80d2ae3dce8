------------------------------ MODULE MCGuiApp ------------------------------
(* The desktop application on a small instance. *)
EXTENDS GuiApp
=============================================================================
