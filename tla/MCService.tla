------------------------------ MODULE MCService ------------------------------
(***************************************************************************)
(* The instance on which Installer is checked to implement InstallService. *)
(***************************************************************************)
EXTENDS MCInstaller, InstallerService

=============================================================================
