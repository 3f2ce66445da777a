------------------------- MODULE ConfigurationEdits -------------------------
(***************************************************************************)
(* Edits of the configuration, in the file of one server (ConfigEdits) and *)
(* in the pages of its editors (ConnectionEditors): side by side, as the   *)
(* first looks at what is saved and the second at what is shown.           *)
(***************************************************************************)
EXTENDS ConfigEdits, ConnectionEditors

\* Edits keep what they do not mean to change: what is saved stays saved, and no edit of
\* connections routes a value twice (WebInterface, upsert_connection()).
EditsAreKept == SavesAreKept /\ PairsAreRoutedOnce
=============================================================================
