-------------------------- MODULE MCLanguageServer --------------------------
(* Instances of LanguageServer for TLC. *)
EXTENDS LanguageServer

\* The second text of one project file does not elaborate.
MCBroken == {<<"a", 2>>}

\* One file is opened, edited, closed and opened again; another file of its
\* project and a file outside any project are only opened.
MCVersions == [a |-> 3, b |-> 1, s |-> 1]
=============================================================================
