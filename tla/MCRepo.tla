------------------------------- MODULE MCRepo --------------------------------
(***************************************************************************)
(* A small repository: the contacts of one protocol plugin, the GUI's      *)
(* watch (gui_main.c:250), the userlist watches of Perl scripts            *)
(* (perl_embed.c:397) and the watch repo.sgml shows.                       *)
(***************************************************************************)
EXTENDS Repo

CONSTANTS gadu, protocols, gui, perl

Changed(cb) == [callback |-> cb, actions |-> {"VALUE_CHANGE"}, types |-> {"CONTACT"}]
AnyValue(cb) == [callback |-> cb, actions |-> ValueMask, types |-> {"CONTACT"}]

MCCallbacks    == {gui, perl}
MCRequests     == {[repo |-> All, watch |-> Changed(gui)],
                   [repo |-> gadu, watch |-> AnyValue(perl)],
                   [repo |-> All, watch |-> Changed(perl)]}
MCRepoRequests == {[repo |-> gadu, watch |-> Changed(perl)]}
MCKeyRequests  == {[repo |-> gadu, key |-> k, callback |-> gui, actions |-> {"VALUE_CHANGE"}] : k \in Keys}
MCNone         == {}
=============================================================================
