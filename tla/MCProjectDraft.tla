---------------------------- MODULE MCProjectDraft ----------------------------
(* ProjectDraft on small instances: edits, one invalid document, and two     *)
(* sets that are no documents as the markers.                                *)
EXTENDS ProjectDraft

CONSTANTS x1, x2, x3, bg

NoneInvalid == {}
OneInvalid == {{x1, bg}}
GoneMark == {"gone"}
NoMatchMark == {"no match"}
=============================================================================
