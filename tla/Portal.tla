------------------------------- MODULE Portal -------------------------------
(***************************************************************************)
(* Themes and layouts of one realm under the requests of administrators,   *)
(* each of which works on a theme or on a layout.                          *)
(***************************************************************************)
EXTENDS PortalLayouts

vars == <<themeVars, layoutVars>>

TypeOK == ThemesTypeOK /\ LayoutsTypeOK

Init == ThemesInit /\ LayoutsInit

ThemeInserted == \E t \in Themes, l \in Layouts \union {None} : CreateTheme(t) /\ Refer(t, l)

ThemeEdited == \E t \in Themes, l \in Layouts \union {None} : UpdateMetadata(t, l)

ThemeStep == \E r \in Requests : Resting(r) /\ ThemeRequest(r) /\ Release

LayoutStep ==
    /\ \/ \E r \in Requests : Idle(r) /\ LayoutRequest(r)
       \/ \E l \in Layouts : SetDefault(l)
    /\ UNCHANGED themeVars

Next == ThemeInserted \/ ThemeEdited \/ ThemeStep \/ LayoutStep

Spec == Init /\ [][Next]_vars

-----------------------------------------------------------------------------
(* "Portal theme is currently active and cannot be deleted" (CoreError::   *)
(* PortalThemeActive).  The active theme is replaced and never lost,       *)
(* although the foreign key of realm_settings would allow it, unless two   *)
(* requests have worked on it at a time.                                   *)
ActiveThemeIsKept == [][active # None /\ active \notin contested => active' # None]_vars
=============================================================================
