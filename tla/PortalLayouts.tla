---------------------------- MODULE PortalLayouts ----------------------------
(***************************************************************************)
(* The portal layouts of the realm: one of them is the default, and themes *)
(* refer to them.  The first layout is made the default by a decision that *)
(* precedes its insertion, and a layout is deleted after two checks, each  *)
(* a statement of its own.  A partial unique index allows one default, a   *)
(* foreign key (ON DELETE RESTRICT) keeps layouts that themes refer to.    *)
(***************************************************************************)
EXTENDS PortalThemes

CONSTANT
    Layouts    \* ids of portal_layouts

ASSUME LayoutsAssumption == None \notin Layouts

VARIABLES
    layouts,   \* rows of portal_layouts
    isDefault, \* those of them with is_default
    layoutOf,  \* column layout_id of the themes
    job,       \* of a request: what it has still to do with layouts
    drawn,     \* history: ids ever used, which are never used again
    crossed    \* history: the last layout to be made the default was being deleted then

layoutVars == <<layouts, isDefault, layoutOf, job, drawn, crossed>>

Jobs ==
    [step : {"idle"}]
        \union [step : {"insert"}, first : BOOLEAN]
        \union [step : {"unused", "delete"}, layout : Layouts]

LayoutsTypeOK ==
    /\ drawn \in SUBSET Layouts
    /\ layouts \in SUBSET drawn
    /\ isDefault \in SUBSET layouts
    /\ \A k, l \in isDefault : k = l
    /\ layoutOf \in [Themes -> layouts \union {None}]
    /\ \A t \in Themes \ stored : layoutOf[t] = None
    /\ job \in [Requests -> Jobs]
    /\ crossed \in BOOLEAN

LayoutsInit ==
    /\ layouts = {}
    /\ isDefault = {}
    /\ layoutOf = [t \in Themes |-> None]
    /\ job = [r \in Requests |-> [step |-> "idle"]]
    /\ drawn = {}
    /\ crossed = FALSE

-----------------------------------------------------------------------------
Resting(r) == job[r].step = "idle"
Continue(r, next) == job' = [job EXCEPT ![r] = next]
Rest(r) == Continue(r, [step |-> "idle"])

Deleting(r, l) == job[r].step \in {"unused", "delete"} /\ job[r].layout = l
Used(l) == \E t \in stored : layoutOf[t] = l

\* create_layout: the first layout of a realm becomes its default.
FindDefault(r) ==
    /\ Resting(r)
    /\ Continue(r, [step |-> "insert", first |-> isDefault = {}])
    /\ UNCHANGED <<layouts, isDefault, layoutOf, drawn, crossed>>

\* create; when there is a default by now, the index refuses another one and
\* the request can only end.
InsertLayout(r, l) ==
    /\ job[r].step = "insert"
    /\ l \notin drawn
    /\ job[r].first => isDefault = {}
    /\ layouts' = layouts \union {l}
    /\ drawn' = drawn \union {l}
    /\ IF job[r].first
         THEN isDefault' = {l} /\ crossed' = FALSE
         ELSE UNCHANGED <<isDefault, crossed>>
    /\ Rest(r)
    /\ UNCHANGED layoutOf

\* set_default: one transaction.  Of two that overlap the later one waits for
\* the row or the index entry of the other and is then refused; one whose
\* target is deleted after it was read updates no row and rolls back.
SetDefault(l) ==
    /\ l \in layouts
    /\ isDefault' = {l}
    /\ crossed' = \E r \in Requests : Deleting(r, l)
    /\ UNCHANGED <<layouts, layoutOf, job, drawn>>

-----------------------------------------------------------------------------
\* A slip: the default is deleted like any other.
CheckNothing(r, l) ==
    /\ Resting(r)
    /\ l \in layouts
    /\ Continue(r, [step |-> "unused", layout |-> l])
    /\ UNCHANGED <<layouts, isDefault, layoutOf, drawn, crossed>>

\* delete_layout: get_by_id, and the look at is_default.
CheckNotDefault(r, l) ==
    /\ Resting(r)
    /\ l \in layouts \ isDefault
    /\ Continue(r, [step |-> "unused", layout |-> l])
    /\ UNCHANGED <<layouts, isDefault, layoutOf, drawn, crossed>>

\* is_used_by_themes; a layout in use ends the request.
CheckUnused(r) ==
    /\ job[r].step = "unused"
    /\ ~Used(job[r].layout)
    /\ Continue(r, [step |-> "delete", layout |-> job[r].layout])
    /\ UNCHANGED <<layouts, isDefault, layoutOf, drawn, crossed>>

\* delete: by id alone.  The foreign key refuses when a theme refers to the
\* layout by now.
DeleteLayout(r) ==
    /\ job[r].step = "delete"
    /\ ~Used(job[r].layout)
    /\ layouts' = layouts \ {job[r].layout}
    /\ isDefault' = isDefault \ {job[r].layout}
    /\ Rest(r)
    /\ UNCHANGED <<layoutOf, drawn, crossed>>

\* An error, a refusal or a lost connection: the rest is not executed.
AbortLayout(r) ==
    /\ ~Resting(r)
    /\ Rest(r)
    /\ UNCHANGED <<layouts, isDefault, layoutOf, drawn, crossed>>

LayoutRequest(r) ==
    \/ \E l \in Layouts : InsertLayout(r, l) \/ CheckNotDefault(r, l)
    \/ FindDefault(r) \/ CheckUnused(r) \/ DeleteLayout(r) \/ AbortLayout(r)

-----------------------------------------------------------------------------
\* The layout named in create_theme or update_theme_metadata; the foreign key
\* refuses one that is not there.
Refer(t, l) ==
    /\ l \in layouts \union {None}
    /\ layoutOf' = [layoutOf EXCEPT ![t] = l]
    /\ UNCHANGED <<layouts, isDefault, job, drawn, crossed>>

\* update_metadata finds the row and updates it.
UpdateMetadata(t, l) ==
    /\ t \in stored
    /\ Refer(t, l)
    /\ UNCHANGED themeVars

\* The reference goes with the row of a theme.
Release ==
    /\ layoutOf' = [t \in Themes |-> IF t \in stored' THEN layoutOf[t] ELSE None]
    /\ UNCHANGED <<layouts, isDefault, job, drawn, crossed>>

-----------------------------------------------------------------------------
(* A realm with layouts has a default one, however creations, changes of   *)
(* the default and deletions overlap, unless the layout made the default   *)
(* last was being deleted at that moment.                                  *)
DefaultIsKept == layouts # {} => isDefault # {} \/ crossed
=============================================================================
