---------------------------- MODULE PortalThemes ----------------------------
(***************************************************************************)
(* The portal themes of one realm.  realm_settings.portal_theme_id names   *)
(* the active theme, which the public login portal renders.  The           *)
(* collection API checks a theme in one statement and acts on it in a      *)
(* later one; the older PUT /portal/theme writes the active theme and,     *)
(* when the realm has none, creates and activates one.  What the realm's   *)
(* layouts add is in PortalLayouts.                                        *)
(***************************************************************************)
CONSTANTS
    Themes,    \* ids of portal_themes
    Pages,     \* page types that have required blocks
    Requests,  \* concurrent requests of administrators
    None       \* no theme

ASSUME NoneAssumption == None \notin Themes
ASSUME PagesAssumption == Pages # {}

VARIABLES
    stored,    \* rows of portal_themes
    valid,     \* of a theme: pages whose tree has every required block
    active,    \* realm_settings.portal_theme_id
    request,   \* of a request: what it has still to do
    created,   \* history: ids ever used, which are never used again
    seeded,    \* history: stored themes created by the older endpoint
    contested  \* history: themes two requests have been under way with at a time

themeVars == <<stored, valid, active, request, created, seeded, contested>>
history == <<created, seeded>>

Waiting == [step : {"idle"}]
Pending ==
    [step : {"write"}, theme : Themes, page : Pages, ok : BOOLEAN]
        \union [step : {"activate", "delete"}, theme : Themes]
        \union [step : {"create", "seed"}, theme : Themes \union {None}]

ThemesTypeOK ==
    /\ created \in SUBSET Themes
    /\ stored \in SUBSET created
    /\ valid \in [Themes -> SUBSET Pages]
    /\ active \in stored \union {None}
    /\ request \in [Requests -> Waiting \union Pending]
    /\ seeded \in SUBSET created
    /\ contested \in SUBSET Themes

ThemesInit ==
    /\ stored = {}
    /\ valid = [t \in Themes |-> {}]
    /\ active = None
    /\ request = [r \in Requests |-> [step |-> "idle"]]
    /\ created = {}
    /\ seeded = {}
    /\ contested = {}

-----------------------------------------------------------------------------
Idle(r) == request[r].step = "idle"
WorksOn(what, t) == what.step # "idle" /\ what.theme = t
Then(r, next) ==
    /\ request' = [request EXCEPT ![r] = next]
    /\ contested' = contested \union
          {t \in Themes : WorksOn(next, t) /\ \E s \in Requests \ {r} : WorksOn(request[s], t)}
Done(r) == Then(r, [step |-> "idle"])

\* create: the trees of a new row are empty.
Insert(t) ==
    /\ t \notin created
    /\ stored' = stored \union {t}
    /\ created' = created \union {t}

CreateTheme(t) ==
    /\ Insert(t)
    /\ UNCHANGED <<valid, active, request, seeded, contested>>

-----------------------------------------------------------------------------
\* A slip: drafts and the active theme are treated alike.
SavePageUnchecked(r, t, p, ok) ==
    /\ Idle(r)
    /\ t \in created
    /\ Then(r, [step |-> "write", theme |-> t, page |-> p, ok |-> ok])
    /\ UNCHANGED <<stored, valid, active, history>>

\* update_theme_page: a tree is validated only when its theme is active now.
CheckPage(r, t, p, ok) ==
    /\ Idle(r)
    /\ t \in created
    /\ active = t => ok
    /\ Then(r, [step |-> "write", theme |-> t, page |-> p, ok |-> ok])
    /\ UNCHANGED <<stored, valid, active, history>>

\* update_page.  NotFound when the theme has been deleted.
WritePage(r) ==
    /\ request[r].step = "write"
    /\ LET t == request[r].theme
           p == request[r].page
           pages == IF request[r].ok THEN valid[t] \union {p} ELSE valid[t] \ {p}
       IN  IF t \in stored
             THEN valid' = [valid EXCEPT ![t] = pages]
             ELSE UNCHANGED valid
    /\ Done(r)
    /\ UNCHANGED <<stored, active, created, seeded>>

-----------------------------------------------------------------------------
\* activate_theme: get_by_id, then validate_pages on the row that was read.
CheckTheme(r, t) ==
    /\ Idle(r)
    /\ t \in stored
    /\ valid[t] = Pages
    /\ Then(r, [step |-> "activate", theme |-> t])
    /\ UNCHANGED <<stored, valid, active, history>>

\* activate: one transaction, which finds the theme again.
Activate(r) ==
    /\ request[r].step = "activate"
    /\ active' = IF request[r].theme \in stored THEN request[r].theme ELSE active
    /\ Done(r)
    /\ UNCHANGED <<stored, valid, history>>

-----------------------------------------------------------------------------
\* A slip: an active theme is deleted like any other.
AcceptAny(r, t) ==
    /\ Idle(r)
    /\ t \in stored
    /\ Then(r, [step |-> "delete", theme |-> t])
    /\ UNCHANGED <<stored, valid, active, history>>

\* delete_theme refuses the theme that is active when it looks.
CheckInactive(r, t) ==
    /\ Idle(r)
    /\ t \in stored
    /\ active # t
    /\ Then(r, [step |-> "delete", theme |-> t])
    /\ UNCHANGED <<stored, valid, active, history>>

\* What is known of a row ends with it.
Erase(t) ==
    /\ stored' = stored \ {t}
    /\ valid' = [valid EXCEPT ![t] = {}]
    /\ seeded' = seeded \ {t}

\* A slip: the foreign key leaves realm_settings alone.
DeleteRowOnly(r) ==
    /\ request[r].step = "delete"
    /\ Erase(request[r].theme)
    /\ Done(r)
    /\ UNCHANGED <<active, created>>

\* delete; fk_realm_settings_portal_theme is ON DELETE SET NULL.
Delete(r) ==
    /\ request[r].step = "delete"
    /\ Erase(request[r].theme)
    /\ active' = IF active = request[r].theme THEN None ELSE active
    /\ Done(r)
    /\ UNCHANGED created

-----------------------------------------------------------------------------
\* upsert, of a realm without an active theme: create ...
FindNoTheme(r) ==
    /\ Idle(r)
    /\ active = None
    /\ Then(r, [step |-> "create", theme |-> None])
    /\ UNCHANGED <<stored, valid, active, history>>

CreateDefault(r, t) ==
    /\ request[r].step = "create"
    /\ Insert(t)
    /\ seeded' = seeded \union {t}
    /\ Then(r, [step |-> "seed", theme |-> t])
    /\ UNCHANGED <<valid, active>>

\* ... and set_realm_active_theme, which the foreign key refuses for a theme
\* deleted since.
Seed(r) ==
    /\ request[r].step = "seed"
    /\ active' = IF request[r].theme \in stored THEN request[r].theme ELSE active
    /\ Done(r)
    /\ UNCHANGED <<stored, valid, history>>

\* A database error or a lost connection: the rest is not executed.
Abort(r) ==
    /\ ~Idle(r)
    /\ Done(r)
    /\ UNCHANGED <<stored, valid, active, history>>

ThemeRequest(r) ==
    \/ \E t \in Themes, p \in Pages, ok \in BOOLEAN : CheckPage(r, t, p, ok)
    \/ \E t \in Themes : CheckTheme(r, t) \/ CheckInactive(r, t) \/ CreateDefault(r, t)
    \/ WritePage(r) \/ Activate(r) \/ Delete(r) \/ FindNoTheme(r) \/ Seed(r) \/ Abort(r)

-----------------------------------------------------------------------------
(* "The live theme must always satisfy requirements because the public     *)
(* portal already renders it" (update_theme_page).  Whatever happens to    *)
(* other themes at the same time, the checks of update_theme_page and      *)
(* activate_theme keep it so for a theme that no two requests have worked  *)
(* on at a time; the older endpoint activates without a check.             *)
LiveThemeIsValid ==
    active # None /\ active \notin contested => valid[active] = Pages \/ active \in seeded
=============================================================================
