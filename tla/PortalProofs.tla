---------------------------- MODULE PortalProofs ----------------------------
(* Proofs about Portal, for any themes, pages, layouts and number of       *)
(* overlapping requests.                                                   *)
EXTENDS Portal, TLAPS

USE NoneAssumption, PagesAssumption, LayoutsAssumption DEF Waiting, Pending

-----------------------------------------------------------------------------
(* Part 1: themes.                                                         *)

(* A request works on a theme that exists or existed, and the older        *)
(* endpoint on one it has created.                                         *)
RequestsAgree ==
    \A r \in Requests :
        /\ ~Idle(r) => request[r] \in Pending
        /\ request[r].step \in {"write", "activate", "delete", "seed"} => request[r].theme \in created
        /\ request[r].step = "seed" => request[r].theme \in seeded \/ request[r].theme \notin stored
        /\ request[r].step = "create" => request[r].theme = None

(* What a request has checked of its theme still holds, as long as no two  *)
(* requests have worked on that theme at a time.                           *)
Alone(t, r) ==
    /\ \A s \in Requests : WorksOn(request[s], t) => r = s
    /\ request[r].step = "write" /\ t = active => request[r].ok
    /\ request[r].step = "activate" => valid[t] = Pages
    /\ request[r].step = "delete" => t # active

ChecksHold == \A t \in Themes \ contested, r \in Requests : WorksOn(request[r], t) => Alone(t, r)

ThemesInv ==
    /\ ThemesTypeOK
    /\ RequestsAgree
    /\ ChecksHold
    /\ LiveThemeIsValid

LEMMA ThemesInitially == ThemesInit => ThemesInv
  BY DEF ThemesInit, ThemesInv, ThemesTypeOK, RequestsAgree, Idle, ChecksHold, WorksOn, LiveThemeIsValid

LEMMA InsertKeepsThemes ==
    ASSUME ThemesInv, NEW t \in Themes, CreateTheme(t) PROVE ThemesInv'
  <1> USE DEF ThemesInv, CreateTheme, Insert
  <1>1. ThemesTypeOK'
    BY DEF ThemesTypeOK
  <1>2. RequestsAgree'
    BY DEF RequestsAgree, Idle, ThemesTypeOK
  <1>3. ChecksHold' /\ LiveThemeIsValid'
    BY DEF ChecksHold, Alone, WorksOn, LiveThemeIsValid
  <1> QED
    BY <1>1, <1>2, <1>3

LEMMA RequestKeepsThemes ==
    ASSUME ThemesInv, NEW r \in Requests, ThemeRequest(r) PROVE ThemesInv'
  <1> USE DEF ThemesInv, ThemesTypeOK, history, Idle, RequestsAgree
  <1>1. ASSUME NEW t \in Themes, NEW p \in Pages, NEW ok \in BOOLEAN, CheckPage(r, t, p, ok) PROVE ThemesInv'
    <2>1. ThemesTypeOK'
      BY <1>1 DEF CheckPage, Then, WorksOn
    <2>2. RequestsAgree'
      BY <1>1 DEF CheckPage, Then, WorksOn
    <2>3. ChecksHold'
      BY <1>1 DEF CheckPage, Then, WorksOn, ChecksHold, Alone
    <2>4. LiveThemeIsValid'
      BY <1>1 DEF CheckPage, Then, WorksOn, ChecksHold, Alone, LiveThemeIsValid
    <2> QED
      BY <2>1, <2>2, <2>3, <2>4
  <1>2. ASSUME NEW t \in Themes, CheckTheme(r, t) PROVE ThemesInv'
    <2>1. ThemesTypeOK'
      BY <1>2 DEF CheckTheme, Then, WorksOn
    <2>2. RequestsAgree'
      BY <1>2 DEF CheckTheme, Then, WorksOn
    <2>3. ChecksHold'
      BY <1>2 DEF CheckTheme, Then, WorksOn, ChecksHold, Alone
    <2>4. LiveThemeIsValid'
      BY <1>2 DEF CheckTheme, Then, WorksOn, ChecksHold, Alone, LiveThemeIsValid
    <2> QED
      BY <2>1, <2>2, <2>3, <2>4
  <1>3. ASSUME NEW t \in Themes, CheckInactive(r, t) PROVE ThemesInv'
    <2>1. ThemesTypeOK'
      BY <1>3 DEF CheckInactive, Then, WorksOn
    <2>2. RequestsAgree'
      BY <1>3 DEF CheckInactive, Then, WorksOn
    <2>3. ChecksHold'
      BY <1>3 DEF CheckInactive, Then, WorksOn, ChecksHold, Alone
    <2>4. LiveThemeIsValid'
      BY <1>3 DEF CheckInactive, Then, WorksOn, ChecksHold, Alone, LiveThemeIsValid
    <2> QED
      BY <2>1, <2>2, <2>3, <2>4
  <1>4. ASSUME NEW t \in Themes, CreateDefault(r, t) PROVE ThemesInv'
    <2>1. ThemesTypeOK'
      BY <1>4 DEF CreateDefault, Insert, Then, WorksOn
    <2>2. RequestsAgree'
      BY <1>4 DEF CreateDefault, Insert, Then, WorksOn
    <2>3. ChecksHold'
      BY <1>4 DEF CreateDefault, Insert, Then, WorksOn, ChecksHold, Alone
    <2>4. LiveThemeIsValid'
      BY <1>4 DEF CreateDefault, Insert, Then, WorksOn, ChecksHold, Alone, LiveThemeIsValid
    <2> QED
      BY <2>1, <2>2, <2>3, <2>4
  <1>5. ASSUME WritePage(r) PROVE ThemesInv'
    <2>1. ThemesTypeOK'
      BY <1>5 DEF WritePage, Done, Then, WorksOn
    <2>2. RequestsAgree'
      BY <1>5 DEF WritePage, Done, Then, WorksOn
    <2>3. ChecksHold'
      BY <1>5 DEF WritePage, Done, Then, WorksOn, ChecksHold, Alone
    <2>4. LiveThemeIsValid'
      <3>1. CASE request[r].theme = active
        <4> SUFFICES ASSUME active # None, active \notin contested, active \notin seeded
                     PROVE  valid'[active] = Pages
          BY <1>5 DEF WritePage, Done, Then, WorksOn, LiveThemeIsValid
        <4>1. valid[active] = Pages /\ request[r].ok /\ request[r].page \in Pages
          BY <1>5, <3>1 DEF WritePage, ChecksHold, Alone, WorksOn, LiveThemeIsValid
        <4>2. valid[active] \union {request[r].page} = Pages
          BY <4>1
        <4> QED
          BY <1>5, <3>1, <4>1, <4>2 DEF WritePage
      <3>2. CASE request[r].theme # active
        BY <1>5, <3>2 DEF WritePage, Done, Then, WorksOn, LiveThemeIsValid
      <3> QED
        BY <3>1, <3>2
    <2> QED
      BY <2>1, <2>2, <2>3, <2>4
  <1>6. ASSUME Activate(r) PROVE ThemesInv'
    <2>1. ThemesTypeOK'
      BY <1>6 DEF Activate, Done, Then, WorksOn
    <2>2. RequestsAgree'
      BY <1>6 DEF Activate, Done, Then, WorksOn
    <2>3. ChecksHold'
      BY <1>6 DEF Activate, Done, Then, WorksOn, ChecksHold, Alone
    <2>4. LiveThemeIsValid'
      BY <1>6 DEF Activate, Done, Then, WorksOn, ChecksHold, Alone, LiveThemeIsValid
    <2> QED
      BY <2>1, <2>2, <2>3, <2>4
  <1>7. ASSUME Delete(r) PROVE ThemesInv'
    <2>1. ThemesTypeOK'
      BY <1>7 DEF Delete, Erase, Done, Then, WorksOn
    <2>2. RequestsAgree'
      BY <1>7 DEF Delete, Erase, Done, Then, WorksOn
    <2>3. ChecksHold'
      BY <1>7 DEF Delete, Erase, Done, Then, WorksOn, ChecksHold, Alone
    <2>4. LiveThemeIsValid'
      BY <1>7 DEF Delete, Erase, Done, Then, WorksOn, ChecksHold, Alone, LiveThemeIsValid
    <2> QED
      BY <2>1, <2>2, <2>3, <2>4
  <1>8. ASSUME FindNoTheme(r) PROVE ThemesInv'
    <2>1. ThemesTypeOK'
      BY <1>8 DEF FindNoTheme, Then, WorksOn
    <2>2. RequestsAgree'
      BY <1>8 DEF FindNoTheme, Then, WorksOn
    <2>3. ChecksHold'
      BY <1>8 DEF FindNoTheme, Then, WorksOn, ChecksHold, Alone
    <2>4. LiveThemeIsValid'
      BY <1>8 DEF FindNoTheme, Then, WorksOn, ChecksHold, Alone, LiveThemeIsValid
    <2> QED
      BY <2>1, <2>2, <2>3, <2>4
  <1>9. ASSUME Seed(r) PROVE ThemesInv'
    <2>1. ThemesTypeOK'
      BY <1>9 DEF Seed, Done, Then, WorksOn
    <2>2. RequestsAgree'
      BY <1>9 DEF Seed, Done, Then, WorksOn
    <2>3. ChecksHold'
      BY <1>9 DEF Seed, Done, Then, WorksOn, ChecksHold, Alone
    <2>4. LiveThemeIsValid'
      BY <1>9 DEF Seed, Done, Then, WorksOn, ChecksHold, Alone, LiveThemeIsValid
    <2> QED
      BY <2>1, <2>2, <2>3, <2>4
  <1>10. ASSUME Abort(r) PROVE ThemesInv'
    <2>1. ThemesTypeOK'
      BY <1>10 DEF Abort, Done, Then, WorksOn
    <2>2. RequestsAgree'
      BY <1>10 DEF Abort, Done, Then, WorksOn
    <2>3. ChecksHold'
      BY <1>10 DEF Abort, Done, Then, WorksOn, ChecksHold, Alone
    <2>4. LiveThemeIsValid'
      BY <1>10 DEF Abort, Done, Then, WorksOn, ChecksHold, Alone, LiveThemeIsValid
    <2> QED
      BY <2>1, <2>2, <2>3, <2>4
  <1> QED
    BY <1>1, <1>2, <1>3, <1>4, <1>5, <1>6, <1>7, <1>8, <1>9, <1>10 DEF ThemeRequest

-----------------------------------------------------------------------------
(* Part 2: layouts.                                                        *)

(* What is being deleted was stored, and if it is the default it was made  *)
(* so after the deletion had looked at it.                                 *)
DeletionsCross ==
    \A r \in Requests, l \in Layouts :
        Deleting(r, l) => l \in drawn /\ (l \in isDefault => crossed)

(* Since the first layout there has been a default, unless it was lost to  *)
(* such a crossing; a creation that has seen one comes after the first.    *)
DefaultSinceFirst ==
    /\ drawn # {} => isDefault # {} \/ crossed
    /\ \A r \in Requests : job[r].step = "insert" /\ ~ job[r].first => drawn # {}

LayoutsInv == LayoutsTypeOK /\ DeletionsCross /\ DefaultSinceFirst

LEMMA LayoutsInitially == LayoutsInit /\ ThemesInit => LayoutsInv
  <1> SUFFICES ASSUME LayoutsInit, ThemesInit PROVE LayoutsInv
    OBVIOUS
  <1>1. LayoutsTypeOK
    BY DEF LayoutsInit, ThemesInit, LayoutsTypeOK, Jobs
  <1>2. DeletionsCross /\ DefaultSinceFirst
    BY DEF LayoutsInit, DeletionsCross, Deleting, DefaultSinceFirst
  <1> QED
    BY <1>1, <1>2 DEF LayoutsInv

LEMMA ReferKeepsLayouts ==
    ASSUME LayoutsInv, NEW t \in Themes, NEW l \in Layouts \union {None}, Refer(t, l),
           t \in stored', stored \subseteq stored'
    PROVE  LayoutsInv'
  <1>1. LayoutsTypeOK'
    BY DEF LayoutsInv, LayoutsTypeOK, Refer
  <1>2. DeletionsCross' /\ DefaultSinceFirst'
    BY DEF LayoutsInv, Refer, DeletionsCross, Deleting, DefaultSinceFirst
  <1> QED
    BY <1>1, <1>2 DEF LayoutsInv

LEMMA ReleaseKeepsLayouts ==
    ASSUME LayoutsInv, Release PROVE LayoutsInv'
  <1>1. LayoutsTypeOK'
    BY DEF LayoutsInv, LayoutsTypeOK, Release
  <1>2. DeletionsCross' /\ DefaultSinceFirst'
    BY DEF LayoutsInv, Release, DeletionsCross, Deleting, DefaultSinceFirst
  <1> QED
    BY <1>1, <1>2 DEF LayoutsInv

LEMMA DefaultKeepsLayouts ==
    ASSUME LayoutsInv, NEW l \in Layouts, SetDefault(l), UNCHANGED stored PROVE LayoutsInv'
  <1>1. LayoutsTypeOK'
    BY DEF LayoutsInv, LayoutsTypeOK, SetDefault
  <1>2. DeletionsCross' /\ DefaultSinceFirst'
    BY DEF LayoutsInv, SetDefault, DeletionsCross, Deleting, DefaultSinceFirst
  <1> QED
    BY <1>1, <1>2 DEF LayoutsInv

LEMMA RequestKeepsLayouts ==
    ASSUME LayoutsInv, NEW r \in Requests, LayoutRequest(r), UNCHANGED stored PROVE LayoutsInv'
  <1> USE DEF LayoutsInv, Jobs
  <1>1. ASSUME FindDefault(r) PROVE LayoutsInv'
    <2>1. LayoutsTypeOK'
      BY <1>1 DEF FindDefault, Continue, Resting, LayoutsTypeOK
    <2>2. DeletionsCross'
      BY <1>1 DEF FindDefault, Continue, Resting, LayoutsTypeOK, DeletionsCross, Deleting
    <2>3. DefaultSinceFirst'
      BY <1>1 DEF FindDefault, Continue, Resting, LayoutsTypeOK, DeletionsCross, Deleting, DefaultSinceFirst
    <2> QED
      BY <2>1, <2>2, <2>3
  <1>2. ASSUME NEW l \in Layouts, InsertLayout(r, l) PROVE LayoutsInv'
    <2>1. /\ layouts' = layouts \union {l} /\ drawn' = drawn \union {l}
          /\ l \notin drawn /\ UNCHANGED layoutOf /\ job[r].first \in BOOLEAN
      BY <1>2 DEF InsertLayout, LayoutsTypeOK
    <2>2. /\ job' \in [Requests -> Jobs]
          /\ \A s \in Requests, k \in Layouts : Deleting(s, k)' => Deleting(s, k)
          /\ \A s \in Requests : job'[s].step = "insert" => job[s] = job'[s]
      BY <1>2 DEF InsertLayout, Rest, Continue, LayoutsTypeOK, Deleting
    <2>3. CASE job[r].first
      <3>1. isDefault' = {l} /\ crossed' = FALSE
        BY <1>2, <2>3 DEF InsertLayout
      <3>2. LayoutsTypeOK'
        BY <2>1, <2>2, <3>1 DEF LayoutsTypeOK
      <3>3. DeletionsCross' /\ DefaultSinceFirst'
        BY <2>1, <2>2, <3>1 DEF DeletionsCross, DefaultSinceFirst
      <3> QED
        BY <3>2, <3>3
    <2>4. CASE ~ job[r].first
      <3>1. UNCHANGED <<isDefault, crossed>> /\ (isDefault # {} \/ crossed)
        BY <1>2, <2>4 DEF InsertLayout, DefaultSinceFirst
      <3>2. LayoutsTypeOK'
        BY <2>1, <2>2, <3>1 DEF LayoutsTypeOK
      <3>3. DeletionsCross' /\ DefaultSinceFirst'
        BY <2>1, <2>2, <3>1 DEF DeletionsCross, DefaultSinceFirst
      <3> QED
        BY <3>2, <3>3
    <2> QED
      BY <2>1, <2>3, <2>4
  <1>3. ASSUME NEW l \in Layouts, CheckNotDefault(r, l) PROVE LayoutsInv'
    <2>1. LayoutsTypeOK'
      BY <1>3 DEF CheckNotDefault, Continue, Resting, LayoutsTypeOK
    <2>2. DeletionsCross'
      BY <1>3 DEF CheckNotDefault, Continue, Resting, LayoutsTypeOK, DeletionsCross, Deleting
    <2>3. DefaultSinceFirst'
      BY <1>3 DEF CheckNotDefault, Continue, Resting, LayoutsTypeOK, DeletionsCross, Deleting, DefaultSinceFirst
    <2> QED
      BY <2>1, <2>2, <2>3
  <1>4. ASSUME CheckUnused(r) PROVE LayoutsInv'
    <2>1. LayoutsTypeOK'
      BY <1>4 DEF CheckUnused, Continue, Used, LayoutsTypeOK
    <2>2. DeletionsCross'
      BY <1>4 DEF CheckUnused, Continue, Used, LayoutsTypeOK, DeletionsCross, Deleting
    <2>3. DefaultSinceFirst'
      BY <1>4 DEF CheckUnused, Continue, Used, LayoutsTypeOK, DeletionsCross, Deleting, DefaultSinceFirst
    <2> QED
      BY <2>1, <2>2, <2>3
  <1>5. ASSUME DeleteLayout(r) PROVE LayoutsInv'
    <2>1. LayoutsTypeOK'
      BY <1>5 DEF DeleteLayout, Rest, Continue, Used, LayoutsTypeOK
    <2>2. DeletionsCross'
      BY <1>5 DEF DeleteLayout, Rest, Continue, Used, LayoutsTypeOK, DeletionsCross, Deleting
    <2>3. DefaultSinceFirst'
      BY <1>5 DEF DeleteLayout, Rest, Continue, Used, LayoutsTypeOK, DeletionsCross, Deleting, DefaultSinceFirst
    <2> QED
      BY <2>1, <2>2, <2>3
  <1>6. ASSUME AbortLayout(r) PROVE LayoutsInv'
    <2>1. LayoutsTypeOK'
      BY <1>6 DEF AbortLayout, Rest, Continue, Resting, LayoutsTypeOK
    <2>2. DeletionsCross'
      BY <1>6 DEF AbortLayout, Rest, Continue, Resting, LayoutsTypeOK, DeletionsCross, Deleting
    <2>3. DefaultSinceFirst'
      BY <1>6 DEF AbortLayout, Rest, Continue, Resting, LayoutsTypeOK, DeletionsCross, Deleting, DefaultSinceFirst
    <2> QED
      BY <2>1, <2>2, <2>3
  <1> QED
    BY <1>1, <1>2, <1>3, <1>4, <1>5, <1>6 DEF LayoutRequest

-----------------------------------------------------------------------------
(* Part 3: both.                                                           *)

PortalInv == ThemesInv /\ LayoutsInv

LEMMA Initially == Init => PortalInv
  BY ThemesInitially, LayoutsInitially DEF Init, PortalInv

LEMMA EveryStep == PortalInv /\ [Next]_vars => PortalInv'
  <1> SUFFICES ASSUME ThemesInv, LayoutsInv, [Next]_vars PROVE ThemesInv' /\ LayoutsInv'
    BY DEF PortalInv
  <1>1. ASSUME UNCHANGED themeVars PROVE ThemesInv' /\ UNCHANGED stored
    BY <1>1 DEF themeVars, ThemesInv, ThemesTypeOK, RequestsAgree, Idle, ChecksHold, Alone,
       WorksOn, LiveThemeIsValid
  <1>2. CASE ThemeInserted
    <2>1. PICK t \in Themes, l \in Layouts \union {None} : CreateTheme(t) /\ Refer(t, l)
      BY <1>2 DEF ThemeInserted
    <2>2. t \in stored' /\ stored \subseteq stored'
      BY <2>1 DEF CreateTheme, Insert
    <2>3. ThemesInv'
      BY <2>1, InsertKeepsThemes
    <2> QED
      BY <2>1, <2>2, <2>3, ReferKeepsLayouts
  <1>3. CASE ThemeEdited
    <2>1. PICK t \in Themes, l \in Layouts \union {None} : UpdateMetadata(t, l)
      BY <1>3 DEF ThemeEdited
    <2>2. Refer(t, l) /\ t \in stored /\ UNCHANGED themeVars
      BY <2>1 DEF UpdateMetadata
    <2>3. ThemesInv' /\ t \in stored' /\ stored \subseteq stored'
      BY <1>1, <2>2
    <2> QED
      BY <2>2, <2>3, ReferKeepsLayouts
  <1>4. CASE ThemeStep
    <2>1. PICK r \in Requests : ThemeRequest(r) /\ Release
      BY <1>4 DEF ThemeStep
    <2>2. ThemesInv'
      BY <2>1, RequestKeepsThemes
    <2>3. LayoutsInv'
      BY <2>1, ReleaseKeepsLayouts
    <2> QED
      BY <2>2, <2>3
  <1>5. CASE LayoutStep
    <2>1. ThemesInv' /\ UNCHANGED stored
      BY <1>1, <1>5 DEF LayoutStep
    <2>2. ASSUME NEW r \in Requests, LayoutRequest(r) PROVE LayoutsInv'
      BY <2>1, <2>2, RequestKeepsLayouts
    <2>3. ASSUME NEW l \in Layouts, SetDefault(l) PROVE LayoutsInv'
      BY <2>1, <2>3, DefaultKeepsLayouts
    <2> QED
      BY <1>5, <2>1, <2>2, <2>3 DEF LayoutStep
  <1>6. CASE UNCHANGED vars
    <2>1. ThemesInv' /\ UNCHANGED stored /\ UNCHANGED layoutVars
      BY <1>1, <1>6 DEF vars
    <2>2. LayoutsInv'
      BY <2>1 DEF layoutVars, LayoutsInv, LayoutsTypeOK, DeletionsCross, Deleting, DefaultSinceFirst
    <2> QED
      BY <2>1, <2>2
  <1> QED
    BY <1>2, <1>3, <1>4, <1>5, <1>6 DEF Next

LEMMA Inductive == Spec => []PortalInv
  BY Initially, EveryStep, PTL DEF Spec

(* The tables satisfy their constraints: the active theme is a stored row, *)
(* as is the layout of every theme, and at most one layout is the default. *)
THEOREM TypeCorrect == Spec => []TypeOK
  <1>1. PortalInv => TypeOK
    BY DEF PortalInv, ThemesInv, LayoutsInv, TypeOK
  <1> QED
    BY <1>1, Inductive, PTL

(* The live theme is valid on every page, or was created by the older      *)
(* endpoint, or two requests have worked on it at a time.                  *)
THEOREM LiveThemesAreValid == Spec => []LiveThemeIsValid
  <1>1. PortalInv => LiveThemeIsValid
    BY DEF PortalInv, ThemesInv
  <1> QED
    BY <1>1, Inductive, PTL

(* A realm with layouts has a default one, unless its last default was     *)
(* being deleted when it was made the default.                             *)
THEOREM DefaultsAreKept == Spec => []DefaultIsKept
  <1>1. PortalInv => DefaultIsKept
    BY DEF PortalInv, LayoutsInv, LayoutsTypeOK, DefaultSinceFirst, DefaultIsKept
  <1> QED
    BY <1>1, Inductive, PTL

(* delete_theme deletes the active theme only if two requests have worked  *)
(* on it at a time.                                                        *)
THEOREM ActiveThemesAreKept == Spec => ActiveThemeIsKept
  <1>1. ASSUME PortalInv, [Next]_vars
        PROVE  [active # None /\ active \notin contested => active' # None]_vars
    <2> SUFFICES ASSUME active # None, active \notin contested, active' = None PROVE FALSE
      OBVIOUS
    <2> USE DEF PortalInv, ThemesInv, ThemesTypeOK, RequestsAgree, history
    <2>1. ASSUME NEW r \in Requests, ThemeRequest(r) PROVE FALSE
      <3>1. ASSUME Delete(r) PROVE FALSE
        BY <1>1, <3>1 DEF Delete, ChecksHold, Alone, WorksOn
      <3>2. ASSUME Activate(r) PROVE FALSE
        BY <1>1, <3>2 DEF Activate
      <3>3. ASSUME Seed(r) PROVE FALSE
        BY <1>1, <3>3 DEF Seed
      <3> QED
        BY <2>1, <3>1, <3>2, <3>3 DEF ThemeRequest, CheckPage, CheckTheme, CheckInactive,
           CreateDefault, WritePage, FindNoTheme, Abort
    <2>2. CASE UNCHANGED themeVars
      BY <2>2 DEF themeVars
    <2> QED
      BY <1>1, <2>1, <2>2 DEF Next, vars, ThemeInserted, CreateTheme, ThemeEdited, UpdateMetadata,
         ThemeStep, LayoutStep
  <1> QED
    BY <1>1, Inductive, PTL DEF Spec, ActiveThemeIsKept
=============================================================================
