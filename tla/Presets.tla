------------------------------- MODULE Presets -------------------------------
(***************************************************************************)
(* Theme presets: which one is the default, and which one a user chose.    *)
(*                                                                         *)
(* Setting the default is one transaction of two statements: an UPDATE     *)
(* that clears the flag wherever it is set, then the save of one row.  The *)
(* UPDATE decides by what is committed when it begins, waits for rows that *)
(* another transaction has written, and clears those that still match.     *)
(***************************************************************************)
EXTENDS Naturals, FiniteSets

CONSTANTS
    Themes,         \* presets; each is created at most once
    FirstTheme,     \* the one that the first start makes
    Stylers,        \* requests in progress at one time
    Persona         \* users who choose

ASSUME ThemeConstants == FirstTheme \in Themes

VARIABLES
    presets,        \* rows that are committed
    born,           \* those that were ever created
    defaults,       \* rows with is_default set
    chosen,         \* theme_preset_id of each user: a set of one, or empty
    styler          \* what each request is doing

presetVars == <<presets, born, defaults, chosen, styler>>

Unused == [step |-> "off"]
Opens(r, what) == styler[r] = Unused /\ styler' = [styler EXCEPT ![r] = what]
Closes(r) == styler' = [styler EXCEPT ![r] = Unused]

\* Rows that a transaction in progress has written.
Holds(r) == IF styler[r].step = "set" THEN styler[r].rows ELSE {}
LockedBy(others) == UNION {Holds(r) : r \in others}

\* init_default_theme_presets.
PresetsInit ==
    /\ presets = {FirstTheme} /\ born = {FirstTheme} /\ defaults = {FirstTheme}
    /\ chosen = [u \in Persona |-> {}]
    /\ styler = [r \in Stylers |-> Unused]

CreatePreset(t) ==
    /\ t \notin born
    /\ presets' = presets \union {t} /\ born' = born \union {t}
    /\ UNCHANGED <<defaults, chosen, styler>>

\* theme_preset_id has no ON DELETE: a preset that somebody chose stays.
DeletePreset(t) ==
    /\ t \in presets \ LockedBy(Stylers)
    /\ \A u \in Persona : t \notin chosen[u]
    /\ presets' = presets \ {t} /\ defaults' = defaults \ {t}
    /\ UNCHANGED <<born, chosen, styler>>

LoadPreset(r, t) ==
    /\ t \in presets
    /\ Opens(r, [step |-> "clear", preset |-> t])
    /\ UNCHANGED <<presets, born, defaults, chosen>>

\* The rows that match when the UPDATE begins.
BeginClear(r) ==
    /\ styler[r].step = "clear"
    /\ styler' = [styler EXCEPT ![r] =
           [step |-> "wait", preset |-> styler[r].preset, rows |-> defaults]]
    /\ UNCHANGED <<presets, born, defaults, chosen>>

\* Mutant: the clearing is committed before the default is set.
ClearAtOnce(r) ==
    LET what == styler[r] IN
    /\ what.step = "wait"
    /\ what.rows \intersect LockedBy(Stylers \ {r}) = {}
    /\ styler' = [styler EXCEPT ![r] = [step |-> "set", preset |-> what.preset, rows |-> {}]]
    /\ defaults' = defaults \ what.rows
    /\ UNCHANGED <<presets, born, chosen>>

\* Those that still match, once nobody else has written them.
ClearDefaults(r) ==
    LET what == styler[r] IN
    /\ what.step = "wait"
    /\ what.rows \intersect LockedBy(Stylers \ {r}) = {}
    /\ styler' = [styler EXCEPT ![r] =
           [step |-> "set", preset |-> what.preset, rows |-> what.rows \intersect defaults]]
    /\ UNCHANGED <<presets, born, defaults, chosen>>

\* The commit; a row that is gone undoes the clearing.
SaveDefault(r) ==
    LET what == styler[r] IN
    /\ what.step = "set"
    /\ what.preset \notin LockedBy(Stylers \ {r})
    /\ defaults' = IF what.preset \in presets
                   THEN (defaults \ what.rows) \union {what.preset} ELSE defaults
    /\ Closes(r)
    /\ UNCHANGED <<presets, born, chosen>>

\* A crash, or the end of a deadlock.
StylerDies(r) ==
    /\ styler[r] # Unused
    /\ Closes(r)
    /\ UNCHANGED <<presets, born, defaults, chosen>>

\* PATCH /user/settings/theme: without a preset the choice is taken back, whatever
\* else was asked for.
ChooseTheme(u, choice) ==
    /\ choice \subseteq presets /\ Cardinality(choice) <= 1
    /\ chosen' = [chosen EXCEPT ![u] = choice]
    /\ UNCHANGED <<presets, born, defaults, styler>>

PresetsNext ==
    \/ \E t \in Themes : CreatePreset(t) \/ DeletePreset(t)
    \/ \E r \in Stylers, t \in Themes : LoadPreset(r, t)
    \/ \E r \in Stylers :
          BeginClear(r) \/ ClearDefaults(r) \/ SaveDefault(r) \/ StylerDies(r)
    \/ \E u \in Persona, choice \in SUBSET Themes : ChooseTheme(u, choice)

PresetsSpec == PresetsInit /\ [][PresetsNext]_presetVars

-----------------------------------------------------------------------------
(* Properties *)

StylerTypes ==
    {Unused} \union
    [step : {"clear"}, preset : Themes] \union
    [step : {"wait", "set"}, preset : Themes, rows : SUBSET Themes]

PresetsTypeOK ==
    /\ defaults \subseteq presets /\ presets \subseteq born /\ born \subseteq Themes
    /\ chosen \in [Persona -> SUBSET presets]
    /\ styler \in [Stylers -> StylerTypes]

\* As long as no default is deleted there is one: not even for a moment, and not
\* for good when a request dies after the clearing or its preset is deleted under
\* it, are the users without.  (There can be two.)
DefaultKept ==
    [][defaults # {} => defaults' # {} \/ \E t \in defaults : t \notin presets']_presetVars
=============================================================================
