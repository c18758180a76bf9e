-------------------------- MODULE ProviderSettings --------------------------
(***************************************************************************)
(* What a user's providers.json and catalog.toml mean together             *)
(* (provider_config.py, catalog_loader.py).                                *)
(*                                                                         *)
(* A DEFINITION says what a provider offers: its models, its default       *)
(* model, the thinking levels of each model, and the models it withdrew.   *)
(* Definitions are packaged with the program and overlaid by the user's    *)
(* catalog file.  A CONFIG is a definition with the user's preferences     *)
(* applied (ProviderConfig), and SETTINGS are the configs the program      *)
(* works with.  Addresses, headers, retry numbers, costs and context       *)
(* windows travel with the definition and are left out.                    *)
(***************************************************************************)
EXTENDS Naturals, Sequences, FiniteSets, Selection

CONSTANTS
    NameOrder,  \* the providers, in the order their names sort
    Builtin,    \* those the program is packaged with
    Models,
    DefaultName, \* DEFAULT_PROVIDER_NAME
    LevelOrder, \* THINKING_LEVELS
    DefaultLevel, \* DEFAULT_THINKING_LEVEL
    Bundled     \* Bundled[release][name]: the packaged definitions

Null == "none"
Names == {NameOrder[i] : i \in DOMAIN NameOrder}
Levels == {LevelOrder[i] : i \in DOMAIN LevelOrder}
FirstOf(order, chosen) ==
    order[CHOOSE i \in DOMAIN order :
            order[i] \in chosen /\ \A j \in 1 .. i - 1 : order[j] \notin chosen]

\* One mapping laid over another, and with one entry set.
Laid(over, base) == [n \in DOMAIN over \cup DOMAIN base |->
                       IF n \in DOMAIN over THEN over[n] ELSE base[n]]
With(base, n, value) == Laid([k \in {n} |-> value], base)

-----------------------------------------------------------------------------
(* The catalog: packaged definitions, the user's over them, withdrawals.   *)

\* A user's table may hold only a few keys: no models and no default then.
Withdrawal(models) == [models |-> {}, default |-> Null,
                       levels |-> [m \in Models |-> {}], removed |-> models]
Definitions == [models : SUBSET Models, default : Models \cup {Null},
                levels : [Models -> SUBSET Levels], removed : SUBSET Models]

MergeDefinition(base, over) ==
    [models  |-> over.models \cup base.models,
     default |-> IF over.default = Null THEN base.default ELSE over.default,
     levels  |-> [m \in Models |-> IF m \in over.models THEN over.levels[m]
                                                        ELSE base.levels[m]],
     removed |-> base.removed \cup over.removed]

Tombstoned(def, base) ==
    LET left == def.models \ def.removed IN
    [def EXCEPT !.models = left,
                !.default = IF @ \notin def.removed THEN @
                            ELSE IF base.default \in left THEN base.default
                            ELSE CHOOSE m \in left : TRUE]

\* What the catalog's loader insists on, of a table merged with what every release packages.
Complete(def) == def.default \in def.models /\ ~(def.models \subseteq def.removed)
Accepted(n, def) ==
    IF n \in Builtin THEN \A r \in DOMAIN Bundled : Complete(MergeDefinition(Bundled[r][n], def))
                    ELSE Complete(def)

ASSUME SettingsAssumption ==
       /\ NameOrder \in Seq(Names) /\ LevelOrder \in Seq(Levels)
       /\ Builtin \subseteq Names /\ DefaultName \in Builtin /\ DefaultLevel \in Levels
       /\ Bundled \in Seq([Builtin -> Definitions]) /\ Bundled # <<>>
       /\ \A r \in DOMAIN Bundled : \A n \in Builtin : Complete(Bundled[r][n])

BuiltinEntry(release, n) == Tombstoned(Bundled[release][n], Bundled[release][n])

Effective(release, overlay) ==
    [n \in Builtin \cup DOMAIN overlay |->
        IF n \notin DOMAIN overlay THEN BuiltinEntry(release, n)
        ELSE IF n \in Builtin
             THEN Tombstoned(MergeDefinition(Bundled[release][n], overlay[n]),
                             Bundled[release][n])
             ELSE Tombstoned(overlay[n], overlay[n])]

-----------------------------------------------------------------------------
(* Configs, and the preferences the settings file keeps of them.           *)

ConfigOf(def) == [models |-> def.models, default |-> def.default,
                  levels |-> def.levels, chosen |-> [m \in Models |-> Null]]

Configs == {c \in [models : SUBSET Models, default : Models, levels : [Models -> SUBSET Levels],
                   chosen : [Models -> Levels \cup {Null}]] : c.default \in c.models}

Preference(config) == [default |-> config.default, chosen |-> config.chosen]

ApplyPreference(config, pref) ==
    [config EXCEPT !.default = IF pref.default \in config.models THEN pref.default ELSE @,
                   !.chosen  = [m \in Models |-> IF m \in config.models THEN pref.chosen[m]
                                                                        ELSE Null]]

\* A remembered level the model does not offer makes the whole file unreadable.
PreferenceFits(config, pref) ==
    \A m \in config.models : pref.chosen[m] \in config.levels[m] \cup {Null}

MergeConfig(existing, incoming) ==
    LET models == incoming.models \cup existing.models IN
    [models  |-> models,
     default |-> IF existing.default \in models THEN existing.default ELSE incoming.default,
     levels  |-> [m \in Models |-> IF m \in existing.models THEN existing.levels[m]
                                                            ELSE incoming.levels[m]],
     chosen  |-> existing.chosen]

AppendCatalog(providers, eff, creds) ==
    LET wanted == {n \in DOMAIN eff : n \notin Builtin \/ n \in creds}
    IN  Laid(providers, [n \in wanted |-> ConfigOf(eff[n])])

MigratedConfig(legacy, def) ==
    LET config == ConfigOf(def) IN
    ApplyPreference(config,
        [default |-> IF legacy.default \in def.models THEN legacy.default ELSE def.default,
         chosen  |-> [m \in Models |->
                        IF m \in def.models /\ legacy.chosen[m] \in def.levels[m]
                        THEN legacy.chosen[m] ELSE Null]])

Offering(providers) == {x \in (DOMAIN providers) \X Models : x[2] \in providers[x[1]].models}
ScopedKept(scoped, providers) == Among(scoped, Offering(providers))

-----------------------------------------------------------------------------
(* The file: none, the older shape (whole providers), or preferences.      *)

NoFile == [is |-> "none"]
LegacyFile(settings) == [is |-> "legacy", settings |-> settings]
PreferencesFile(settings) ==
    [is |-> "current", default |-> settings.default, scoped |-> settings.scoped,
     prefs |-> [n \in DOMAIN settings.providers |-> Preference(settings.providers[n])]]

WithDefault(default, providers, first, scoped) ==
    [default   |-> IF default \in DOMAIN providers THEN default
                   ELSE IF DOMAIN providers = {} THEN DefaultName
                   ELSE FirstOf(NameOrder, IF first # {} THEN first ELSE DOMAIN providers),
     providers |-> providers, scoped |-> scoped]

Readable(file, eff) ==
    file.is = "current" =>
        \A n \in DOMAIN file.prefs \cap DOMAIN eff :
            PreferenceFits(ConfigOf(eff[n]), file.prefs[n])

LoadedCurrent(file, eff, creds) ==
    LET known == DOMAIN file.prefs \cap DOMAIN eff
        configs == [n \in known |-> ApplyPreference(ConfigOf(eff[n]), file.prefs[n])]
    IN  WithDefault(file.default, AppendCatalog(configs, eff, creds), known, file.scoped)

Migrated(file, eff, creds) ==
    LET old == file.settings
        configs == [n \in DOMAIN old.providers |->
                       IF n \in DOMAIN eff THEN MigratedConfig(old.providers[n], eff[n])
                                           ELSE old.providers[n]]
        all == AppendCatalog(configs, eff, creds)
    IN  WithDefault(old.default, all, DOMAIN configs, ScopedKept(old.scoped, all))

LoadSettings(file, eff, creds) ==
    CASE file.is = "none"    -> [default |-> DefaultName, scoped |-> <<>>,
                                 providers |-> [n \in DOMAIN eff |-> ConfigOf(eff[n])]]
      [] file.is = "current" -> LoadedCurrent(file, eff, creds)
      [] file.is = "legacy"  -> Migrated(file, eff, creds)

-----------------------------------------------------------------------------
(* Saving writes the definitions the catalog does not have, then the file. *)

EntryOf(config, eff, n) ==
    [models |-> config.models, levels |-> config.levels, removed |-> {},
     default |-> IF n \in DOMAIN eff /\ eff[n].default \in config.models
                 THEN eff[n].default ELSE config.default]

DefinitionDiffers(config, def) ==
    config.models # def.models \/ \E m \in config.models : config.levels[m] # def.levels[m]

SavedOverlay(settings, eff, overlay) ==
    LET written == {n \in DOMAIN settings.providers :
                       n \in DOMAIN eff => DefinitionDiffers(settings.providers[n], eff[n])}
    IN  Laid([n \in written |-> EntryOf(settings.providers[n], eff, n)], overlay)

MigratedOverlay(settings, eff, overlay) ==
    Laid([n \in DOMAIN settings.providers \ DOMAIN eff |-> EntryOf(settings.providers[n], eff, n)],
         overlay)

-----------------------------------------------------------------------------
(* The changes a program makes to settings it has just read again.         *)

SetDefault(settings, n, m) == [settings EXCEPT !.default = n, !.providers[n].default = m]
SetChosen(settings, n, m, l) == [settings EXCEPT !.providers[n].chosen[m] = l]
ToggleScoped(settings, n, m) ==
    [settings EXCEPT !.scoped =
        IF \E i \in DOMAIN @ : @[i] = <<n, m>>
        THEN Among(@, ToSet(@) \ {<<n, m>>}) ELSE Append(@, <<n, m>>)]
UpsertProvider(settings, n, config) ==
    [settings EXCEPT !.providers =
        With(@, n, IF n \in DOMAIN @ /\ n \in Builtin THEN MergeConfig(@[n], config) ELSE config)]

-----------------------------------------------------------------------------
(* The thinking level of a model.                                          *)

DefaultLevelOf(offered) ==
    IF DefaultLevel \in offered THEN DefaultLevel ELSE FirstOf(LevelOrder, offered)

\* Nothing offered: the level is left as it was and has no effect.
CoercedLevel(config, m, current, preferred) ==
    LET offered == config.levels[m] IN
    IF offered = {} \/ current \in offered THEN current
    ELSE IF preferred \in offered THEN preferred
    ELSE DefaultLevelOf(offered)

PreferredLevel(config, m, fallback) ==
    LET offered == config.levels[m] IN
    IF config.chosen[m] \in offered THEN config.chosen[m]
    ELSE IF fallback \in offered \/ offered = {} THEN fallback
    ELSE DefaultLevelOf(offered)
=============================================================================
