---------------------------- MODULE ModelChoice ----------------------------
(***************************************************************************)
(* One session's choice of provider, model and thinking level, against     *)
(* settings files that logins, other sessions, hand edits and upgrades     *)
(* change under it (session.py, provider_config.py, tui/app.py).           *)
(*                                                                         *)
(* The session shows a provider name, a model and a level; what it calls   *)
(* is a provider object BUILT for a name, a model and a level.  Every      *)
(* change of the choice reads the files again, changes them and rebuilds,  *)
(* and each of these can fail half way.  The pair of files is read and     *)
(* written in one step except by the migration of the older file.          *)
(***************************************************************************)
EXTENDS ProviderSettings

CONSTANTS
    LegacySettings, \* the settings of the older file a user may come from
    CatalogEdits,   \* tables a user may write into catalog.toml
    Conversations,  \* session records
    MaxChoices      \* bounds the steps that change something

\* A catalog that its loader rejects, and an older file that its loader rejects, are left out.
ASSUME ChoiceAssumption ==
       /\ DOMAIN LegacySettings.providers \subseteq Names
       /\ LegacySettings \in [default : Names, scoped : Seq(Names \X Models),
                              providers : [DOMAIN LegacySettings.providers -> Configs]]
       /\ \A n \in Names : \A def \in CatalogEdits[n] : def \in Definitions /\ Accepted(n, def)

NoChoice == <<>>
NoConfig == [is |-> "noconfig"]
Down == [up |-> FALSE]

VARIABLES file, overlay, release, creds,
          session,    \* the session of the program that is up
          records,    \* [Conversations -> <<provider, model>>]: the index
          journals,   \* [Conversations -> <<model, level>>]: its transcripts
          migrating,  \* the settings an interrupted migration still has to write
          unread,     \* others changed the files since the session read and rebuilt
          dropped,    \* providers never defined by the user, or taken out again
          choices

settingsFiles == <<file, overlay>>
choiceVars == <<file, overlay, release, creds, session, records, journals,
          migrating, unread, dropped, choices>>

Eff == Effective(release, overlay)
OnDisk == LoadSettings(file, Eff, creds)
CanLoad == Readable(file, Eff)

ChoiceInit ==
        /\ file \in {NoFile, LegacyFile(LegacySettings)}
        /\ overlay = <<>>
        /\ release = 1
        /\ creds \in SUBSET Builtin
        /\ session = Down
        /\ records = [c \in Conversations |-> NoChoice]
        /\ journals = [c \in Conversations |-> NoChoice]
        /\ migrating = NoConfig
        /\ unread = FALSE
        /\ dropped = IF file = NoFile THEN Names ELSE {}
        /\ choices = 0

Count == choices < MaxChoices /\ choices' = choices + 1

Save(settings) ==  /\ file' = PreferencesFile(settings)
                   /\ overlay' = SavedOverlay(settings, Eff, overlay)

-----------------------------------------------------------------------------
(* What a session derives from its settings.                               *)

Known(s) == s.name \in DOMAIN s.settings.providers
Active(s) == IF Known(s) THEN s.settings.providers[s.name] ELSE s.conf

Synced(s) ==
    IF Known(s) THEN [s EXCEPT !.level = CoercedLevel(Active(s), s.model, s.level,
                                                      Active(s).chosen[s.model])]
    ELSE s

\* Building a provider needs its credential; without one the program starts
\* with a stand-in, which only another login or provider switch replaces.
RefreshFails(s) == s.conf # NoConfig
                   /\ (s.model \notin Active(s).models \/ s.name \notin creds)
Refreshed(s) ==
    IF s.conf = NoConfig THEN s
    ELSE [s EXCEPT !.built = <<s.name, s.model, s.level>>, !.conf = Active(s),
                   !.asked = NoChoice, !.limits = NoChoice]

\* save_*: the file as it is now, or the cached settings when there is none.
Latest(s) == IF file = NoFile THEN s.settings ELSE OnDisk
CanSave(s, n, m) == /\ file = NoFile \/ CanLoad
                    /\ n \in DOMAIN Latest(s).providers
                    /\ m \in Latest(s).providers[n].models

Touched(s) == records' = [records EXCEPT ![s.conv] = <<s.name, s.model>>]

\* _persist_default_model_choice; an error leaves what was already assigned.
PersistDefault(s) ==
    IF CanSave(s, s.name, s.model)
    THEN LET new == SetDefault(Latest(s), s.name, s.model) IN
         /\ session' = Synced([s EXCEPT !.settings = new])
         /\ Save(new)
         /\ Touched(s)
    ELSE session' = s /\ UNCHANGED <<settingsFiles, records>>

-----------------------------------------------------------------------------
(* Choosing a model.                                                       *)

\* Seeded fault: the provider is rebuilt before the level is adapted.
SetModelBuildsFirst(m) ==
    LET named == [session EXCEPT !.model = m] IN
    /\ Known(session) => m \in Active(session).models
    /\ IF RefreshFails(named)
       THEN session' = Synced(named) /\ UNCHANGED <<settingsFiles, records>>
       ELSE PersistDefault(Synced(Refreshed(named)))

SetModel(m) ==
    LET named == Synced([session EXCEPT !.model = m]) IN
    /\ Known(session) => m \in Active(session).models
    /\ IF RefreshFails(named)
       THEN session' = named /\ UNCHANGED <<settingsFiles, records>>
       ELSE PersistDefault(Refreshed(named))

Switched(s, n, m) ==
    LET config == s.settings.providers[n]
        level == CoercedLevel(config, m, s.level, Null)
    IN  [s EXCEPT !.name = n, !.model = m, !.level = level, !.conf = config,
                  !.built = <<n, m, level>>, !.asked = NoChoice, !.limits = NoChoice]

SetProviderModel(n, m) ==
    /\ n \in DOMAIN session.settings.providers
    /\ m \in session.settings.providers[n].models
    /\ n \in creds
    /\ PersistDefault(Switched(session, n, m))

SetModelChoice(n, m) ==
    IF n = session.name THEN SetModel(m) ELSE SetProviderModel(n, m)

\* The picker and /model offer what is available; of a provider that the settings
\* lost, its model in use.
Choose(n, m) ==
    /\ n = session.name /\ ~Known(session) => m = session.model
    /\ SetModelChoice(n, m)

AvailableChoices(s) == {x \in (DOMAIN s.settings.providers \cap creds) \X Models :
                          x[2] \in s.settings.providers[x[1]].models}
ScopedChoices(s) == Among(s.settings.scoped, AvailableChoices(s))

\* Seeded fault: new settings are cached and the level is left as it was.
ToggleUnsynced(n, m) ==
    /\ <<n, m>> \in AvailableChoices(session)
    /\ CanSave(session, n, m)
    /\ LET new == ToggleScoped(Latest(session), n, m) IN
       session' = [session EXCEPT !.settings = new] /\ Save(new)
    /\ UNCHANGED records

ToggleScopedModel(n, m) ==
    /\ <<n, m>> \in AvailableChoices(session)
    /\ CanSave(session, n, m)
    /\ LET new == ToggleScoped(Latest(session), n, m) IN
       /\ session' = Synced([session EXCEPT !.settings = new])
       /\ Save(new)
    /\ UNCHANGED records

CycleScopedModel(reverse) ==
    LET scoped == ScopedChoices(session)
        here == {i \in DOMAIN scoped : scoped[i] = <<session.name, session.model>>}
        from == IF here # {} THEN CHOOSE i \in here : TRUE ELSE IF reverse THEN 1 ELSE 0
        to == ((from + (IF reverse THEN Len(scoped) - 2 ELSE 0)) % Len(scoped)) + 1
    IN  scoped # <<>> /\ SetModelChoice(scoped[to][1], scoped[to][2])

-----------------------------------------------------------------------------
(* Choosing a level.                                                       *)

\* A failed rebuild puts the old level back.  The choice is remembered only
\* if the files still offer it.
SetThinkingLevel(l) ==
    LET s == [session EXCEPT !.level = l] IN
    /\ Known(session) /\ l \in Active(session).levels[session.model] \ {session.level}
    /\ ~RefreshFails(s)
    /\ journals' = [journals EXCEPT ![s.conv][2] = l]
    /\ IF CanSave(s, s.name, s.model) /\ l \in Latest(s).providers[s.name].levels[s.model]
       THEN LET new == SetChosen(Latest(s), s.name, s.model, l) IN
            /\ session' = [Refreshed(s) EXCEPT !.settings = new]
            /\ Save(new)
       ELSE session' = Refreshed(s) /\ UNCHANGED settingsFiles

-----------------------------------------------------------------------------
(* Reading the files again: /model, login and logout.                      *)

\* reload_provider_settings rolls the settings and the level back on error.
Reloaded(s, settings) == Refreshed(Synced([s EXCEPT !.settings = settings]))
ReloadFails(s, settings) == RefreshFails(Synced([s EXCEPT !.settings = settings]))

ReloadProviderSettings ==
    /\ CanLoad /\ ~ReloadFails(session, OnDisk)
    /\ session' = Reloaded(session, OnDisk)
    /\ unread' = FALSE
    /\ UNCHANGED <<settingsFiles, creds, records, journals>>

\* The credential is stored first; the rest fails if the settings cannot be
\* read, or if the session's own provider cannot be rebuilt.
Login(n) ==
    LET can == creds \cup {n}
        new == UpsertProvider(LoadSettings(file, Eff, can), n, ConfigOf(BuiltinEntry(release, n)))
        laid == SavedOverlay(new, Eff, overlay)
        read == LoadSettings(PreferencesFile(new), Effective(release, laid), can)
        back == Synced([session EXCEPT !.settings = read])
    IN  /\ creds' = can
        /\ IF ~CanLoad THEN UNCHANGED <<settingsFiles, session, records, unread>>
           ELSE /\ file' = PreferencesFile(new) /\ overlay' = laid
                /\ IF /\ back.conf # NoConfig
                      /\ back.name \notin can \/ back.model \notin Active(back).models
                   THEN UNCHANGED <<session, records, unread>>
                   ELSE LET s == Switched(Refreshed(back), n, read.providers[n].default) IN
                        session' = s /\ Touched(s) /\ unread' = FALSE
        /\ UNCHANGED journals

\* Deleted first, read again after: for the session's own provider that fails,
\* the user is told so, and the session keeps the provider it has.
Logout(n) ==
    LET left == creds \ {n}
        read == LoadSettings(file, Eff, left)
        back == Synced([session EXCEPT !.settings = read])
    IN  /\ n \in creds
        /\ creds' = left
        /\ IF ~CanLoad \/ (back.conf # NoConfig
                           /\ (back.name \notin left \/ back.model \notin Active(back).models))
           THEN UNCHANGED <<session, unread>>
           ELSE session' = Refreshed(back) /\ unread' = FALSE
        /\ UNCHANGED <<settingsFiles, records, journals>>

-----------------------------------------------------------------------------
(* Conversations.                                                          *)

Fresh(c, settings, n, m, level, conf, built) ==
    [up |-> TRUE, conv |-> c, settings |-> settings, name |-> n, model |-> m,
     level |-> level, conf |-> conf, built |-> built,
     asked |-> NoChoice, limits |-> NoChoice, waiting |-> NoChoice]

\* A replacement keeps what the session knew of the limits of its model.
Adopted(s) == [s EXCEPT !.asked = session.asked, !.limits = session.limits,
                        !.waiting = session.waiting]

Unused(c) == records[c] = NoChoice

NewSession(c) ==
    LET settings == session.settings
        n == settings.default
        m == settings.providers[n].default
        config == settings.providers[n]
        level == PreferredLevel(config, m, CoercedLevel(config, m, session.level, Null))
    IN  /\ Unused(c) /\ n \in DOMAIN settings.providers /\ n \in creds
        /\ session' = Adopted(Fresh(c, settings, n, m, level, config, <<n, m, level>>))
        /\ records' = [records EXCEPT ![c] = <<n, m>>]
        /\ journals' = [journals EXCEPT ![c] = <<m, level>>]
        /\ UNCHANGED <<settingsFiles, creds, unread>>

\* load: the model of the transcript, if the provider still has it.
RuntimeModel(config, journal, model) ==
    IF journal[1] \in config.models THEN journal[1]
    ELSE IF model \in config.models THEN model ELSE config.default

Resume(c) ==
    LET n == records[c][1]
        config == session.settings.providers[n]
        m == RuntimeModel(config, journals[c], records[c][2])
        s == Synced(Fresh(c, session.settings, n, m, journals[c][2], config, NoChoice))
    IN  /\ c # session.conv /\ ~Unused(c)
        /\ n \in DOMAIN session.settings.providers
        /\ records[c][2] \in config.models
        /\ n \in creds
        /\ session' = Adopted(Refreshed(s))
        /\ UNCHANGED <<settingsFiles, creds, records, journals, unread>>

-----------------------------------------------------------------------------
(* The limits of the model are asked of the provider before a prompt.      *)

Ask(s) == [s EXCEPT !.asked = <<s.name, s.model>>, !.limits = NoChoice,
                    !.waiting = <<s.name, s.model>>]

AskLimits == /\ session.up /\ session.waiting = NoChoice
             /\ session.asked # <<session.name, session.model>>
             /\ session' = Ask(session)
AnswerLimits(fails) ==
    /\ session.up /\ session.waiting # NoChoice
    /\ session' = [session EXCEPT !.waiting = NoChoice,
                                  !.limits = IF fails THEN @ ELSE session.waiting]
RefreshRuntimeModelLimits ==
    /\ AskLimits \/ \E fails \in BOOLEAN : AnswerLimits(fails)
    /\ UNCHANGED <<file, overlay, release, creds, records, journals, migrating, unread,
                   dropped, choices>>

-----------------------------------------------------------------------------
(* Starting and stopping the program.                                      *)

UsableProviders(settings) == DOMAIN settings.providers \cap creds

StartupSelection(settings) ==
    IF settings.default \in creds \/ UsableProviders(settings) = {} THEN settings.default
    ELSE FirstOf(NameOrder, UsableProviders(settings))

\* Unreadable settings: the program does not start.
RunTuiApp(c) ==
    LET settings == OnDisk
        n == StartupSelection(settings)
        config == settings.providers[n]
        m == config.default
        level == PreferredLevel(config, m, DefaultLevel)
        usable == n \in creds
    IN  /\ ~session.up /\ Unused(c) /\ file.is # "legacy" /\ CanLoad
        /\ n \in DOMAIN settings.providers
        /\ session' = Fresh(c, settings, n, m, level, IF usable THEN config ELSE NoConfig,
                            IF usable THEN <<n, m, level>> ELSE NoChoice)
        /\ records' = [records EXCEPT ![c] = <<n, m>>]
        /\ journals' = [journals EXCEPT ![c] = <<m, level>>]
        /\ unread' = FALSE
        /\ UNCHANGED <<settingsFiles, creds, migrating>>

\* The older file: a copy of it, then the catalog, then the new file.
MigrateCatalog ==
    /\ ~session.up /\ file.is = "legacy" /\ migrating = NoConfig
    /\ migrating' = OnDisk
    /\ overlay' = MigratedOverlay(OnDisk, Eff, overlay)
    /\ UNCHANGED <<file, creds, session, records, journals, unread>>
MigrateFile ==
    /\ migrating # NoConfig
    /\ file' = PreferencesFile(migrating)
    /\ migrating' = NoConfig
    /\ UNCHANGED <<overlay, creds, session, records, journals, unread>>
Crash == /\ session.up \/ migrating # NoConfig
         /\ session' = Down
         /\ migrating' = NoConfig
         /\ UNCHANGED <<settingsFiles, creds, records, journals, unread>>

-----------------------------------------------------------------------------
(* Everyone else: another session, a hand edit, a login, an upgrade.       *)

AnotherSession(n, m) ==
    /\ file.is # "legacy" /\ CanLoad /\ migrating = NoConfig
    /\ n \in DOMAIN OnDisk.providers /\ m \in OnDisk.providers[n].models
    /\ \/ Save(SetDefault(OnDisk, n, m))
       \/ \E l \in OnDisk.providers[n].levels[m] : Save(SetChosen(OnDisk, n, m, l))
    /\ UNCHANGED <<release, creds, dropped>>

EditCatalog(n) ==
    /\ \/ \E def \in CatalogEdits[n] : overlay' = With(overlay, n, def) /\ UNCHANGED dropped
       \/ /\ n \in DOMAIN overlay
          /\ overlay' = [k \in DOMAIN overlay \ {n} |-> overlay[k]]
          /\ dropped' = dropped \cup {n}
    /\ UNCHANGED <<file, release, creds>>

ChangeCredentials(n) == /\ creds' = IF n \in creds THEN creds \ {n} ELSE creds \cup {n}
                        /\ UNCHANGED <<file, overlay, release, dropped>>
Upgrade == /\ ~session.up /\ migrating = NoConfig /\ release < Len(Bundled)
           /\ release' = release + 1
           /\ UNCHANGED <<file, overlay, creds, dropped>>

Elsewhere ==
    /\ Count
    /\ \/ \E n \in Names, m \in Models : AnotherSession(n, m)
       \/ \E n \in Names : EditCatalog(n) \/ ChangeCredentials(n)
       \/ Upgrade
    /\ unread' = TRUE
    /\ UNCHANGED <<session, records, journals, migrating>>

-----------------------------------------------------------------------------

ByUser ==
    /\ session.up
    /\ \/ /\ \/ \E n \in Names, m \in Models : Choose(n, m) \/ ToggleScopedModel(n, m)
             \/ \E reverse \in BOOLEAN : CycleScopedModel(reverse)
          /\ UNCHANGED <<creds, journals, unread>>
       \/ /\ \E l \in Levels : SetThinkingLevel(l)
          /\ UNCHANGED <<creds, records, unread>>
       \/ /\ \/ ReloadProviderSettings
             \/ \E n \in Builtin : Login(n) \/ Logout(n)
             \/ \E c \in Conversations : NewSession(c)
       \/ \E c \in Conversations : Resume(c)
    /\ UNCHANGED migrating

Program ==
    /\ Count
    /\ \/ ByUser
       \/ /\ \/ MigrateCatalog \/ MigrateFile \/ Crash
             \/ \E c \in Conversations : RunTuiApp(c)
    /\ UNCHANGED <<release, dropped>>

ChoiceNext == Program \/ Elsewhere \/ RefreshRuntimeModelLimits

-----------------------------------------------------------------------------
(* Properties.                                                             *)

\* What a prompt is sent with is what the session shows: while nobody else has
\* changed the files, and its credential is there, the provider object was
\* built for the name, the model and the level on the screen; and the limits
\* in force are those of that model, though they are asked before a prompt and
\* the model may change before they arrive.
SentIsShown ==
    session.up =>
        /\ ~unread /\ session.conf # NoConfig /\ session.name \in creds
            => session.built = <<session.name, session.model, session.level>>
        /\ session.asked = <<session.name, session.model>> /\ session.limits # NoChoice
            => session.limits = <<session.name, session.model>>

\* What may be chosen is what is defined, no more and no less.  The level in use
\* is one its model offers; no model is offered that the catalog withdrew; and a
\* provider only the older settings file defines survives its migration, wherever
\* the program stops on the way.
OfferIsExact ==
    /\ session.up /\ Known(session) =>
        LET offered == Active(session).levels[session.model]
        IN  offered = {} \/ session.level \in offered
    /\ \A n \in Builtin : Eff[n].models \cap Bundled[release][n].removed = {}
    /\ \A n \in DOMAIN LegacySettings.providers \ (Builtin \cup dropped) :
        file.is = "legacy" \/ n \in DOMAIN overlay
=============================================================================
