----------------------------- MODULE LoginFlow ------------------------------
(***************************************************************************)
(* The /login and /logout dialogs of the terminal application (tui/app.py) *)
(* and what they store: the chain of screens from the choice of a method   *)
(* to a key, an OAuth login in a task of its own or the fields of a custom *)
(* provider, and the steps that then write the catalog, the credential and *)
(* the settings and switch the session.  A step may fail, or the process   *)
(* end after it, with those before it done.                                *)
(***************************************************************************)
EXTENDS Integers, FiniteSets, SequencesExt, Selection

CONSTANTS
  BuiltIn,   \* the providers of the bundled catalog, in its order
  Methods,   \* how each of them authenticates: a subset of {"oauth", "api_key"}
  Own,       \* names the user may give to custom providers
  MaxLogins  \* bound: dialogs opened

ASSUME LoginAssumption ==
  /\ BuiltIn \in Seq(DOMAIN Methods) /\ BuiltIn # <<>> /\ DOMAIN Methods = ToSet(BuiltIn)
  /\ MaxLogins \in Nat

Names == ToSet(BuiltIn) \cup Own

VARIABLES
  screen,     \* the screen on top: [is, provider, method]
  listed,     \* visible_providers of the provider picker
  at,         \* the index of the list of the screen, from 1
  field,      \* the input focused in the custom screen, from 1
  fields,     \* what its inputs hold: "empty", "bad" or "good"
  oauth,      \* the OAuth task: [stage, answer, empty]
  logins,     \* dialogs opened so far
  catalog,    \* names in the user's catalog file
  credential, \* stored per name: "none", "key" or "oauth"
  saved,      \* names in the provider settings file
  session,    \* the session's provider
  finished    \* what the user has finished a dialog for: names and kinds of credential

stores == <<catalog, credential, saved, session, finished>>
loginVars == <<screen, listed, at, field, fields, oauth, logins, stores>>

NoScreen == [is |-> "none", provider |-> "", method |-> ""]
NoTask == [stage |-> "off", answer |-> "none", empty |-> FALSE]
Inputs == <<"name", "display", "url", "env", "models", "default", "key">>
Unfilled == [f \in ToSet(Inputs) |-> "empty"]

LoginInit ==
  /\ screen = NoScreen /\ listed = <<>> /\ at = 1 /\ field = 1 /\ fields = Unfilled
  /\ oauth = NoTask /\ logins = 0
  /\ catalog = {} /\ credential = [n \in Names |-> "none"] /\ saved = {}
  /\ session = BuiltIn[1] /\ finished = {}

\* A screen starts afresh, with a list of providers, and takes the place of the one before.
Push(is, provider, method, list) ==
  /\ screen' = [is |-> is, provider |-> provider, method |-> method]
  /\ listed' = list /\ at' = 1 /\ field' = 1 /\ fields' = Unfilled
Dismiss == Push("none", "", "", <<>>) /\ oauth' = NoTask /\ UNCHANGED logins

\* --- the way through the screens ---
OpenLoginPicker == Push("method", "", "", <<>>) /\ oauth' = NoTask

\* _open_login: by OAuth when it was chosen, or when there is no other way.
OpenLogin(p, method) ==
  IF (method = "subscription" \/ (method = "" /\ "api_key" \notin Methods[p])) /\ "oauth" \in Methods[p]
    THEN Push("oauth", p, method, <<>>) /\ oauth' = [NoTask EXCEPT !.stage = "busy"]
    ELSE Push("key", p, method, <<>>) /\ UNCHANGED oauth

BeginLogin ==
  /\ screen.is = "none" /\ logins < MaxLogins /\ logins' = logins + 1
  /\ OpenLoginPicker \/ \E p \in ToSet(BuiltIn) : OpenLogin(p, "")
  /\ UNCHANGED stores

\* The method picker wraps round; the provider picker does not.
MoveMethod(step) ==
  /\ screen.is = "method" /\ at' = ((at - 1 + step) % 3) + 1
  /\ UNCHANGED <<screen, listed, field, fields, oauth, logins, stores>>
MoveProvider(step) ==
  /\ screen.is \in {"providers", "logout"} /\ at' = at + step /\ at' \in 1 .. Len(listed)
  /\ UNCHANGED <<screen, listed, field, fields, oauth, logins, stores>>

ProvidersBy(method) ==
  Among(BuiltIn, {p \in DOMAIN Methods :
                    (IF method = "subscription" THEN "oauth" ELSE "api_key") \in Methods[p]})
Stored == Among(BuiltIn, {p \in DOMAIN Methods : credential[p] # "none"})
Providers == IF screen.is = "logout" THEN Stored ELSE ProvidersBy(screen.method)
ChooseMethod ==
  /\ screen.is = "method"
  /\ CASE at = 1 -> Push("providers", "", "subscription", ProvidersBy("subscription"))
       [] at = 2 -> Push("providers", "", "api-key", ProvidersBy("api-key"))
       [] at = 3 -> Push("custom", "", "custom", <<>>)
  /\ UNCHANGED <<oauth, logins, stores>>

\* on_input_changed: some of the providers match, and the first of them is highlighted.
Search(S) ==
  /\ screen.is \in {"providers", "logout"}
  /\ listed' = Among(Providers, S) /\ at' = 1
  /\ UNCHANGED <<screen, field, fields, oauth, logins, stores>>
ChooseProvider ==
  /\ screen.is = "providers" /\ listed # <<>> /\ OpenLogin(listed[at], screen.method)
  /\ UNCHANGED <<logins, stores>>

\* Seeded fault: the task of an OAuth screen that was left goes on.
BackUncancelled ==
  /\ screen.is \in {"providers", "key", "oauth", "custom"} /\ Push("method", "", "", <<>>)
  /\ UNCHANGED <<oauth, logins, stores>>

\* Escape goes back to the methods, Ctrl+D leaves; either ends the task of the OAuth screen.
Back ==
  /\ screen.is \in {"providers", "key", "oauth", "custom"} /\ OpenLoginPicker
  /\ UNCHANGED <<logins, stores>>
Close == screen.is # "none" /\ Dismiss /\ UNCHANGED stores

\* --- the custom provider's fields ---
\* Nothing depends on the display name; other models may make the default right or wrong.
Fill(value) ==
  /\ screen.is = "custom" /\ Inputs[field] # "display"
  /\ value = "bad" => Inputs[field] \in {"models", "default"}
  /\ \E default \in {fields["default"]} \cup (IF Inputs[field] # "models" \/ fields["default"] = "empty"
                                               THEN {} ELSE {"bad", "good"}) :
       fields' = [fields EXCEPT !["default"] = default, ![Inputs[field]] = value]
  /\ UNCHANGED <<screen, listed, at, field, oauth, logins, stores>>

\* _collect_result: the first field in which something is missing or wrong, 0 for none.
FirstWrong == SelectInSeq(Inputs, LAMBDA f : f # "display" /\ fields[f] # "good")
NextField ==
  /\ screen.is = "custom"
  /\ IF field < Len(Inputs) THEN field' = field + 1 ELSE FirstWrong # 0 /\ field' = FirstWrong
  /\ UNCHANGED <<screen, listed, at, fields, oauth, logins, stores>>

Steps(kind) ==
  IF kind = "own" THEN <<"catalog", "credential", "settings", "session">>
  ELSE <<"credential", "settings", "session">>
Store(name, kind) ==
  \E n \in 0 .. Len(Steps(kind)) :
    LET done == ToSet(SubSeq(Steps(kind), 1, n))
        held == IF kind = "oauth" THEN "oauth" ELSE "key" IN
    /\ finished' = finished \cup {<<name, held>>}
    /\ catalog' = IF "catalog" \in done THEN catalog \cup {name} ELSE catalog
    /\ credential' = IF "credential" \in done THEN [credential EXCEPT ![name] = held] ELSE credential
    /\ saved' = IF "settings" \in done THEN saved \cup {name} ELSE saved
    /\ session' = IF "session" \in done THEN name ELSE session

\* Enter in the key screen, where an empty key leaves the dialog, and in the last custom field.
SubmitKey ==
  screen.is = "key" /\ Dismiss /\ (UNCHANGED stores \/ Store(screen.provider, "key"))
SubmitCustom(name) ==
  screen.is = "custom" /\ field = Len(Inputs) /\ FirstWrong = 0 /\ Dismiss /\ Store(name, "own")

\* --- the OAuth screen ---
\* The login asks for a code; an answer given before is taken again.
LoginAsks(empty) ==
  /\ oauth.stage = "busy"
  /\ oauth' = IF oauth.answer # "none" THEN oauth
              ELSE [oauth EXCEPT !.empty = empty, !.stage = "asks"]
  /\ UNCHANGED <<screen, listed, at, field, fields, logins, stores>>
SubmitCode(value) ==
  /\ screen.is = "oauth" /\ oauth.stage \in {"busy", "asks"} /\ (value = "empty" => oauth.empty)
  /\ oauth' = [stage |-> "busy", answer |-> value, empty |-> FALSE]
  /\ UNCHANGED <<screen, listed, at, field, fields, logins, stores>>
LoginFails ==
  /\ oauth.stage \in {"busy", "asks"} /\ oauth' = [oauth EXCEPT !.stage = "failed"]
  /\ UNCHANGED <<screen, listed, at, field, fields, logins, stores>>

\* The login ends, by the code or by the browser that calls back, and the screen with it.
LoginSucceeds ==
  /\ oauth.stage \in {"busy", "asks"} /\ Dismiss
  /\ IF screen.is = "oauth" THEN Store(screen.provider, "oauth")
     ELSE /\ credential' \in {[credential EXCEPT ![p] = "oauth"] : p \in ToSet(BuiltIn)}
          /\ UNCHANGED <<catalog, saved, session, finished>>

\* --- /logout ---
BeginLogout ==
  /\ screen.is = "none" /\ logins < MaxLogins /\ logins' = logins + 1
  /\ Stored # <<>> /\ Push("logout", "", "", Stored)
  /\ UNCHANGED <<oauth, stores>>
Logout ==
  /\ screen.is = "logout" /\ listed # <<>> /\ Dismiss /\ credential' = [credential EXCEPT ![listed[at]] = "none"]
  /\ UNCHANGED <<catalog, saved, session, finished>>

LoginNext ==
  \/ BeginLogin \/ ChooseMethod \/ ChooseProvider \/ Back \/ Close \/ NextField \/ SubmitKey
  \/ LoginFails \/ LoginSucceeds \/ BeginLogout \/ Logout
  \/ \E step \in {-1, 1} : MoveMethod(step) \/ MoveProvider(step)
  \/ \E S \in SUBSET ToSet(BuiltIn) : Search(S)
  \/ \E value \in {"empty", "bad", "good"} : Fill(value)
  \/ \E b \in BOOLEAN : LoginAsks(b)
  \/ \E name \in Own : SubmitCustom(name)
  \/ \E value \in {"empty", "code"} : SubmitCode(value)
-----------------------------------------------------------------------------
\* Whichever step of storing a login fails, the settings name no provider that has no definition,
\* and the session uses none whose settings were not saved.  And a credential is stored only of a
\* provider and a kind for which the user finished a dialog: going back, closing and choosing again
\* store nothing, even if a login ends at that moment.
NoDanglingProvider ==
  /\ saved \subseteq ToSet(BuiltIn) \cup catalog
  /\ session \in saved \cup {BuiltIn[1]}
StoredWasFinished ==
  \A n \in Names : credential[n] # "none" => <<n, credential[n]>> \in finished

LoginIsWhole == NoDanglingProvider /\ StoredWasFinished
=============================================================================
