------------------------------ MODULE ServerName ------------------------------
(***************************************************************************)
(* The receiver's settings and its name (src/plugin-main.cpp, and          *)
(* UxPlayIntegration::updateServerName and stop in                         *)
(* src/uxplay-integration.cpp): an OBS thread hands in edited settings,    *)
(* the debounce thread advertises a name once it has settled and writes    *)
(* settings.json, request handlers on UxPlay's HTTP thread read the        *)
(* DNS-SD context meanwhile, and the unload ends it all.                   *)
(*                                                                         *)
(* A DNS-SD context is a number, its name made[n]; 0 is nullptr.  A name   *)
(* that is refused for its length is an edit that leaves the name as it    *)
(* is.  The fields of the settings other than the name are one value.      *)
(***************************************************************************)
EXTENDS Integers, Sequences, FiniteSets

CONSTANTS
    Names,            \* the names a user types
    Handlers,         \* requests that can be handled at a time
    EditsDuringSave,  \* whether settings change while the debounce thread saves
    MaxEdits          \* bound: edits of the settings

ASSUME NameAssumption ==
    IsFiniteSet(Handlers) /\ EditsDuringSave \in BOOLEAN /\ MaxEdits \in Nat

VARIABLES
    settings,     \* g_module_settings
    known,        \* g_module_settings_known
    file,         \* settings.json, a set with what it holds
    save_pending, \* g_module_settings_save_pending
    editor,       \* the OBS thread in set_module_settings()
    pending,      \* g_debounce_pending, g_debounce_gen
    server_name,  \* g_server_name
    thread,       \* the debounce thread
    running,      \* m_running
    made,         \* the DNS-SD contexts made so far
    dnssd,        \* m_dnssd
    retired,      \* m_retired_dnssd
    raop_dnssd,   \* the context UxPlay's request handlers use
    services,     \* contexts whose services are registered
    freed,        \* contexts that were destroyed
    last_error,   \* m_last_error
    handler,      \* the context each request handler reads, and whether it is old
    unload,       \* how far obs_module_unload() has come
    edits         \* edits so far

vars == <<settings, known, file, save_pending, editor, pending, server_name, thread, running,
          made, dnssd, retired, raop_dnssd, services, freed, last_error, handler, unload,
          edits>>

settingsVars == <<settings, known, file, save_pending, editor, edits>>
contextVars == <<running, made, dnssd, retired, raop_dnssd, services, freed, last_error>>

Settings == [name : Names, other : BOOLEAN]
Contexts == 1..Len(made)

NoHandler == [context |-> 0, old |-> FALSE]
IdleEditor == [pc |-> "idle", name_only |-> FALSE]

(* The plugin is loaded: the saved settings were found or not, and start() *)
(* advertises the saved name, or failed.                                   *)
Init ==
    /\ settings \in Settings /\ known \in BOOLEAN
    /\ file = (IF known THEN {settings} ELSE {})
    /\ save_pending = FALSE /\ editor = IdleEditor
    /\ pending = [name |-> settings.name, gen |-> 0]
    /\ server_name = settings.name
    /\ thread = [pc |-> "wait", name |-> settings.name, gen |-> 0, old |-> 0,
                 saving |-> settings]
    /\ running \in BOOLEAN
    /\ made = (IF running THEN <<settings.name>> ELSE <<>>)
    /\ dnssd = Len(made) /\ raop_dnssd = Len(made) /\ retired = 0
    /\ \/ services = Contexts /\ last_error = "none"
       \/ running /\ services = {} /\ last_error = "bonjour"
    /\ freed = {}
    /\ handler = [h \in Handlers |-> NoHandler]
    /\ unload = "no" /\ edits = 0

-----------------------------------------------------------------------------
(* set_module_settings(), under g_module_settings_mutex: nothing to do, or *)
(* the settings are taken.                                                 *)
Edit(new) ==
    /\ unload = "no" /\ editor.pc = "idle" /\ edits < MaxEdits
    /\ EditsDuringSave \/ thread.pc # "write"
    /\ edits' = edits + 1
    /\ IF known /\ new = settings THEN UNCHANGED <<settings, known, editor>>
       ELSE /\ settings' = new /\ known' = TRUE
            /\ editor' = [pc |-> "schedule",
                          name_only |-> known /\ new.other = settings.other]
    /\ UNCHANGED <<file, save_pending, pending, server_name, thread, contextVars, handler,
                   unload>>

(* Mutant: an edit is compared with the advertised name only. *)
AlreadyAdvertised(name) == name = server_name

(* update_server_name(): a change in flight counts by the name it applies. *)
NothingToApply(name) ==
    IF pending.gen # 0 THEN name = pending.name ELSE name = server_name

Schedule ==
    /\ editor.pc = "schedule"
    /\ IF NothingToApply(settings.name)
       THEN editor' = [editor EXCEPT !.pc = "save"] /\ UNCHANGED pending
       ELSE /\ pending' = [name |-> settings.name, gen |-> pending.gen + 1]
            /\ editor' = [editor EXCEPT !.pc = IF editor.name_only THEN "defer" ELSE "save"]
    /\ UNCHANGED <<settings, known, file, save_pending, server_name, thread, contextVars,
                   handler, unload, edits>>

(* A name edit is saved once it settles, ... *)
Defer ==
    /\ editor.pc = "defer"
    /\ save_pending' = TRUE /\ editor' = IdleEditor
    /\ UNCHANGED <<settings, known, file, pending, server_name, thread, contextVars, handler,
                   unload, edits>>

(* ... anything else at once. *)
ForgetPending ==
    /\ editor.pc = "save"
    /\ save_pending' = FALSE /\ editor' = [editor EXCEPT !.pc = "write"]
    /\ UNCHANGED <<settings, known, file, pending, server_name, thread, contextVars, handler,
                   unload, edits>>

SaveNow ==
    /\ editor.pc = "write"
    /\ file' = {settings} /\ editor' = IdleEditor
    /\ UNCHANGED <<settings, known, save_pending, pending, server_name, thread, contextVars,
                   handler, unload, edits>>

Editor == Schedule \/ Defer \/ ForgetPending \/ SaveNow

-----------------------------------------------------------------------------
(* name_debounce_thread_func() *)
Goto(pc) == thread' = [thread EXCEPT !.pc = pc]

Aged(h) == [handler[h] EXCEPT !.old = handler[h].context # 0]

(* A change is queued: the wait of kNameDebounce starts. *)
StartWait ==
    /\ thread.pc = "wait" /\ unload = "no" /\ pending.gen > 0
    /\ thread' = [thread EXCEPT !.pc = "timer", !.gen = pending.gen, !.name = pending.name]
    /\ handler' = [h \in Handlers |-> Aged(h)]
    /\ UNCHANGED <<settingsVars, pending, server_name, contextVars, unload>>

(* A newer change starts the wait again; quitting ends the thread. *)
EndWait ==
    /\ \/ thread.pc = "timer" /\ unload = "no" /\ thread.gen # pending.gen /\ Goto("wait")
       \/ thread.pc \in {"wait", "timer"} /\ unload = "asked" /\ Goto("exit")
    /\ UNCHANGED <<settingsVars, pending, server_name, contextVars, handler, unload>>

(* kNameDebounce passes without one.  No request takes that long: a        *)
(* handler that was there when the wait started has returned.              *)
Expire ==
    /\ thread.pc = "timer" /\ unload = "no" /\ thread.gen = pending.gen
    /\ \A h \in Handlers : ~handler[h].old
    /\ Goto("apply")
    /\ UNCHANGED <<settingsVars, pending, server_name, contextVars, handler, unload>>

(* apply_server_name(); updateServerName() without a running UxPlay.       *)
Apply ==
    /\ thread.pc = "apply"
    /\ Goto(IF thread.name = server_name THEN "saved"
            ELSE IF running THEN "claim" ELSE "commit")
    /\ UNCHANGED <<settingsVars, pending, server_name, contextVars, handler, unload>>

(* updateServerName(): the context is claimed, ... *)
Claim ==
    /\ thread.pc = "claim"
    /\ thread' = [thread EXCEPT !.pc = "init", !.old = dnssd] /\ dnssd' = 0
    /\ UNCHANGED <<settingsVars, pending, server_name, running, made, retired, raop_dnssd,
                   services, freed, last_error, handler, unload>>

(* Mutant: a context that was claimed is not put back. *)
FailClaimed ==
    /\ thread.pc = "init"
    /\ last_error' = "rename" /\ Goto("saved")
    /\ UNCHANGED <<settingsVars, pending, server_name, running, made, dnssd, retired,
                   raop_dnssd, services, freed, handler, unload>>

(* Mutant: a rename that failed counts as done. *)
FailSilently ==
    /\ thread.pc = "init"
    /\ dnssd' = thread.old /\ last_error' = "none" /\ Goto("commit")
    /\ UNCHANGED <<settingsVars, pending, server_name, running, made, retired, raop_dnssd,
                   services, freed, handler, unload>>

(* ... put back if the new one cannot be made, ... *)
Fail ==
    /\ thread.pc = "init"
    /\ dnssd' = thread.old /\ last_error' = "rename" /\ Goto("saved")
    /\ UNCHANGED <<settingsVars, pending, server_name, running, made, retired, raop_dnssd,
                   services, freed, handler, unload>>

(* ... or given to the request handlers, ... *)
Publish ==
    /\ thread.pc = "init"
    /\ made' = Append(made, thread.name) /\ raop_dnssd' = Len(made) + 1
    /\ Goto("withdraw")
    /\ UNCHANGED <<settingsVars, pending, server_name, running, dnssd, retired, services,
                   freed, last_error, handler, unload>>

(* Mutant: the old service stays up. *)
KeepService ==
    /\ thread.pc = "withdraw"
    /\ Goto("retire")
    /\ UNCHANGED <<settingsVars, pending, server_name, contextVars, handler, unload>>

(* ... the old service withdrawn, ... *)
Withdraw ==
    /\ thread.pc = "withdraw"
    /\ services' = services \ {thread.old}
    /\ Goto("retire")
    /\ UNCHANGED <<settingsVars, pending, server_name, running, made, dnssd, retired,
                   raop_dnssd, freed, last_error, handler, unload>>

(* Mutant: the old context is destroyed at once. *)
DestroyOld ==
    /\ thread.pc = "retire"
    /\ freed' = freed \cup {thread.old} /\ Goto("register")
    /\ UNCHANGED <<settingsVars, pending, server_name, running, made, dnssd, retired,
                   raop_dnssd, services, last_error, handler, unload>>

(* ... the old context kept until the next rename, ... *)
Retire ==
    /\ thread.pc = "retire"
    /\ freed' = freed \cup ({retired} \ {0}) /\ retired' = thread.old
    /\ Goto("register")
    /\ UNCHANGED <<settingsVars, pending, server_name, running, made, dnssd, raop_dnssd,
                   services, last_error, handler, unload>>

(* ... and the new service registered, which may fail. *)
Register ==
    /\ thread.pc = "register"
    /\ \/ services' = services \cup {raop_dnssd} /\ last_error' = "none"
       \/ last_error' = "bonjour" /\ UNCHANGED services
    /\ dnssd' = raop_dnssd /\ Goto("commit")
    /\ UNCHANGED <<settingsVars, pending, server_name, running, made, retired, raop_dnssd,
                   freed, handler, unload>>

Commit ==
    /\ thread.pc = "commit"
    /\ server_name' = thread.name /\ Goto("saved")
    /\ UNCHANGED <<settingsVars, pending, contextVars, handler, unload>>

(* save_pending_module_settings(): the settings are read, then written. *)
TakeSave ==
    /\ thread.pc = "saved"
    /\ save_pending' = FALSE
    /\ thread' = [thread EXCEPT !.pc = IF save_pending THEN "write" ELSE "reset",
                                !.saving = settings]
    /\ UNCHANGED <<settings, known, file, editor, edits, pending, server_name, contextVars,
                   handler, unload>>

WriteSave ==
    /\ thread.pc = "write"
    /\ file' = {thread.saving} /\ Goto("reset")
    /\ UNCHANGED <<settings, known, save_pending, editor, edits, pending, server_name,
                   contextVars, handler, unload>>

Reset ==
    /\ thread.pc = "reset"
    /\ pending' = IF pending.gen = thread.gen THEN [pending EXCEPT !.gen = 0] ELSE pending
    /\ Goto("wait")
    /\ UNCHANGED <<settingsVars, server_name, contextVars, handler, unload>>

Debounce ==
    \/ StartWait \/ EndWait \/ Expire \/ Apply \/ Claim \/ Fail \/ Publish \/ Withdraw
    \/ Retire \/ Register \/ Commit \/ TakeSave \/ WriteSave \/ Reset

-----------------------------------------------------------------------------
(* A request handler reads the context it finds until it returns. *)
Handle(h) ==
    /\ running /\ unload \in {"no", "asked"} /\ handler[h] = NoHandler
    /\ handler' = [handler EXCEPT ![h] = [context |-> raop_dnssd, old |-> FALSE]]
    /\ UNCHANGED <<settingsVars, pending, server_name, thread, contextVars, unload>>

Handled(h) ==
    /\ handler[h] # NoHandler
    /\ handler' = [handler EXCEPT ![h] = NoHandler]
    /\ UNCHANGED <<settingsVars, pending, server_name, thread, contextVars, unload>>

-----------------------------------------------------------------------------
(* obs_module_unload(), once the sources are gone *)
AskQuit ==
    /\ unload = "no" /\ editor.pc = "idle"
    /\ unload' = "asked"
    /\ UNCHANGED <<settingsVars, pending, server_name, thread, contextVars, handler>>

(* Mutant: what the debounce thread had not saved is not saved. *)
JoinOnly ==
    /\ unload = "asked" /\ thread.pc = "exit"
    /\ unload' = "saved"
    /\ UNCHANGED <<settingsVars, pending, server_name, thread, contextVars, handler>>

(* The debounce thread is joined, a name typed last is saved. *)
JoinAndSave ==
    /\ unload = "asked" /\ thread.pc = "exit"
    /\ save_pending' = FALSE /\ file' = IF save_pending THEN {settings} ELSE file
    /\ unload' = "saved"
    /\ UNCHANGED <<settings, known, editor, edits, pending, server_name, thread, contextVars,
                   handler>>

(* UxPlayIntegration::stop(): the HTTP thread is joined first. *)
StopHttpd ==
    /\ unload = "saved" /\ (running => \A h \in Handlers : handler[h] = NoHandler)
    /\ unload' = "httpd" /\ running' = FALSE
    /\ UNCHANGED <<settingsVars, pending, server_name, thread, made, dnssd, retired,
                   raop_dnssd, services, freed, last_error, handler>>

Destroy ==
    /\ unload = "httpd"
    /\ services' = services \ {dnssd} /\ freed' = freed \cup ({dnssd, retired} \ {0})
    /\ dnssd' = 0 /\ retired' = 0 /\ raop_dnssd' = 0
    /\ unload' = "done"
    /\ UNCHANGED <<settingsVars, pending, server_name, thread, running, made, last_error,
                   handler>>

Unload == AskQuit \/ JoinAndSave \/ StopHttpd \/ Destroy

-----------------------------------------------------------------------------
Next ==
    \/ \E new \in Settings : Edit(new)
    \/ Editor \/ Debounce
    \/ \E h \in Handlers : Handle(h) \/ Handled(h)
    \/ Unload

Spec == Init /\ [][Next]_vars

(* Threads run, a wait ends, a request is answered; nobody has to edit     *)
(* anything or to unload the plugin, but an unload that began goes on.     *)
FairSpec ==
    /\ Spec
    /\ WF_vars(Editor) /\ WF_vars(Debounce)
    /\ \A h \in Handlers : WF_vars(Handled(h))
    /\ WF_vars(JoinAndSave \/ StopHttpd \/ Destroy)

-----------------------------------------------------------------------------
Claimed == thread.pc \in {"init", "withdraw", "retire", "register"}

TypeOK ==
    /\ settings \in Settings /\ known \in BOOLEAN
    /\ file \subseteq Settings /\ Cardinality(file) <= 1
    /\ save_pending \in BOOLEAN
    /\ editor \in [pc : {"idle", "schedule", "defer", "save", "write"}, name_only : BOOLEAN]
    /\ pending \in [name : Names, gen : 0..MaxEdits]
    /\ server_name \in Names
    /\ thread \in [pc : {"wait", "timer", "apply", "claim", "init", "withdraw", "retire",
                         "register", "commit", "saved", "write", "reset", "exit"},
                   name : Names, gen : 0..MaxEdits, old : 0..Len(made), saving : Settings]
    /\ running \in BOOLEAN
    /\ made \in Seq(Names)
    /\ dnssd \in 0..Len(made)
    /\ running => (dnssd = 0 <=> Claimed)
    /\ retired \in 0..Len(made) /\ raop_dnssd \in 0..Len(made)
    /\ services \subseteq Contexts /\ freed \subseteq Contexts
    /\ last_error \in {"none", "rename", "bonjour"}
    /\ handler \in [Handlers -> [context : 0..Len(made), old : BOOLEAN]]
    /\ unload \in {"no", "asked", "saved", "httpd", "done"}
    /\ edits \in 0..MaxEdits

(* No request handler reads a context that was destroyed, although a       *)
(* rename replaces the context while requests are handled: the old one is  *)
(* kept until the next rename, and a rename waits longer than any request. *)
NoFreedRead ==
    \A h \in Handlers :
        handler[h].context # 0 => handler[h].context \notin freed

(* The receiver never shows up under two names: a new name is announced    *)
(* only once the old one has been withdrawn, which is what makes iOS look  *)
(* again, and no service outlives its context.                             *)
OneService == Cardinality(services) <= 1 /\ services \cap freed = {}

(* "The name counts as advertised only once that worked": the name the     *)
(* plugin goes by is the one request handlers answer with, and it is       *)
(* registered unless the panel shows the error, except during a rename.    *)
NameIsAdvertised ==
    running /\ thread.pc \notin {"withdraw", "retire", "register", "commit"}
        => /\ made[raop_dnssd] = server_name
           /\ raop_dnssd \in services \/ last_error \in {"bonjour", "rename"}

(* "A name typed in the last 800 ms is kept even though it was not         *)
(* applied", and so is every other setting: settings.json holds the        *)
(* settings when the plugin is gone, unless they are edited and saved      *)
(* while the debounce thread is writing older ones (EditsDuringSave).      *)
SettingsKept == unload \in {"saved", "httpd", "done"} /\ known => file = {settings}

(* A name typed last is advertised in the end, or the panel says why not,  *)
(* however edits, reverts and a rename under way fall together.            *)
NameSettles ==
    \A n \in Names :
        settings.name = n ~> \/ settings.name # n \/ unload # "no"
                             \/ server_name = n /\ pending.gen = 0
                             \/ last_error = "rename"
==============================================================================
