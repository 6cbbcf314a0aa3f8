--------------------------- MODULE ServerNameProofs ---------------------------
(* Theorems about module ServerName, for every value of its constants. *)
EXTENDS ServerName, FiniteSetTheorems, TLAPS

USE NameAssumption

(* A change is counted at most once for each edit. *)
Counted == pending.gen + (IF editor.pc = "schedule" THEN 1 ELSE 0) <= edits

(* The types, in two parts. *)
SettingsTyped ==
    /\ settings \in Settings /\ known \in BOOLEAN
    /\ file \subseteq Settings /\ save_pending \in BOOLEAN
    /\ editor \in [pc : {"idle", "schedule", "defer", "save", "write"}, name_only : BOOLEAN]
    /\ pending \in [name : Names, gen : 0..MaxEdits]
    /\ server_name \in Names
    /\ unload \in {"no", "asked", "saved", "httpd", "done"} /\ edits \in 0..MaxEdits
    /\ thread \in [pc : {"wait", "timer", "apply", "claim", "init", "withdraw", "retire",
                         "register", "commit", "saved", "write", "reset", "exit"},
                   name : Names, gen : 0..MaxEdits, old : Nat, saving : Settings]

ContextsTyped ==
    /\ running \in BOOLEAN
    /\ made \in Seq(Names)
    /\ dnssd \in 0..Len(made) /\ retired \in 0..Len(made) /\ raop_dnssd \in 0..Len(made)
    /\ thread.old \in 0..Len(made)
    /\ services \subseteq Contexts /\ freed \subseteq Contexts
    /\ last_error \in {"none", "rename", "bonjour"}
    /\ handler \in [Handlers -> [context : 0..Len(made), old : BOOLEAN]]

OneFile == Cardinality(file) <= 1

LEMMA TypeParts == TypeOK <=> /\ SettingsTyped /\ ContextsTyped /\ OneFile
                              /\ running => (dnssd = 0 <=> Claimed)
<1>1. ASSUME TypeOK
      PROVE  /\ SettingsTyped /\ ContextsTyped /\ OneFile
             /\ running => (dnssd = 0 <=> Claimed)
      <2>1. Len(made) \in Nat
            BY <1>1 DEF TypeOK
      <2>2. thread.old \in 0..Len(made) /\ 0..Len(made) \subseteq Nat
            BY <1>1, <2>1 DEF TypeOK
      <2>3. SettingsTyped
            BY <1>1, <2>2 DEF TypeOK, SettingsTyped
      <2> QED BY <1>1, <2>2, <2>3 DEF TypeOK, ContextsTyped, OneFile
<1>2. ASSUME SettingsTyped, ContextsTyped, OneFile, running => (dnssd = 0 <=> Claimed)
      PROVE  TypeOK
      BY <1>2 DEF TypeOK, SettingsTyped, ContextsTyped, OneFile
<1> QED BY <1>1, <1>2

(* How far the unload has come, and what has ended before.  Only a running *)
(* receiver has a context that can be claimed, or requests.                *)
Order ==
    /\ Claimed \/ thread.pc = "claim" => running
    /\ thread.pc = "exit" => unload # "no"
    /\ unload \in {"saved", "httpd", "done"} => thread.pc = "exit"
    /\ unload # "no" => editor.pc = "idle"
    /\ unload \in {"httpd", "done"} => ~running
    /\ ~running => \A h \in Handlers : handler[h] = NoHandler

(* Where the current, the retired and the claimed context are at each step *)
(* of a rename: none of them is destroyed, and no two are the same.        *)
Holding == thread.pc \in {"init", "withdraw", "retire"}

Place ==
    /\ dnssd \notin freed /\ retired \notin freed /\ raop_dnssd \notin freed
    /\ Holding => thread.old \notin freed \cup {0, retired}
    /\ running => raop_dnssd # 0
    /\ Claimed <=> running /\ dnssd = 0
    /\ ~Claimed => dnssd = raop_dnssd
    /\ thread.pc = "init" => thread.old = raop_dnssd
    /\ thread.pc \in {"withdraw", "retire"} => thread.old # raop_dnssd
    /\ retired # 0 => retired # raop_dnssd

(* The one service that can be registered. *)
Serving ==
    /\ thread.pc \in {"init", "withdraw"} => services \subseteq {thread.old}
    /\ thread.pc \in {"retire", "register"} => services = {}
    /\ ~Claimed => services \subseteq {dnssd}

(* A request that was there before the wait is gone when the wait is over: *)
(* during a rename each request reads the current context or the one that  *)
(* is replaced, never the one retired before.                              *)
Reads(h) ==
    /\ handler[h].context \notin freed
    /\ thread.pc = "timer" => handler[h].old \/ handler[h].context \in {0, raop_dnssd}
    /\ thread.pc \in {"apply", "claim", "init"} => handler[h].context \in {0, raop_dnssd}
    /\ thread.pc \in {"withdraw", "retire"} => handler[h].context \in {0, raop_dnssd, thread.old}

Reading == \A h \in Handlers : Reads(h)

(* The name of the context that is being advertised. *)
Shown == raop_dnssd \in services \/ last_error \in {"bonjour", "rename"}

Naming ==
    /\ NameIsAdvertised
    /\ thread.pc \in {"withdraw", "retire", "register"} => made[raop_dnssd] = thread.name
    /\ running /\ thread.pc = "commit" => made[raop_dnssd] = thread.name /\ Shown

(* Settings that are not in the file are on their way there. *)
Saving ==
    /\ thread.pc = "write" => thread.saving = settings
    /\ known => \/ file = {settings} \/ save_pending
                \/ editor.pc # "idle" \/ thread.pc = "write"
    /\ unload \in {"saved", "httpd", "done"} => ~save_pending

Inv == TypeOK /\ Counted /\ Order /\ Place /\ Serving /\ Reading /\ Naming

LEMMA CountedStep ==
    ASSUME SettingsTyped, Counted, [Next]_vars
    PROVE  Counted'
<1> USE DEF Goto, settingsVars, contextVars, Counted, SettingsTyped, IdleEditor
<1>1. ASSUME NEW new \in Settings, Edit(new) PROVE Counted'
      BY <1>1 DEF Edit
<1>2. ASSUME Schedule PROVE Counted'
      BY <1>2 DEF Schedule
<1>3. ASSUME Defer PROVE Counted'
      BY <1>3 DEF Defer
<1>4. ASSUME ForgetPending PROVE Counted'
      BY <1>4 DEF ForgetPending
<1>5. ASSUME SaveNow PROVE Counted'
      BY <1>5 DEF SaveNow
<1>6. ASSUME Reset PROVE Counted'
      BY <1>6 DEF Reset
<1>7. CASE StartWait \/ EndWait \/ Expire \/ Apply \/ Claim \/ Fail \/ Publish \/ Withdraw
      \/ Retire \/ Register \/ Commit \/ TakeSave \/ WriteSave \/ (\E g \in Handlers :
      Handle(g)) \/ (\E g \in Handlers : Handled(g)) \/ AskQuit \/ JoinAndSave \/
      StopHttpd \/ Destroy \/ UNCHANGED vars
      <2>1. UNCHANGED <<pending, editor, edits>>
            BY <1>7 DEF StartWait, EndWait, Expire, Apply, Claim, Fail, Publish, Withdraw,
            Retire, Register, Commit, TakeSave, WriteSave, Handle, Handled, AskQuit,
            JoinAndSave, StopHttpd, Destroy, vars
      <2> QED BY <2>1
<1> QED BY <1>1, <1>2, <1>3, <1>4, <1>5, <1>6, <1>7 DEF Next, Editor, Debounce, Unload

LEMMA OrderStep ==
    ASSUME SettingsTyped, ContextsTyped, Order, [Next]_vars
    PROVE  Order'
<1> USE DEF Goto, settingsVars, contextVars, Order, Claimed, NoHandler, Aged, SettingsTyped, ContextsTyped
<1>1. ASSUME NEW new \in Settings, Edit(new) PROVE Order'
      BY <1>1 DEF Edit
<1>2. ASSUME Schedule PROVE Order'
      BY <1>2 DEF Schedule
<1>3. ASSUME Defer PROVE Order'
      BY <1>3 DEF Defer
<1>4. ASSUME ForgetPending PROVE Order'
      BY <1>4 DEF ForgetPending
<1>5. ASSUME SaveNow PROVE Order'
      BY <1>5 DEF SaveNow
<1>6. ASSUME StartWait PROVE Order'
      <2>1. running' = running /\ thread'.pc = "timer" /\ thread.pc = "wait"
            BY <1>6 DEF StartWait
      <2>2. ASSUME ~running, NEW h \in Handlers PROVE handler'[h] = NoHandler
            <3>1. handler[h] = NoHandler /\ handler'[h] = Aged(h)
                  BY <1>6, <2>2 DEF StartWait
            <3>2. (NoHandler.context # 0) = FALSE
                  OBVIOUS
            <3>3. Aged(h) = [NoHandler EXCEPT !.old = FALSE]
                  BY <3>1, <3>2
            <3> QED BY <3>1, <3>3
      <2> QED BY <1>6, <2>1, <2>2 DEF StartWait
<1>7. ASSUME EndWait PROVE Order'
      BY <1>7 DEF EndWait
<1>8. ASSUME Expire PROVE Order'
      BY <1>8 DEF Expire
<1>9. ASSUME Apply PROVE Order'
      BY <1>9 DEF Apply
<1>10. ASSUME Claim PROVE Order'
      BY <1>10 DEF Claim
<1>11. ASSUME Fail PROVE Order'
      BY <1>11 DEF Fail
<1>12. ASSUME Publish PROVE Order'
      BY <1>12 DEF Publish
<1>13. ASSUME Withdraw PROVE Order'
      BY <1>13 DEF Withdraw
<1>14. ASSUME Retire PROVE Order'
      BY <1>14 DEF Retire
<1>15. ASSUME Register PROVE Order'
      BY <1>15 DEF Register
<1>16. ASSUME Commit PROVE Order'
      BY <1>16 DEF Commit
<1>17. ASSUME TakeSave PROVE Order'
      BY <1>17 DEF TakeSave
<1>18. ASSUME WriteSave PROVE Order'
      BY <1>18 DEF WriteSave
<1>19. ASSUME Reset PROVE Order'
      BY <1>19 DEF Reset
<1>20. ASSUME NEW g \in Handlers, Handle(g) PROVE Order'
      BY <1>20 DEF Handle
<1>21. ASSUME NEW g \in Handlers, Handled(g) PROVE Order'
      BY <1>21 DEF Handled
<1>22. ASSUME AskQuit PROVE Order'
      BY <1>22 DEF AskQuit
<1>23. ASSUME JoinAndSave PROVE Order'
      BY <1>23 DEF JoinAndSave
<1>24. ASSUME StopHttpd PROVE Order'
      BY <1>24 DEF StopHttpd
<1>25. ASSUME Destroy PROVE Order'
      BY <1>25 DEF Destroy
<1>26. CASE UNCHANGED vars
      <2>1. UNCHANGED <<thread, unload, editor, running, handler>>
            BY <1>26 DEF vars
      <2> QED BY <2>1
<1> QED BY <1>1, <1>2, <1>3, <1>4, <1>5, <1>6, <1>7, <1>8, <1>9, <1>10, <1>11, <1>12,
    <1>13, <1>14, <1>15, <1>16, <1>17, <1>18, <1>19, <1>20, <1>21, <1>22, <1>23, <1>24,
    <1>25, <1>26 DEF Next, Editor, Debounce, Unload

LEMMA PlaceStep ==
    ASSUME SettingsTyped, ContextsTyped, Order, Place, [Next]_vars
    PROVE  Place'
<1> USE DEF Goto, settingsVars, contextVars, Order, Claimed, Place, Contexts, Holding, SettingsTyped, ContextsTyped
<1>1. ASSUME StartWait PROVE Place'
      BY <1>1 DEF StartWait
<1>2. ASSUME EndWait PROVE Place'
      BY <1>2 DEF EndWait
<1>3. ASSUME Expire PROVE Place'
      BY <1>3 DEF Expire
<1>4. ASSUME Apply PROVE Place'
      BY <1>4 DEF Apply
<1>5. ASSUME Claim PROVE Place'
      BY <1>5 DEF Claim
<1>6. ASSUME Fail PROVE Place'
      BY <1>6 DEF Fail
<1>7. ASSUME Publish PROVE Place'
      BY <1>7 DEF Publish
<1>8. ASSUME Withdraw PROVE Place'
      BY <1>8 DEF Withdraw
<1>9. ASSUME Retire PROVE Place'
      BY <1>9 DEF Retire
<1>10. ASSUME Register PROVE Place'
      BY <1>10 DEF Register
<1>11. ASSUME Commit PROVE Place'
      BY <1>11 DEF Commit
<1>12. ASSUME TakeSave PROVE Place'
      BY <1>12 DEF TakeSave
<1>13. ASSUME WriteSave PROVE Place'
      BY <1>13 DEF WriteSave
<1>14. ASSUME Reset PROVE Place'
      BY <1>14 DEF Reset
<1>15. ASSUME StopHttpd PROVE Place'
      BY <1>15 DEF StopHttpd
<1>16. ASSUME Destroy PROVE Place'
      BY <1>16 DEF Destroy
<1>17. CASE (\E new \in Settings : Edit(new)) \/ Schedule \/ Defer \/ ForgetPending \/
       SaveNow \/ (\E g \in Handlers : Handle(g)) \/ (\E g \in Handlers : Handled(g)) \/
       AskQuit \/ JoinAndSave \/ UNCHANGED vars
      <2>1. UNCHANGED <<thread, running, dnssd, retired, raop_dnssd, freed>>
            BY <1>17 DEF Edit, Schedule, Defer, ForgetPending, SaveNow, Handle, Handled,
            AskQuit, JoinAndSave, vars
      <2> QED BY <2>1
<1> QED BY <1>1, <1>2, <1>3, <1>4, <1>5, <1>6, <1>7, <1>8, <1>9, <1>10, <1>11, <1>12,
    <1>13, <1>14, <1>15, <1>16, <1>17 DEF Next, Editor, Debounce, Unload

LEMMA ServingStep ==
    ASSUME SettingsTyped, ContextsTyped, Order, Place, Serving, [Next]_vars
    PROVE  Serving'
<1> USE DEF Goto, settingsVars, contextVars, Order, Claimed, Place, Contexts, Serving, Holding, SettingsTyped, ContextsTyped
<1>1. ASSUME StartWait PROVE Serving'
      BY <1>1 DEF StartWait
<1>2. ASSUME EndWait PROVE Serving'
      BY <1>2 DEF EndWait
<1>3. ASSUME Expire PROVE Serving'
      BY <1>3 DEF Expire
<1>4. ASSUME Apply PROVE Serving'
      BY <1>4 DEF Apply
<1>5. ASSUME Claim PROVE Serving'
      BY <1>5 DEF Claim
<1>6. ASSUME Fail PROVE Serving'
      BY <1>6 DEF Fail
<1>7. ASSUME Publish PROVE Serving'
      BY <1>7 DEF Publish
<1>8. ASSUME Withdraw PROVE Serving'
      BY <1>8 DEF Withdraw
<1>9. ASSUME Retire PROVE Serving'
      BY <1>9 DEF Retire
<1>10. ASSUME Register PROVE Serving'
      BY <1>10 DEF Register
<1>11. ASSUME Commit PROVE Serving'
      BY <1>11 DEF Commit
<1>12. ASSUME TakeSave PROVE Serving'
      BY <1>12 DEF TakeSave
<1>13. ASSUME WriteSave PROVE Serving'
      BY <1>13 DEF WriteSave
<1>14. ASSUME Reset PROVE Serving'
      BY <1>14 DEF Reset
<1>15. ASSUME StopHttpd PROVE Serving'
      BY <1>15 DEF StopHttpd
<1>16. ASSUME Destroy PROVE Serving'
      BY <1>16 DEF Destroy
<1>17. CASE (\E new \in Settings : Edit(new)) \/ Schedule \/ Defer \/ ForgetPending \/
       SaveNow \/ (\E g \in Handlers : Handle(g)) \/ (\E g \in Handlers : Handled(g)) \/
       AskQuit \/ JoinAndSave \/ UNCHANGED vars
      <2>1. UNCHANGED <<thread, running, dnssd, services>>
            BY <1>17 DEF Edit, Schedule, Defer, ForgetPending, SaveNow, Handle, Handled,
            AskQuit, JoinAndSave, vars
      <2> QED BY <2>1
<1> QED BY <1>1, <1>2, <1>3, <1>4, <1>5, <1>6, <1>7, <1>8, <1>9, <1>10, <1>11, <1>12,
    <1>13, <1>14, <1>15, <1>16, <1>17 DEF Next, Editor, Debounce, Unload

LEMMA ReadingStep ==
    ASSUME NEW h \in Handlers, SettingsTyped, ContextsTyped, Order, Place, Reads(h), [Next]_vars
    PROVE  Reads(h)'
<1> USE DEF Goto, settingsVars, contextVars, Order, Claimed, Place, Contexts, Reads, Holding, Aged, NoHandler, SettingsTyped, ContextsTyped
<1>1. ASSUME StartWait PROVE Reads(h)'
      BY <1>1 DEF StartWait
<1>2. ASSUME EndWait PROVE Reads(h)'
      BY <1>2 DEF EndWait
<1>3. ASSUME Expire PROVE Reads(h)'
      BY <1>3 DEF Expire
<1>4. ASSUME Apply PROVE Reads(h)'
      BY <1>4 DEF Apply
<1>5. ASSUME Claim PROVE Reads(h)'
      BY <1>5 DEF Claim
<1>6. ASSUME Fail PROVE Reads(h)'
      BY <1>6 DEF Fail
<1>7. ASSUME Publish PROVE Reads(h)'
      BY <1>7 DEF Publish
<1>8. ASSUME Withdraw PROVE Reads(h)'
      BY <1>8 DEF Withdraw
<1>9. ASSUME Retire PROVE Reads(h)'
      BY <1>9 DEF Retire
<1>10. ASSUME Register PROVE Reads(h)'
      BY <1>10 DEF Register
<1>11. ASSUME Commit PROVE Reads(h)'
      BY <1>11 DEF Commit
<1>12. ASSUME TakeSave PROVE Reads(h)'
      BY <1>12 DEF TakeSave
<1>13. ASSUME WriteSave PROVE Reads(h)'
      BY <1>13 DEF WriteSave
<1>14. ASSUME Reset PROVE Reads(h)'
      BY <1>14 DEF Reset
<1>15. ASSUME NEW g \in Handlers, Handle(g) PROVE Reads(h)'
      BY <1>15 DEF Handle
<1>16. ASSUME NEW g \in Handlers, Handled(g) PROVE Reads(h)'
      BY <1>16 DEF Handled
<1>17. ASSUME Destroy PROVE Reads(h)'
      BY <1>17 DEF Destroy
<1>18. CASE (\E new \in Settings : Edit(new)) \/ Schedule \/ Defer \/ ForgetPending \/
       SaveNow \/ AskQuit \/ JoinAndSave \/ StopHttpd \/ UNCHANGED vars
      <2>1. UNCHANGED <<thread, raop_dnssd, freed, handler>>
            BY <1>18 DEF Edit, Schedule, Defer, ForgetPending, SaveNow, AskQuit,
            JoinAndSave, StopHttpd, vars
      <2> QED BY <2>1
<1> QED BY <1>1, <1>2, <1>3, <1>4, <1>5, <1>6, <1>7, <1>8, <1>9, <1>10, <1>11, <1>12,
    <1>13, <1>14, <1>15, <1>16, <1>17, <1>18 DEF Next, Editor, Debounce, Unload

LEMMA NamingStep ==
    ASSUME SettingsTyped, ContextsTyped, Order, Place, Naming, [Next]_vars
    PROVE  Naming'
<1> USE DEF Goto, settingsVars, contextVars, Order, Claimed, Place, Contexts, Naming, NameIsAdvertised, Shown, SettingsTyped, ContextsTyped
<1>1. ASSUME StartWait PROVE Naming'
      BY <1>1 DEF StartWait
<1>2. ASSUME EndWait PROVE Naming'
      BY <1>2 DEF EndWait
<1>3. ASSUME Expire PROVE Naming'
      BY <1>3 DEF Expire
<1>4. ASSUME Apply PROVE Naming'
      BY <1>4 DEF Apply
<1>5. ASSUME Claim PROVE Naming'
      BY <1>5 DEF Claim
<1>6. ASSUME Fail PROVE Naming'
      BY <1>6 DEF Fail
<1>7. ASSUME Publish PROVE Naming'
      BY <1>7 DEF Publish
<1>8. ASSUME Withdraw PROVE Naming'
      BY <1>8 DEF Withdraw
<1>9. ASSUME Retire PROVE Naming'
      BY <1>9 DEF Retire
<1>10. ASSUME Register PROVE Naming'
      BY <1>10 DEF Register
<1>11. ASSUME Commit PROVE Naming'
      BY <1>11 DEF Commit
<1>12. ASSUME TakeSave PROVE Naming'
      BY <1>12 DEF TakeSave
<1>13. ASSUME WriteSave PROVE Naming'
      BY <1>13 DEF WriteSave
<1>14. ASSUME Reset PROVE Naming'
      BY <1>14 DEF Reset
<1>15. ASSUME StopHttpd PROVE Naming'
      BY <1>15 DEF StopHttpd
<1>16. ASSUME Destroy PROVE Naming'
      BY <1>16 DEF Destroy
<1>17. CASE (\E new \in Settings : Edit(new)) \/ Schedule \/ Defer \/ ForgetPending \/
       SaveNow \/ (\E g \in Handlers : Handle(g)) \/ (\E g \in Handlers : Handled(g)) \/
       AskQuit \/ JoinAndSave \/ UNCHANGED vars
      <2>1. UNCHANGED <<thread, running, made, raop_dnssd, server_name, services, last_error>>
            BY <1>17 DEF Edit, Schedule, Defer, ForgetPending, SaveNow, Handle, Handled,
            AskQuit, JoinAndSave, vars
      <2> QED BY <2>1
<1> QED BY <1>1, <1>2, <1>3, <1>4, <1>5, <1>6, <1>7, <1>8, <1>9, <1>10, <1>11, <1>12,
    <1>13, <1>14, <1>15, <1>16, <1>17 DEF Next, Editor, Debounce, Unload

LEMMA SavingStep ==
    ASSUME ~EditsDuringSave, SettingsTyped, Order, Saving, [Next]_vars
    PROVE  Saving'
<1> USE DEF Goto, settingsVars, contextVars, Order, Saving, IdleEditor, Claimed, SettingsTyped
<1>1. ASSUME NEW new \in Settings, Edit(new) PROVE Saving'
      BY <1>1 DEF Edit
<1>2. ASSUME Schedule PROVE Saving'
      BY <1>2 DEF Schedule
<1>3. ASSUME Defer PROVE Saving'
      BY <1>3 DEF Defer
<1>4. ASSUME ForgetPending PROVE Saving'
      BY <1>4 DEF ForgetPending
<1>5. ASSUME SaveNow PROVE Saving'
      BY <1>5 DEF SaveNow
<1>6. ASSUME StartWait PROVE Saving'
      BY <1>6 DEF StartWait
<1>7. ASSUME EndWait PROVE Saving'
      BY <1>7 DEF EndWait
<1>8. ASSUME Expire PROVE Saving'
      BY <1>8 DEF Expire
<1>9. ASSUME Apply PROVE Saving'
      BY <1>9 DEF Apply
<1>10. ASSUME Claim PROVE Saving'
      BY <1>10 DEF Claim
<1>11. ASSUME Fail PROVE Saving'
      BY <1>11 DEF Fail
<1>12. ASSUME Publish PROVE Saving'
      BY <1>12 DEF Publish
<1>13. ASSUME Withdraw PROVE Saving'
      BY <1>13 DEF Withdraw
<1>14. ASSUME Retire PROVE Saving'
      BY <1>14 DEF Retire
<1>15. ASSUME Register PROVE Saving'
      BY <1>15 DEF Register
<1>16. ASSUME Commit PROVE Saving'
      BY <1>16 DEF Commit
<1>17. ASSUME TakeSave PROVE Saving'
      BY <1>17 DEF TakeSave
<1>18. ASSUME WriteSave PROVE Saving'
      BY <1>18 DEF WriteSave
<1>19. ASSUME Reset PROVE Saving'
      BY <1>19 DEF Reset
<1>20. ASSUME AskQuit PROVE Saving'
      BY <1>20 DEF AskQuit
<1>21. ASSUME JoinAndSave PROVE Saving'
      BY <1>21 DEF JoinAndSave
<1>22. ASSUME StopHttpd PROVE Saving'
      BY <1>22 DEF StopHttpd
<1>23. ASSUME Destroy PROVE Saving'
      BY <1>23 DEF Destroy
<1>24. CASE (\E g \in Handlers : Handle(g)) \/ (\E g \in Handlers : Handled(g)) \/
       UNCHANGED vars
      <2>1. UNCHANGED <<thread, settings, known, file, save_pending, editor, unload>>
            BY <1>24 DEF Handle, Handled, vars
      <2> QED BY <2>1
<1> QED BY <1>1, <1>2, <1>3, <1>4, <1>5, <1>6, <1>7, <1>8, <1>9, <1>10, <1>11, <1>12,
    <1>13, <1>14, <1>15, <1>16, <1>17, <1>18, <1>19, <1>20, <1>21, <1>22, <1>23, <1>24 DEF
    Next, Editor, Debounce, Unload

LEMMA SettingsStep ==
    ASSUME SettingsTyped, ContextsTyped, Counted, [Next]_vars
    PROVE  SettingsTyped'
<1> USE DEF Goto, settingsVars, contextVars, Counted, Settings, IdleEditor, NothingToApply, SettingsTyped, ContextsTyped
<1>1. ASSUME NEW new \in Settings, Edit(new) PROVE SettingsTyped'
      <2> DEFINE name_only == known /\ new.other = settings.other
      <2>1. name_only \in BOOLEAN
            OBVIOUS
      <2>2. editor' = editor \/ editor' = [pc |-> "schedule", name_only |-> name_only]
            BY <1>1 DEF Edit
      <2> HIDE DEF name_only
      <2>3. editor' \in [pc : {"idle", "schedule", "defer", "save", "write"}, name_only : BOOLEAN]
            BY <2>1, <2>2
      <2>4. settings' \in Settings /\ known' \in BOOLEAN
            BY <1>1 DEF Edit
      <2>5. edits' \in 0..MaxEdits
            BY <1>1 DEF Edit
      <2> QED BY <1>1, <2>3, <2>4, <2>5 DEF Edit
<1>2. ASSUME Schedule PROVE SettingsTyped'
      BY <1>2 DEF Schedule
<1>3. ASSUME Defer PROVE SettingsTyped'
      BY <1>3 DEF Defer
<1>4. ASSUME ForgetPending PROVE SettingsTyped'
      BY <1>4 DEF ForgetPending
<1>5. ASSUME SaveNow PROVE SettingsTyped'
      BY <1>5 DEF SaveNow
<1>6. ASSUME StartWait PROVE SettingsTyped'
      BY <1>6 DEF StartWait
<1>7. ASSUME EndWait PROVE SettingsTyped'
      BY <1>7 DEF EndWait
<1>8. ASSUME Expire PROVE SettingsTyped'
      BY <1>8 DEF Expire
<1>9. ASSUME Apply PROVE SettingsTyped'
      BY <1>9 DEF Apply
<1>10. ASSUME Claim PROVE SettingsTyped'
      <2>1. dnssd \in Nat
            OBVIOUS
      <2> QED BY <1>10, <2>1 DEF Claim
<1>11. ASSUME Fail PROVE SettingsTyped'
      BY <1>11 DEF Fail
<1>12. ASSUME Publish PROVE SettingsTyped'
      BY <1>12 DEF Publish
<1>13. ASSUME Withdraw PROVE SettingsTyped'
      BY <1>13 DEF Withdraw
<1>14. ASSUME Retire PROVE SettingsTyped'
      BY <1>14 DEF Retire
<1>15. ASSUME Register PROVE SettingsTyped'
      BY <1>15 DEF Register
<1>16. ASSUME Commit PROVE SettingsTyped'
      BY <1>16 DEF Commit
<1>17. ASSUME TakeSave PROVE SettingsTyped'
      BY <1>17 DEF TakeSave
<1>18. ASSUME WriteSave PROVE SettingsTyped'
      BY <1>18 DEF WriteSave
<1>19. ASSUME Reset PROVE SettingsTyped'
      <2>1. pending' \in [name : Names, gen : 0..MaxEdits]
            BY <1>19 DEF Reset
      <2> QED BY <1>19, <2>1 DEF Reset
<1>20. ASSUME AskQuit PROVE SettingsTyped'
      BY <1>20 DEF AskQuit
<1>21. ASSUME JoinAndSave PROVE SettingsTyped'
      BY <1>21 DEF JoinAndSave
<1>22. ASSUME StopHttpd PROVE SettingsTyped'
      BY <1>22 DEF StopHttpd
<1>23. ASSUME Destroy PROVE SettingsTyped'
      BY <1>23 DEF Destroy
<1>24. CASE (\E g \in Handlers : Handle(g)) \/ (\E g \in Handlers : Handled(g)) \/
       UNCHANGED vars
      <2>1. UNCHANGED <<settings, known, file, save_pending, editor, pending, server_name, unload, edits, thread>>
            BY <1>24 DEF Handle, Handled, vars
      <2> QED BY <2>1
<1> QED BY <1>1, <1>2, <1>3, <1>4, <1>5, <1>6, <1>7, <1>8, <1>9, <1>10, <1>11, <1>12,
    <1>13, <1>14, <1>15, <1>16, <1>17, <1>18, <1>19, <1>20, <1>21, <1>22, <1>23, <1>24 DEF
    Next, Editor, Debounce, Unload

LEMMA ContextsStep ==
    ASSUME SettingsTyped, ContextsTyped, Place, [Next]_vars
    PROVE  ContextsTyped'
<1> USE DEF Goto, settingsVars, contextVars, Contexts, NoHandler, Aged, Place, Claimed, SettingsTyped, ContextsTyped
<1>1. ASSUME StartWait PROVE ContextsTyped'
      <2> DEFINE Reader == [context : 0..Len(made), old : BOOLEAN]
      <2>1. ASSUME NEW g \in Handlers PROVE Aged(g) \in Reader
            <3>1. handler[g] \in Reader
                  BY <2>1
            <3> QED BY <3>1
      <2>2. handler' = [g \in Handlers |-> Aged(g)]
            BY <1>1 DEF StartWait
      <2>3. handler' \in [Handlers -> Reader]
            <3> HIDE DEF Aged, Reader, Place, SettingsTyped, ContextsTyped
            <3> QED BY <2>1, <2>2
      <2>4. thread'.old = thread.old /\ UNCHANGED contextVars
            BY <1>1 DEF StartWait
      <2> QED BY <2>3, <2>4
<1>2. ASSUME EndWait PROVE ContextsTyped'
      BY <1>2 DEF EndWait
<1>3. ASSUME Expire PROVE ContextsTyped'
      BY <1>3 DEF Expire
<1>4. ASSUME Apply PROVE ContextsTyped'
      BY <1>4 DEF Apply
<1>5. ASSUME Claim PROVE ContextsTyped'
      BY <1>5 DEF Claim
<1>6. ASSUME Fail PROVE ContextsTyped'
      BY <1>6 DEF Fail
<1>7. ASSUME Publish PROVE ContextsTyped'
      BY <1>7 DEF Publish
<1>8. ASSUME Withdraw PROVE ContextsTyped'
      BY <1>8 DEF Withdraw
<1>9. ASSUME Retire PROVE ContextsTyped'
      BY <1>9 DEF Retire
<1>10. ASSUME Register PROVE ContextsTyped'
      <2>1. raop_dnssd \in Contexts
            BY <1>10 DEF Register
      <2> QED BY <1>10, <2>1 DEF Register
<1>11. ASSUME Commit PROVE ContextsTyped'
      BY <1>11 DEF Commit
<1>12. ASSUME TakeSave PROVE ContextsTyped'
      BY <1>12 DEF TakeSave
<1>13. ASSUME WriteSave PROVE ContextsTyped'
      BY <1>13 DEF WriteSave
<1>14. ASSUME Reset PROVE ContextsTyped'
      BY <1>14 DEF Reset
<1>15. ASSUME NEW g \in Handlers, Handle(g) PROVE ContextsTyped'
      BY <1>15 DEF Handle
<1>16. ASSUME NEW g \in Handlers, Handled(g) PROVE ContextsTyped'
      BY <1>16 DEF Handled
<1>17. ASSUME StopHttpd PROVE ContextsTyped'
      BY <1>17 DEF StopHttpd
<1>18. ASSUME Destroy PROVE ContextsTyped'
      BY <1>18 DEF Destroy
<1>19. CASE (\E new \in Settings : Edit(new)) \/ Schedule \/ Defer \/ ForgetPending \/
       SaveNow \/ AskQuit \/ JoinAndSave \/ UNCHANGED vars
      <2>1. UNCHANGED <<running, made, dnssd, retired, raop_dnssd, services, freed, last_error, handler, thread>>
            BY <1>19 DEF Edit, Schedule, Defer, ForgetPending, SaveNow, AskQuit,
            JoinAndSave, vars
      <2> QED BY <2>1
<1> QED BY <1>1, <1>2, <1>3, <1>4, <1>5, <1>6, <1>7, <1>8, <1>9, <1>10, <1>11, <1>12,
    <1>13, <1>14, <1>15, <1>16, <1>17, <1>18, <1>19 DEF Next, Editor, Debounce, Unload

LEMMA FileStep ==
    ASSUME SettingsTyped, OneFile, [Next]_vars
    PROVE  OneFile'
<1> USE DEF settingsVars, OneFile, SettingsTyped
<1>1. ASSUME SaveNow PROVE OneFile'
      <2>1. file' = file \/ \E s \in Settings : file' = {s}
            BY <1>1 DEF SaveNow
      <2> QED BY <2>1, FS_Singleton
<1>2. ASSUME WriteSave PROVE OneFile'
      <2>1. file' = file \/ \E s \in Settings : file' = {s}
            BY <1>2 DEF WriteSave
      <2> QED BY <2>1, FS_Singleton
<1>3. ASSUME JoinAndSave PROVE OneFile'
      <2>1. file' = file \/ \E s \in Settings : file' = {s}
            BY <1>3 DEF JoinAndSave
      <2> QED BY <2>1, FS_Singleton
<1>4. CASE (\E new \in Settings : Edit(new)) \/ Schedule \/ Defer \/ ForgetPending \/
      StartWait \/ EndWait \/ Expire \/ Apply \/ Claim \/ Fail \/ Publish \/ Withdraw \/
      Retire \/ Register \/ Commit \/ TakeSave \/ Reset \/ (\E g \in Handlers : Handle(g))
      \/ (\E g \in Handlers : Handled(g)) \/ AskQuit \/ StopHttpd \/ Destroy \/ UNCHANGED
      vars
      <2>1. UNCHANGED <<file>>
            BY <1>4 DEF Edit, Schedule, Defer, ForgetPending, StartWait, EndWait, Expire,
            Apply, Claim, Fail, Publish, Withdraw, Retire, Register, Commit, TakeSave,
            Reset, Handle, Handled, AskQuit, StopHttpd, Destroy, vars
      <2> QED BY <2>1
<1> QED BY <1>1, <1>2, <1>3, <1>4 DEF Next, Editor, Debounce, Unload

LEMMA PartsType == SettingsTyped /\ ContextsTyped /\ OneFile /\ Place => TypeOK
<1> QED BY TypeParts DEF Place

(* Everything but what is saved, for any timing. *)
LEMMA Initially == Init => Inv
<1> SUFFICES ASSUME Init PROVE Inv
    OBVIOUS
<1>1. made \in Seq(Names) /\ Len(made) \in Nat /\ Len(made) = (IF running THEN 1 ELSE 0)
      BY DEF Init, Settings
<1>2. running => made[1] = settings.name
      BY DEF Init
<1>3. SettingsTyped
      <2>1. file \subseteq Settings /\ settings.name \in Names
            BY DEF Init, Settings
      <2>2. /\ pending \in [name : Names, gen : 0..MaxEdits] /\ server_name \in Names
            /\ editor \in [pc : {"idle", "schedule", "defer", "save", "write"},
                           name_only : BOOLEAN]
            BY <2>1 DEF Init, IdleEditor
      <2> QED BY <1>1, <2>1, <2>2 DEF Init, SettingsTyped
<1>4. ContextsTyped
      <2>1. handler \in [Handlers -> [context : 0..Len(made), old : BOOLEAN]]
            BY <1>1 DEF Init, NoHandler
      <2>2. services \subseteq Contexts /\ freed \subseteq Contexts
            BY DEF Init
      <2>3. thread.old \in 0..Len(made) /\ running \in BOOLEAN
            BY <1>1 DEF Init
      <2>4. dnssd \in 0..Len(made) /\ retired \in 0..Len(made) /\ raop_dnssd \in 0..Len(made)
            BY <1>1 DEF Init
      <2>5. last_error \in {"none", "rename", "bonjour"}
            BY DEF Init
      <2> QED BY <1>1, <2>1, <2>2, <2>3, <2>4, <2>5 DEF ContextsTyped
<1>5. OneFile
      <2>1. file = {settings} \/ file = {}
            BY DEF Init
      <2> QED BY <2>1, FS_EmptySet, FS_Singleton DEF OneFile
<1>6. Counted /\ Order
      BY DEF Init, Counted, Order, Claimed, IdleEditor
<1>7. Place /\ Serving
      BY <1>1 DEF Init, Place, Serving, Claimed, Holding, Contexts
<1>8. Reading
      BY DEF Init, Reading, Reads, NoHandler
<1>9. Naming
      BY <1>1, <1>2 DEF Init, Naming, NameIsAdvertised, Contexts, Shown
<1> QED BY <1>1, <1>3, <1>4, <1>5, <1>6, <1>7, <1>8, <1>9, TypeParts DEF Inv, Place

LEMMA InvStep == Inv /\ [Next]_vars => Inv'
<1> SUFFICES ASSUME Inv, [Next]_vars PROVE Inv'
    OBVIOUS
<1> USE DEF Inv
<1>1. SettingsTyped /\ ContextsTyped /\ OneFile
      BY TypeParts
<1>2. SettingsTyped' /\ ContextsTyped' /\ OneFile'
      BY <1>1, SettingsStep, ContextsStep, FileStep
<1>3. Counted' /\ Order' /\ Place' /\ Serving' /\ Naming'
      BY <1>1, CountedStep, OrderStep, PlaceStep, ServingStep, NamingStep
<1>4. Reading'
      <2> SUFFICES ASSUME NEW h \in Handlers PROVE Reads(h)'
          BY DEF Reading
      <2> QED BY <1>1, ReadingStep DEF Reading
<1>5. TypeOK'
      BY <1>2, <1>3, PartsType, PTL
<1> QED BY <1>3, <1>4, <1>5

LEMMA Invariance == Spec => []Inv
<1> QED BY Initially, InvStep, PTL DEF Spec

(* Every variable keeps its type, contexts are contexts that were made,    *)
(* and a running receiver is without one only during a rename              *)
(* (updateServerName() puts the claimed context back when it fails).       *)
THEOREM NameTypeCorrect == Spec => []TypeOK
<1>1. Inv => TypeOK
      BY DEF Inv
<1> QED BY <1>1, Invariance, PTL

(* A request never reads a context that was destroyed (m_retired_dnssd and *)
(* the wait of kNameDebounce), however many requests there are at a time.  *)
THEOREM NoRequestReadsFreed == Spec => []NoFreedRead
<1>1. Inv => NoFreedRead
      BY DEF Inv, Reading, Reads, NoFreedRead
<1> QED BY <1>1, Invariance, PTL

(* A rename withdraws the old service before it registers the new one, and *)
(* no service outlives its context.                                        *)
THEOREM OneServiceAtATime == Spec => []OneService
<1>1. Inv => OneService
      <2> SUFFICES ASSUME Inv PROVE OneService
          OBVIOUS
      <2>1. PICK c : services \subseteq {c} /\ c \notin freed
            <3>1. CASE thread.pc \in {"init", "withdraw"}
                  BY <3>1 DEF Inv, Serving, Place, Holding
            <3>2. CASE thread.pc \in {"retire", "register"}
                  BY <3>2 DEF Inv, Serving, Place
            <3> QED BY <3>1, <3>2 DEF Inv, Serving, Place, Claimed
      <2>2. IsFiniteSet({c}) /\ Cardinality({c}) = 1
            BY FS_Singleton
      <2>3. Cardinality(services) <= Cardinality({c})
            BY <2>1, <2>2, FS_Subset
      <2> QED BY <2>1, <2>2, <2>3 DEF OneService
<1> QED BY <1>1, Invariance, PTL

(* Outside a rename, requests are answered under the name that counts as   *)
(* advertised, and it is registered or the panel shows an error.           *)
THEOREM AdvertisedName == Spec => []NameIsAdvertised
<1>1. Inv => NameIsAdvertised
      BY DEF Inv, Naming
<1> QED BY <1>1, Invariance, PTL

(* settings.json holds the last settings when the plugin is gone, unless   *)
(* they are edited while the debounce thread writes older ones: the case   *)
(* that EditsDuringSave stands for.                                        *)
THEOREM LastSettingsKept ==
    ASSUME ~EditsDuringSave
    PROVE  Spec => []SettingsKept
<1>1. Init => Saving
      BY DEF Init, Saving, IdleEditor
<1>2. Inv /\ Saving /\ [Next]_vars => Saving'
      BY TypeParts, SavingStep DEF Inv
<1>3. Inv /\ Saving => SettingsKept
      <2> SUFFICES ASSUME Inv, Saving, unload \in {"saved", "httpd", "done"}, known
                   PROVE  file = {settings}
          BY DEF SettingsKept
      <2> QED BY DEF Inv, Order, Saving
<1> QED BY <1>1, <1>2, <1>3, Invariance, PTL DEF Spec

================================================================================
