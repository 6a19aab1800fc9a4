--------------------------- MODULE AccountScreens ---------------------------
(***************************************************************************)
(* The screens that hand out secrets once and say how the account stands:  *)
(* before the vault opens, Unlock, Signup, Recover and RecoveryKit, among  *)
(* which App chooses by authScreen; inside it, the sections of Settings    *)
(* (recovery kit, key derivation, master password, two-factor).  A section *)
(* forgets its state when Settings leaves the screen; App keeps the        *)
(* recovery key it was handed until RecoveryKit is continued.              *)
(*                                                                         *)
(* A request is sent, served and answered in steps of their own, and any   *)
(* step of the person may come between.  A secret is the request that made *)
(* it, or the account, for the recovery key it was created with.           *)
(***************************************************************************)
EXTENDS Naturals, FiniteSets

CONSTANTS
  Account,   \* addresses
  Outdated,  \* the accounts that were made under weaker KDF defaults
  MaxCalls,  \* bound on the requests that change an account
  MaxLocks,  \* bound on the locks of the vault
  None       \* no secret, no account

ASSUME NoneAssumption == None \notin Account /\ None \notin Nat
ASSUME OutdatedAssumption == Outdated \subseteq Account
ASSUME SecretAssumption == \A a \in Account : a \notin Nat
ASSUME BoundAssumption == MaxCalls \in Nat /\ MaxLocks \in Nat

VARIABLES
  kit,       \* server: the recovery key it accepts for the account
  factor,    \* server: the backup codes in force, None when two-factor is off
  begun,     \* server: accounts with a two-factor secret
  outdated,  \* server: accounts whose KDF parameters are below the defaults
  who,       \* the account whose DEK is in memory
  entered,   \* App.entered: the granted card has had its moment
  authScreen,\* which screen shows while the vault is closed
  asked,     \* the login in flight: by the form, by a demo button, or none
  slot,      \* App.recoveryKey
  kitTick,   \* RecoveryKit: "I've saved my recovery key"
  joining,   \* Signup.busy
  recover,   \* Recover: the account, the key it was opened with, the phase
  settings,  \* the state of the sections of Settings
  calls,     \* requests in flight
  sent,      \* requests sent so far
  unheard,   \* accounts whose last two-factor write was answered to nobody
  lockNo,    \* locks so far
  postLock,  \* App.postLockNotice: the lock it explains, 0 for null
  session,   \* VaultContext.sessionNotice: likewise
  clearing,  \* the timer that runs onUnlocked is pending
  byDemo,    \* history: a demo button opened the vault over a notice
  saved,     \* history: secrets the person has put somewhere safe
  gone       \* history: secrets dropped in a way the screens do not prevent

server  == <<kit, factor, begun, outdated>>
preAuth == <<authScreen, slot, kitTick, joining, recover>>
notices == <<lockNo, postLock, session, clearing, byDemo>>
person  == <<saved, gone>>
vars    == <<server, who, entered, asked, preAuth, settings, calls, sent, unheard, notices, person>>

-----------------------------------------------------------------------------
Secret  == Account \union 1 .. MaxCalls
Blank   == [acct |-> None, key |-> None, phase |-> "email"]
Kinds   == {"signup", "recover", "regenerate", "upgrade", "password", "confirm", "disable"}
OneTime == {"signup", "recover", "regenerate", "confirm"}
Writes  == {"confirm", "disable"}
Request == [id : 1 .. MaxCalls, kind : Kinds, acct : Account, key : Secret \union {None},
            stage : {"sent", "ok", "no"}, on : BOOLEAN]

\* Settings is not on screen.
Closed == [open |-> FALSE, two |-> "loading", probe |-> "none", busy |-> FALSE, codes |-> None, codesTick |-> FALSE,
           kit |-> "idle", key |-> None, keyTick |-> FALSE, kdf |-> "none", changing |-> FALSE]

Inside == who # None /\ entered
Shows(screen) == ~Inside /\ authScreen = screen

\* The call of the section or screen that is mounted now: its answer still sets state there.
Here(kinds) == {c \in calls : c.kind \in kinds /\ c.on}
Writing(a)  == \E c \in calls : c.kind \in Writes /\ c.acct = a
LeftBehind(cs, kinds) == {IF c.kind \in kinds THEN [c EXCEPT !.on = FALSE] ELSE c : c \in cs}

Drops(s) == gone' = gone \union (s \ (saved \union {None}))

-----------------------------------------------------------------------------
\* Some accounts are there already, their first recovery key safe, two-factor off.
Init ==
  /\ \E old \in SUBSET Account :
       /\ kit = [a \in Account |-> IF a \in old THEN a ELSE None]
       /\ saved = old
       /\ outdated = old \intersect Outdated
  /\ factor = [a \in Account |-> None] /\ begun = {}
  /\ who = None /\ entered = FALSE /\ asked = "none"
  /\ authScreen = "unlock" /\ slot = None /\ kitTick = FALSE /\ joining = FALSE /\ recover = Blank
  /\ settings = Closed
  /\ calls = {} /\ sent = 0 /\ unheard = {}
  /\ lockNo = 0 /\ postLock = 0 /\ session = 0 /\ clearing = FALSE /\ byDemo = FALSE
  /\ gone = {}

Submit(kind, a, key) ==
  /\ sent < MaxCalls
  /\ sent' = sent + 1
  /\ calls' = calls \union {[id |-> sent + 1, kind |-> kind, acct |-> a, key |-> key, stage |-> "sent", on |-> TRUE]}

-----------------------------------------------------------------------------
(* Unlock: the form and the demo buttons. *)

\* The login goes on if the person follows a link to another screen meanwhile.
Ask(how) ==
  /\ Shows("unlock") /\ who = None /\ asked = "none"
  /\ asked' = how
  /\ UNCHANGED <<server, who, entered, preAuth, settings, calls, sent, unheard, notices, person>>

\* Mutant: nobody clears it.
ClearsNoticeNever(how) == FALSE

\* Only the form's handler starts the timer that clears App's notice.
ClearsNotice(how) == how = "form"

Opened(a) ==
  /\ asked # "none" /\ kit[a] # None /\ lockNo < MaxLocks
  /\ who' = a
  /\ asked' = "none"
  /\ session' = 0
  /\ clearing' = (clearing \/ ClearsNotice(asked))
  /\ byDemo' = (byDemo \/ (asked = "demo" /\ postLock # 0))
  /\ settings' = [settings EXCEPT !.kdf = IF a \in outdated THEN "prompt" ELSE "none"]
  /\ UNCHANGED <<server, entered, preAuth, calls, sent, unheard, lockNo, postLock, person>>

AskFails ==
  /\ asked # "none"
  /\ asked' = "none"
  /\ UNCHANGED <<server, who, entered, preAuth, settings, calls, sent, unheard, notices, person>>

\* The vault takes the screen: whatever was mounted before it is unmounted, App's state stays.
Enter ==
  /\ who # None /\ ~entered
  /\ entered' = TRUE
  /\ kitTick' = FALSE /\ joining' = FALSE /\ recover' = Blank
  /\ calls' = LeftBehind(calls, {"signup", "recover"})
  /\ UNCHANGED <<server, who, asked, authScreen, slot, settings, sent, unheard, notices, person>>

OnUnlocked ==
  /\ clearing
  /\ clearing' = FALSE /\ postLock' = 0 /\ byDemo' = FALSE
  /\ UNCHANGED <<server, who, entered, asked, preAuth, settings, calls, sent, unheard, lockNo, session, person>>

-----------------------------------------------------------------------------
(* Leaving Settings, by the tabs of the shell or because the vault locks. *)

\* The banner comes back with the flag the login set; the rest starts anew.
SectionsUnmount(banner, cs) ==
  /\ settings' = [Closed EXCEPT !.kdf = banner]
  /\ calls' = LeftBehind(cs, {"regenerate", "upgrade", "password", "confirm", "disable"})
  /\ Drops({settings.key, settings.codes} \union {c.id : c \in Here({"regenerate", "confirm"})})

LockNow(cs) ==
  /\ who' = None /\ entered' = FALSE
  /\ lockNo' = lockNo + 1
  /\ SectionsUnmount("none", cs)

\* The LOCK button, or five minutes without a key or a click.
Lock ==
  /\ who # None
  /\ LockNow(calls)
  /\ UNCHANGED <<server, asked, preAuth, sent, unheard, postLock, session, clearing, byDemo, saved>>

\* A refresh was refused: the handler sets the notice, then locks.
SessionLost ==
  /\ who # None
  /\ session' = lockNo + 1
  /\ LockNow(calls)
  /\ UNCHANGED <<server, asked, preAuth, sent, unheard, postLock, clearing, byDemo, saved>>

\* ... or finds the vault locked already: the refresh was under way when it was.  The
\* handler sets the notice all the same, and lock() has nothing left to do.
SessionLostLate ==
  /\ who = None /\ lockNo > 0
  /\ session' = lockNo
  /\ UNCHANGED <<server, who, entered, asked, preAuth, settings, calls, sent, unheard, lockNo, postLock,
                 clearing, byDemo, person>>

OpenSettings ==
  /\ Inside /\ ~settings.open
  /\ settings' = [settings EXCEPT !.open = TRUE, !.two = "loading", !.probe = "asked"]
  /\ UNCHANGED <<server, who, entered, asked, preAuth, calls, sent, unheard, notices, person>>

LeaveSettings ==
  /\ settings.open
  /\ SectionsUnmount(IF settings.kdf = "none" THEN "none" ELSE "prompt", calls)
  /\ UNCHANGED <<server, who, entered, asked, preAuth, sent, unheard, notices, saved>>

-----------------------------------------------------------------------------
(* Signup, Recover and RecoveryKit. *)

Go(screen) ==
  /\ Shows("unlock")
  /\ authScreen' = screen
  /\ UNCHANGED <<server, who, entered, asked, slot, kitTick, joining, recover, settings, calls, sent, unheard, notices, person>>

\* Nothing stops a Signup with a request in flight, or a Recover that is not re-wrapping, from being left.
GoBack ==
  /\ Shows("signup") \/ (Shows("recover") /\ recover.phase # "working")
  /\ authScreen' = "unlock"
  /\ joining' = FALSE /\ recover' = Blank
  /\ calls' = LeftBehind(calls, {"signup", "recover"})
  /\ UNCHANGED <<server, who, entered, asked, slot, kitTick, settings, sent, unheard, notices, person>>

SignUp(a) ==
  /\ Shows("signup") /\ ~joining
  /\ joining' = TRUE
  /\ Submit("signup", a, None)
  /\ UNCHANGED <<server, who, entered, asked, authScreen, slot, kitTick, recover, settings, unheard, notices, person>>

\* The material is fetched, and the key that was saved opens the wrapper in it.
FindAndTryKey(a) ==
  /\ Shows("recover") /\ recover.phase = "email"
  /\ kit[a] \in saved
  /\ recover' = [acct |-> a, key |-> kit[a], phase |-> "password"]
  /\ UNCHANGED <<server, who, entered, asked, authScreen, slot, kitTick, joining, settings, calls, sent, unheard, notices, person>>

Finish ==
  /\ Shows("recover") /\ recover.phase = "password"
  /\ recover' = [recover EXCEPT !.phase = "working"]
  /\ Submit("recover", recover.acct, recover.key)
  /\ UNCHANGED <<server, who, entered, asked, authScreen, slot, kitTick, joining, settings, unheard, notices, person>>

TickKit ==
  /\ Shows("recovery") /\ ~kitTick /\ slot # None
  /\ kitTick' = TRUE
  /\ saved' = saved \union {slot}
  /\ UNCHANGED <<server, who, entered, asked, authScreen, slot, joining, recover, settings, calls, sent, unheard, notices, gone>>

\* Mutant: CONTINUE without the box.
MayContinueAtOnce == TRUE

MayContinue == kitTick

Continue ==
  /\ Shows("recovery") /\ MayContinue
  /\ slot' = None /\ kitTick' = FALSE /\ authScreen' = "unlock"
  /\ Drops(IF kitTick THEN {slot} ELSE {})
  /\ UNCHANGED <<server, who, entered, asked, joining, recover, settings, calls, sent, unheard, notices, saved>>

-----------------------------------------------------------------------------
(* Settings: a new recovery kit, the KDF banner, the master password. *)

IssueKit ==
  /\ settings.open /\ settings.kit = "idle"
  /\ settings' = [settings EXCEPT !.kit = "working"]
  /\ Submit("regenerate", who, None)
  /\ UNCHANGED <<server, who, entered, asked, preAuth, unheard, notices, person>>

TickKey ==
  /\ settings.open /\ settings.kit = "done" /\ ~settings.keyTick
  /\ settings' = [settings EXCEPT !.keyTick = TRUE]
  /\ saved' = saved \union {settings.key}
  /\ UNCHANGED <<server, who, entered, asked, preAuth, calls, sent, unheard, notices, gone>>

\* Mutant: DONE leaves the key in the section.
KitDoneKeepsKey ==
  /\ settings.open /\ settings.kit = "done" /\ settings.keyTick
  /\ settings' = [settings EXCEPT !.kit = "idle", !.keyTick = FALSE]
  /\ UNCHANGED <<server, who, entered, asked, preAuth, calls, sent, unheard, notices, person>>

KitDone ==
  /\ settings.open /\ settings.kit = "done" /\ settings.keyTick
  /\ settings' = [settings EXCEPT !.kit = "idle", !.key = None, !.keyTick = FALSE]
  /\ UNCHANGED <<server, who, entered, asked, preAuth, calls, sent, unheard, notices, person>>

UpgradeKdf ==
  /\ settings.open /\ settings.kdf = "prompt"
  /\ settings' = [settings EXCEPT !.kdf = "working"]
  /\ Submit("upgrade", who, None)
  /\ UNCHANGED <<server, who, entered, asked, preAuth, unheard, notices, person>>

ChangePassword ==
  /\ settings.open /\ ~settings.changing
  /\ settings' = [settings EXCEPT !.changing = TRUE]
  /\ Submit("password", who, None)
  /\ UNCHANGED <<server, who, entered, asked, preAuth, unheard, notices, person>>

-----------------------------------------------------------------------------
(* Settings: two-factor. *)

\* The server reads the factor; whatever it says afterwards is newer than any write before it.
ProbeServed ==
  /\ settings.open /\ settings.probe = "asked"
  /\ settings' = [settings EXCEPT !.probe = IF factor[who] = None THEN "off" ELSE "on"]
  /\ unheard' = unheard \ {who}
  /\ UNCHANGED <<server, who, entered, asked, preAuth, calls, sent, notices, person>>

ProbeAnswered ==
  /\ settings.open /\ settings.probe \in {"off", "on"}
  /\ settings' = [settings EXCEPT !.probe = "none", !.two = settings.probe]
  /\ UNCHANGED <<server, who, entered, asked, preAuth, calls, sent, unheard, notices, person>>

\* Mutant: a check that failed says off.
ProbeFailsAsOff ==
  /\ settings.open /\ settings.probe # "none"
  /\ settings' = [settings EXCEPT !.probe = "none", !.two = "off"]
  /\ UNCHANGED <<server, who, entered, asked, preAuth, calls, sent, unheard, notices, person>>

ProbeFails ==
  /\ settings.open /\ settings.probe # "none"
  /\ settings' = [settings EXCEPT !.probe = "none", !.two = "unknown"]
  /\ UNCHANGED <<server, who, entered, asked, preAuth, calls, sent, unheard, notices, person>>

Recheck ==
  /\ settings.open /\ settings.two = "unknown"
  /\ settings' = [settings EXCEPT !.probe = "asked", !.two = "loading"]
  /\ UNCHANGED <<server, who, entered, asked, preAuth, calls, sent, unheard, notices, person>>

\* A new secret, refused when the factor is on already; a code of an earlier
\* secret that is still under way will not match it.
Begin ==
  /\ settings.open /\ settings.two = "off" /\ ~settings.busy
  /\ factor[who] = None
  /\ begun' = begun \union {who}
  /\ calls' = {IF c.kind = "confirm" /\ c.acct = who THEN [c EXCEPT !.key = None] ELSE c : c \in calls}
  /\ settings' = [settings EXCEPT !.two = "scanning"]
  /\ UNCHANGED <<kit, factor, outdated, who, entered, asked, preAuth, sent, unheard, notices, person>>

\* CONFIRM and TURN OFF are disabled while busy; Enter in the field is not.
ConfirmFactor ==
  /\ settings.open /\ settings.two = "scanning"
  /\ settings' = [settings EXCEPT !.busy = TRUE]
  /\ Submit("confirm", who, who)
  /\ UNCHANGED <<server, who, entered, asked, preAuth, unheard, notices, person>>

AskTurnOff ==
  /\ settings.open /\ settings.two = "on"
  /\ settings' = [settings EXCEPT !.two = "disabling"]
  /\ UNCHANGED <<server, who, entered, asked, preAuth, calls, sent, unheard, notices, person>>

\* The code that is sent belongs to the enrolment in force.
TurnOff ==
  /\ settings.open /\ settings.two = "disabling"
  /\ settings' = [settings EXCEPT !.busy = TRUE]
  /\ Submit("disable", who, factor[who])
  /\ UNCHANGED <<server, who, entered, asked, preAuth, unheard, notices, person>>

\* CANCEL takes back what is shown, not what was sent.
Cancel ==
  /\ settings.open /\ settings.two \in {"scanning", "disabling"}
  /\ settings' = [settings EXCEPT !.two = IF settings.two = "scanning" THEN "off" ELSE "on"]
  /\ UNCHANGED <<server, who, entered, asked, preAuth, calls, sent, unheard, notices, person>>

TickCodes ==
  /\ settings.open /\ settings.two = "codes" /\ ~settings.codesTick
  /\ settings' = [settings EXCEPT !.codesTick = TRUE]
  /\ saved' = saved \union {settings.codes}
  /\ UNCHANGED <<server, who, entered, asked, preAuth, calls, sent, unheard, notices, gone>>

CodesDone ==
  /\ settings.open /\ settings.two = "codes" /\ settings.codesTick
  /\ settings' = [settings EXCEPT !.two = "on", !.codes = None, !.codesTick = FALSE]
  /\ UNCHANGED <<server, who, entered, asked, preAuth, calls, sent, unheard, notices, person>>

-----------------------------------------------------------------------------
(* The server, and the answers. *)

Stage(c, s) == calls' = (calls \ {c}) \union {[c EXCEPT !.stage = s]}

\* What an accepted request does to the account: a code works for its enrolment only.
Accepted(c) ==
  \/ /\ c.kind = "signup" /\ kit[c.acct] = None
     /\ kit' = [kit EXCEPT ![c.acct] = c.id]
     /\ UNCHANGED <<factor, begun, outdated>>
  \/ /\ c.kind = "recover" /\ kit[c.acct] = c.key
     /\ kit' = [kit EXCEPT ![c.acct] = c.id]
     /\ outdated' = outdated \ {c.acct}
     /\ UNCHANGED <<factor, begun>>
  \/ /\ c.kind = "regenerate"
     /\ kit' = [kit EXCEPT ![c.acct] = c.id]
     /\ UNCHANGED <<factor, begun, outdated>>
  \/ /\ c.kind \in {"upgrade", "password"}
     /\ outdated' = outdated \ {c.acct}
     /\ UNCHANGED <<kit, factor, begun>>
  \/ /\ c.kind = "confirm" /\ factor[c.acct] = None /\ c.acct \in begun /\ c.key # None
     /\ factor' = [factor EXCEPT ![c.acct] = c.id]
     /\ UNCHANGED <<kit, begun, outdated>>
  \/ /\ c.kind = "disable" /\ factor[c.acct] # None /\ factor[c.acct] = c.key
     /\ factor' = [factor EXCEPT ![c.acct] = None]
     /\ begun' = begun \ {c.acct}
     /\ UNCHANGED <<kit, outdated>>

Serve(c) ==
  /\ c.stage = "sent"
  /\ \/ Accepted(c) /\ Stage(c, "ok")
     \/ Stage(c, "no") /\ UNCHANGED server
  /\ UNCHANGED <<who, entered, asked, preAuth, settings, sent, unheard, notices, person>>

\* App keeps the key and shows RecoveryKit, whichever screen asked for it and whatever is open.
KeyHandedUp(c) ==
  /\ c.kind \in {"signup", "recover"}
  /\ slot' = c.id
  /\ authScreen' = "recovery"
  /\ kitTick' = (kitTick /\ Shows("recovery"))
  /\ joining' = FALSE /\ recover' = Blank
  /\ Drops({slot})
  /\ calls' = LeftBehind(calls \ {c}, {"signup", "recover"})
  /\ UNCHANGED <<who, entered, settings, unheard, notices, saved>>

\* What a section does with the answer while it is mounted.
Told(c) ==
  CASE c.kind = "regenerate" -> [settings EXCEPT !.kit = "done", !.key = c.id]
    [] c.kind = "upgrade"    -> [settings EXCEPT !.kdf = "done"]
    [] c.kind = "confirm"    -> [settings EXCEPT !.two = "codes", !.codes = c.id, !.busy = FALSE]
    [] c.kind = "disable"    -> [settings EXCEPT !.two = "off", !.busy = FALSE]

\* A section that has gone is told nothing.
SectionTold(c) ==
  /\ c.kind \in {"regenerate", "upgrade", "confirm", "disable"}
  /\ calls' = calls \ {c}
  /\ settings' = IF c.on THEN Told(c) ELSE settings
  /\ Drops(IF c.on /\ c.kind = "confirm" THEN {settings.codes} ELSE {})
  /\ unheard' = IF c.kind \in Writes /\ ~c.on THEN unheard \union {c.acct} ELSE unheard
  /\ UNCHANGED <<who, entered, preAuth, notices, saved>>

\* VaultContext locks whatever is open by now, and the notice is handed to App.
PasswordChanged(c) ==
  /\ c.kind = "password"
  /\ IF who # None
     THEN /\ LockNow(calls \ {c})
          /\ postLock' = lockNo + 1
     ELSE /\ postLock' = lockNo
          /\ calls' = calls \ {c}
          /\ UNCHANGED <<who, entered, settings, lockNo, gone>>
  /\ byDemo' = FALSE
  /\ UNCHANGED <<preAuth, unheard, session, clearing, saved>>

Answered(c) ==
  /\ c.stage = "ok"
  /\ \/ KeyHandedUp(c)
     \/ SectionTold(c)
     \/ PasswordChanged(c)
  /\ UNCHANGED <<server, asked, sent>>

Failed(c) ==
  CASE c.kind = "regenerate" -> [settings EXCEPT !.kit = "idle"]
    [] c.kind = "upgrade"    -> [settings EXCEPT !.kdf = "prompt"]
    [] c.kind = "password"   -> [settings EXCEPT !.changing = FALSE]
    [] c.kind \in Writes     -> [settings EXCEPT !.busy = FALSE]
    [] OTHER                 -> settings

\* An error is told to the screen that asked; a lost answer is an error although the request may have been served.
Fails(c) ==
  /\ calls' = calls \ {c}
  /\ settings' = IF c.on THEN Failed(c) ELSE settings
  /\ joining' = (joining /\ ~(c.kind = "signup" /\ c.on))
  /\ recover' = IF c.kind = "recover" /\ c.on THEN [recover EXCEPT !.phase = "password"] ELSE recover
  /\ Drops(IF c.kind \in OneTime /\ c.stage = "ok" THEN {c.id} ELSE {})
  /\ unheard' = IF c.kind \in Writes /\ (c.stage = "ok" \/ ~c.on) THEN unheard \union {c.acct} ELSE unheard
  /\ UNCHANGED <<server, who, entered, asked, authScreen, slot, kitTick, sent, notices, saved>>

-----------------------------------------------------------------------------
Next ==
  \/ \E how \in {"form", "demo"} : Ask(how)
  \/ \E a \in Account : Opened(a)
  \/ AskFails
  \/ Enter
  \/ OnUnlocked
  \/ Lock
  \/ SessionLost \/ SessionLostLate
  \/ OpenSettings
  \/ LeaveSettings
  \/ \E screen \in {"signup", "recover"} : Go(screen)
  \/ GoBack
  \/ \E a \in Account : SignUp(a) \/ FindAndTryKey(a)
  \/ Finish
  \/ TickKit
  \/ Continue
  \/ IssueKit
  \/ TickKey
  \/ KitDone
  \/ UpgradeKdf
  \/ ChangePassword
  \/ ProbeServed
  \/ ProbeAnswered
  \/ ProbeFails
  \/ Recheck
  \/ Begin
  \/ ConfirmFactor
  \/ AskTurnOff
  \/ TurnOff
  \/ Cancel
  \/ TickCodes
  \/ CodesDone
  \/ \E c \in calls : Serve(c) \/ Answered(c) \/ Fails(c)

Spec == Init /\ [][Next]_vars

-----------------------------------------------------------------------------
\* The variables hold what the components can hold: a section shows a key only
\* when it is done, only an open Settings has a state, and so on.
TypeOK ==
  /\ kit \in [Account -> Secret \union {None}] /\ factor \in [Account -> Secret \union {None}]
  /\ begun \subseteq Account /\ outdated \subseteq Account /\ unheard \subseteq Account
  /\ who \in Account \union {None} /\ entered \in BOOLEAN /\ (entered => who # None)
  /\ authScreen \in {"unlock", "signup", "recover", "recovery"}
  /\ asked \in {"none", "form", "demo"}
  /\ slot \in Secret \union {None} /\ ((slot # None) = (authScreen = "recovery"))
  /\ kitTick \in BOOLEAN /\ (kitTick => Shows("recovery"))
  /\ joining \in BOOLEAN /\ (joining => Shows("signup"))
  /\ recover.phase \in {"email", "password", "working"} /\ (recover # Blank => Shows("recover"))
  /\ settings.two \in {"loading", "unknown", "off", "scanning", "codes", "on", "disabling"}
  /\ (settings.codes # None) = (settings.two = "codes")
  /\ settings.kit \in {"idle", "working", "done"} /\ (settings.key # None) = (settings.kit = "done")
  /\ settings.kdf \in {"none", "prompt", "working", "done"} /\ settings.probe \in {"none", "asked", "off", "on"}
  /\ (settings.open => Inside)
  /\ calls \subseteq Request /\ sent \in 0 .. MaxCalls
  /\ lockNo \in 0 .. MaxLocks /\ postLock \in 0 .. lockNo /\ session \in 0 .. lockNo
  /\ saved \subseteq Secret /\ gone \subseteq Secret

\* A secret the server will accept and shows once - a recovery key, a set of
\* backup codes - is safe with the person, held by the browser for them, or on
\* its way; it gets out of reach only where the screens cannot help it: its
\* answer is lost, Settings is left before it was saved, or another flow that
\* overlapped took its place.  The ticked box is what keeps CONTINUE and DONE
\* from discarding a secret nobody has.
Held == {slot, settings.key, settings.codes}
Coming == {c.id : c \in {d \in calls : d.kind \in OneTime}}
OnceShownIsKept ==
  \A a \in Account : {kit[a], factor[a]} \ {None} \subseteq saved \union Held \union Coming \union gone

\* The two-factor section never claims what is not so: with no write of the
\* account in flight, and none answered to nobody since the server was last
\* asked, it says off or offers to turn off exactly as the server has it.
SettingsSayTruth ==
  settings.open /\ ~Writing(who) /\ who \notin unheard =>
    /\ settings.two = "off" => factor[who] = None
    /\ settings.two \in {"on", "codes", "disabling"} => factor[who] # None

\* The unlock screen explains the lock that brought the person there, and never
\* one of an earlier session; a vault opened by a demo button is the exception.
Notice == IF postLock # 0 THEN postLock ELSE session
NoticeIsOfThisLock ==
  Shows("unlock") /\ who = None /\ ~clearing /\ ~byDemo => Notice \in {0, lockNo}

=============================================================================
